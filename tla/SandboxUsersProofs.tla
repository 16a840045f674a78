------------------------- MODULE SandboxUsersProofs -------------------------
(***************************************************************************)
(* Proofs about SandboxUsers, for any number of suites and users.  That a  *)
(* returned user can log in rests on the token request, which is refused   *)
(* without an account (KeycloakInv), and on files that only suites with    *)
(* the same path write (FileInv).  That a deactivation is real rests on    *)
(* the resource version: a suite with a fresh copy updates an object that  *)
(* is still there (FreshInv), and only a removal undoes the update.        *)
(***************************************************************************)
EXTENDS SandboxUsers, TLAPS

\* Which operation brings a suite to a step, and that an attempt is left.
PathInv ==
    \A p \in Procs :
      /\ pc[p] = "check" => op[p] \in {"create", "banned", "deactivate"}
      /\ pc[p] = "update" => op[p] = "deactivate"
      /\ pc[p] = "deleteWait" => op[p] = "delete"
      /\ pc[p] \in {"exists", "register", "token", "space"} => op[p] = "create"
      /\ pc[p] = "client" => op[p] = "stage"
      /\ pc[p] = "file" => op[p] \in {"create", "stage"}
      /\ op[p] = "stage" /\ pc[p] \in {"file", "client"} => attempts[p] < MaxAttempts

\* After the token request the user has an account.
KeycloakInv ==
    \A p \in Procs :
      op[p] = "create" /\ pc[p] \in {"file", "space", "done"} => user[p] \in keycloak

\* The users whose token a suite may find in its file.
Tokens(p) ==
    IF shared THEN {user[q] : q \in {r \in Procs : op[r] \in {"create", "stage"}}} ELSE {user[p]}

\* Once a suite has written its file, the file holds such a token.
FileInv ==
    \A p \in Procs :
      op[p] \in {"create", "stage"} /\ pc[p] \in {"space", "client", "done"}
        => file[KubeconfigPath(p)] \in Tokens(p)

\* A fresh copy is of an object that is there, and so is what was deactivated.
FreshInv ==
    /\ \A p \in fresh : signup[user[p]].there
    /\ \A u \in Users : signup[u].deactivated => signup[u].there

\* The inductive invariant.
IInv ==
    /\ TypeOK
    /\ PathInv
    /\ KeycloakInv
    /\ FileInv
    /\ FreshInv
    /\ DeactivationIsReal

-----------------------------------------------------------------------------

\* What the updates of a UserSignup leave alone.
LEMMA SignupUpdates ==
    ASSUME NEW s \in Signup, NEW n \in {"own", "other"}
    PROVE  /\ [s EXCEPT !.name = n] \in Signup
           /\ [s EXCEPT !.name = n].there = s.there
           /\ [s EXCEPT !.name = n].deactivated = s.deactivated
           /\ [s EXCEPT !.complete = TRUE] \in Signup
           /\ [s EXCEPT !.complete = TRUE].there = s.there
           /\ [s EXCEPT !.complete = TRUE].deactivated = s.deactivated
           /\ [s EXCEPT !.deleting = TRUE] \in Signup
           /\ [s EXCEPT !.deleting = TRUE].there = s.there
           /\ [s EXCEPT !.deleting = TRUE].deactivated = s.deactivated
           /\ [s EXCEPT !.deactivated = TRUE] \in Signup
           /\ [s EXCEPT !.deactivated = TRUE].there = s.there
           /\ [s EXCEPT !.deactivated = TRUE].deactivated
  BY DEF Signup

\* The initial states satisfy the inductive invariant.
LEMMA InitIInv == Init => IInv
<1> SUFFICES ASSUME Init PROVE IInv
  OBVIOUS
<1>1. TypeOK
  BY MaxAttemptsAssumption DEF Init, TypeOK, Signup, NoSignup, Ended
<1>2. PathInv /\ KeycloakInv /\ FileInv /\ DeactivationIsReal
  BY MaxAttemptsAssumption DEF Init, PathInv, KeycloakInv, FileInv, DeactivationIsReal
<1>3. FreshInv
  BY DEF Init, FreshInv, NoSignup
<1> QED BY <1>1, <1>2, <1>3 DEF IInv

-----------------------------------------------------------------------------
(* The toolchain and the clock.                                            *)

\* The toolchain's steps on a UserSignup preserve the inductive invariant.
LEMMA ToolchainSignupIInv ==
    ASSUME IInv, NEW u \in Users, ToolchainSignup(u),
           UNCHANGED <<suite, pc, expired, name, attempts, keycloak, file>>
    PROVE  IInv'
<1> USE DEF IInv, suite
<1>1. PICK s \in Signup : /\ signup' = [signup EXCEPT ![u] = s]
                          /\ s.there = signup[u].there
                          /\ s.deactivated = signup[u].deactivated
  <2>1. signup[u] \in Signup
    BY DEF TypeOK
  <2> HIDE DEF IInv
  <2>2. CASE \E n \in {"own", "other"} : signup' = [signup EXCEPT ![u].name = n]
    <3>1. PICK n \in {"own", "other"} : signup' = [signup EXCEPT ![u].name = n]
      BY <2>2
    <3>2. signup' = [signup EXCEPT ![u] = [signup[u] EXCEPT !.name = n]]
      BY <3>1
    <3> QED BY <2>1, <3>2, SignupUpdates
  <2>3. CASE signup' = [signup EXCEPT ![u].complete = TRUE]
    <3>1. signup' = [signup EXCEPT ![u] = [signup[u] EXCEPT !.complete = TRUE]]
      BY <2>3
    <3> QED BY <2>1, <3>1, SignupUpdates
  <2> QED BY <2>2, <2>3 DEF ToolchainSignup
<1>2. fresh' \subseteq fresh /\ UNCHANGED <<space, gone>>
  BY DEF ToolchainSignup
<1>3. TypeOK'
  BY <1>1, <1>2 DEF TypeOK
<1>4. PathInv' /\ KeycloakInv' /\ FileInv'
  BY DEF PathInv, KeycloakInv, FileInv, Tokens, KubeconfigPath
<1>5. FreshInv'
  BY <1>1, <1>2 DEF FreshInv, TypeOK
<1>6. DeactivationIsReal'
  BY <1>1, <1>2 DEF DeactivationIsReal, TypeOK
<1> QED BY <1>3, <1>4, <1>5, <1>6

\* So do its steps on a Space.
LEMMA ToolchainSpaceIInv ==
    ASSUME IInv, NEW u \in Users, ToolchainSpace(u),
           UNCHANGED <<suite, pc, expired, name, attempts, keycloak, file>>
    PROVE  IInv'
<1> USE DEF IInv, ToolchainSpace, suite
<1>1. TypeOK'
  BY DEF TypeOK
<1>2. PathInv' /\ KeycloakInv'
  BY DEF PathInv, KeycloakInv
<1>3. FileInv'
  BY DEF FileInv, Tokens, KubeconfigPath
<1>4. FreshInv' /\ DeactivationIsReal'
  BY DEF FreshInv, DeactivationIsReal
<1> QED BY <1>1, <1>2, <1>3, <1>4

\* A UserSignup that goes takes the claims about it with it.
LEMMA ToolchainRemovesIInv ==
    ASSUME IInv, NEW u \in Users, ToolchainRemoves(u),
           UNCHANGED <<suite, pc, expired, name, attempts, keycloak, file>>
    PROVE  IInv'
<1> USE DEF IInv, ToolchainRemoves, suite
<1>1. TypeOK'
  BY DEF TypeOK, Signup, NoSignup, Holders
<1>2. PathInv' /\ KeycloakInv' /\ FileInv'
  BY DEF PathInv, KeycloakInv, FileInv, Tokens, KubeconfigPath
<1>3. FreshInv'
  BY DEF FreshInv, TypeOK, NoSignup, Holders
<1>4. DeactivationIsReal'
  BY DEF DeactivationIsReal, TypeOK, NoSignup, Holders
<1> QED BY <1>1, <1>2, <1>3, <1>4

\* An admin token that expires does not matter to the invariant.
LEMMA TokenExpiresIInv ==
    ASSUME IInv, TokenExpires
    PROVE  IInv'
<1> USE DEF IInv, TokenExpires, suite, cluster
<1>1. TypeOK'
  BY DEF TypeOK
<1>2. PathInv' /\ KeycloakInv'
  BY DEF PathInv, KeycloakInv
<1>3. FileInv'
  BY DEF FileInv, Tokens, KubeconfigPath
<1>4. FreshInv' /\ DeactivationIsReal'
  BY DEF FreshInv, DeactivationIsReal
<1> QED BY <1>1, <1>2, <1>3, <1>4

-----------------------------------------------------------------------------
(* The suites.                                                             *)

\* Steps that change what a suite knows and where it is, and nothing that others
\* see: to which steps they may lead.
LocalStep(p) ==
    /\ UNCHANGED <<suite, gone, cluster, file>>
    /\ UNCHANGED <<expired, attempts>>
    /\ name' \in [Procs -> {"own", "other", Nil}]
    /\ fresh' \subseteq Procs
    /\ \A q \in fresh' \ fresh : signup[user[q]].there
    /\ \E l \in {"signup", "update", "exists", "register", "token", "file", "done", "failed"} :
         /\ pc' = [pc EXCEPT ![p] = l] \/ UNCHANGED pc
         /\ l = "update" => op[p] = "deactivate"
         /\ l \in {"exists", "register", "token"} => op[p] = "create"
         /\ l = "file" => op[p] = "create" /\ user[p] \in keycloak
         /\ l = "done" => \/ op[p] = "create" /\ pc[p] = "space"
                          \/ op[p] = "stage" /\ pc[p] = "client"
                          \/ op[p] \in {"banned", "delete"}

\* Local steps preserve the inductive invariant.
LEMMA LocalIInv ==
    ASSUME IInv, NEW p \in Procs, LocalStep(p)
    PROVE  IInv'
<1> USE DEF IInv, LocalStep, suite, cluster
<1>1. TypeOK'
  BY DEF TypeOK, Ended
<1>2. PathInv'
  BY DEF PathInv, TypeOK
<1>3. KeycloakInv'
  BY DEF KeycloakInv, TypeOK
<1>4. FileInv'
  <2>1. \A q \in Procs : op[q] \in {"create", "stage"} /\ pc'[q] \in {"space", "client", "done"}
                         => pc[q] \in {"space", "client", "done"}
    BY DEF TypeOK
  <2>2. UNCHANGED <<op, user, shared, file>>
    OBVIOUS
  <2>3. FileInv
    OBVIOUS
  <2> HIDE DEF IInv, LocalStep
  <2> QED BY <2>1, <2>2, <2>3 DEF FileInv, Tokens, KubeconfigPath
<1>5. FreshInv'
  BY DEF FreshInv, TypeOK
<1>6. DeactivationIsReal'
  BY DEF DeactivationIsReal, TypeOK
<1> QED BY <1>1, <1>2, <1>3, <1>4, <1>5, <1>6

\* The actions that are local steps.
LEMMA LocalSteps ==
    ASSUME IInv, NEW p \in Procs,
           \/ Prepare(p) \/ CheckUserCreated(p) \/ GetUserSignup(p) \/ KeycloakUserExists(p)
           \/ GetKeycloakToken(p) \/ WaitForNamespace(p) \/ CreateAPIProxyClient(p)
           \/ WaitForDeletion(p) \/ TimesOut(p) \/ CallFails(p)
    PROVE  LocalStep(p)
<1> USE DEF IInv, LocalStep, PathInv, Go, local
<1>1. CASE Prepare(p)
  BY <1>1 DEF Prepare, TypeOK
<1>2. CASE CheckUserCreated(p)
  BY <1>2 DEF CheckUserCreated, TypeOK, Signup
<1>3. CASE GetUserSignup(p)
  BY <1>3 DEF GetUserSignup, TypeOK
<1>4. CASE KeycloakUserExists(p)
  BY <1>4 DEF KeycloakUserExists, TypeOK
<1>5. CASE GetKeycloakToken(p)
  BY <1>5 DEF GetKeycloakToken, TypeOK
<1>6. CASE WaitForNamespace(p)
  BY <1>6 DEF WaitForNamespace, TypeOK
<1>7. CASE CreateAPIProxyClient(p)
  BY <1>7 DEF CreateAPIProxyClient, TypeOK
<1>8. CASE WaitForDeletion(p)
  BY <1>8 DEF WaitForDeletion, TypeOK
<1>9. CASE TimesOut(p)
  BY <1>9 DEF TimesOut, TypeOK
<1>10. CASE CallFails(p)
  BY <1>10 DEF CallFails, TypeOK
<1> QED BY <1>1, <1>2, <1>3, <1>4, <1>5, <1>6, <1>7, <1>8, <1>9, <1>10

\* A suite finds a UserSignup or creates one, which is not deactivated; what was
\* deactivated is there, so it is not replaced.
LEMMA RegisterSandboxUserIInv ==
    ASSUME IInv, NEW p \in Procs, RegisterSandboxUser(p)
    PROVE  IInv'
<1> USE DEF IInv, RegisterSandboxUser, Go, suite, local
<1>1. PICK s \in Signup : /\ signup' = [signup EXCEPT ![user[p]] = s]
                          /\ s.there
                          /\ s.deactivated = signup[user[p]].deactivated
  <2>1. CASE signup[user[p]].there
    BY <2>1 DEF TypeOK
  <2>2. CASE ~signup[user[p]].there
    <3> DEFINE s == [NoSignup EXCEPT !.there = TRUE, !.banned = (op[p] = "banned")]
    <3>1. s \in Signup /\ s.there /\ s.deactivated = FALSE
      BY DEF Signup, NoSignup
    <3>2. signup[user[p]].deactivated = FALSE
      BY <2>2 DEF FreshInv, TypeOK, Signup
    <3> HIDE DEF s
    <3>3. signup' = [signup EXCEPT ![user[p]] = s]
      BY <2>2 DEF s
    <3> QED BY <3>1, <3>2, <3>3
  <2> QED BY <2>1, <2>2
<1>2. TypeOK'
  BY <1>1 DEF TypeOK
<1>3. PathInv' /\ KeycloakInv'
  BY DEF PathInv, KeycloakInv, TypeOK
<1>4. FileInv'
  BY DEF FileInv, Tokens, KubeconfigPath, TypeOK
<1>5. FreshInv' /\ DeactivationIsReal'
  BY <1>1 DEF FreshInv, DeactivationIsReal, TypeOK
<1> QED BY <1>2, <1>3, <1>4, <1>5

\* The update of a fresh copy deactivates a UserSignup that is there.
LEMMA UpdateUserSignupIInv ==
    ASSUME IInv, NEW p \in Procs, UpdateUserSignup(p)
    PROVE  IInv'
<1> USE DEF IInv, suite
<1>1. PICK s \in Signup : /\ signup' = [signup EXCEPT ![user[p]] = s]
                          /\ s.there
                          /\ s.deactivated
  <2>1. signup[user[p]] \in Signup /\ signup[user[p]].there
    BY DEF TypeOK, FreshInv, UpdateUserSignup
  <2>2. signup' = [signup EXCEPT ![user[p]] = [signup[user[p]] EXCEPT !.deactivated = TRUE]]
    BY DEF UpdateUserSignup
  <2> DEFINE s == [signup[user[p]] EXCEPT !.deactivated = TRUE]
  <2> HIDE DEF IInv
  <2>3. s \in Signup /\ s.there /\ s.deactivated
    BY <2>1, SignupUpdates
  <2>4. signup' = [signup EXCEPT ![user[p]] = s]
    BY <2>2
  <2> HIDE DEF s
  <2> QED BY <2>3, <2>4
<1>2. /\ fresh' \subseteq fresh
      /\ pc' = [pc EXCEPT ![p] = "done"]
      /\ op[p] = "deactivate"
      /\ UNCHANGED <<suite, expired, name, attempts, gone, space, keycloak, file>>
  BY DEF UpdateUserSignup, Go, PathInv
<1>3. TypeOK'
  BY <1>1, <1>2 DEF TypeOK, Ended
<1>4. PathInv' /\ KeycloakInv'
  BY <1>2 DEF PathInv, KeycloakInv, TypeOK
<1>5. FileInv'
  BY <1>2 DEF FileInv, Tokens, KubeconfigPath, TypeOK
<1>6. FreshInv' /\ DeactivationIsReal'
  BY <1>1, <1>2 DEF FreshInv, DeactivationIsReal, TypeOK
<1> QED BY <1>3, <1>4, <1>5, <1>6

\* A deletion is marked on the UserSignup, which stays until it is removed.
LEMMA DeleteUserSignupIInv ==
    ASSUME IInv, NEW p \in Procs, DeleteUserSignup(p)
    PROVE  IInv'
<1> USE DEF IInv, suite
<1>1. PICK s \in Signup : /\ signup' = [signup EXCEPT ![user[p]] = s]
                          /\ s.there = signup[user[p]].there
                          /\ s.deactivated = signup[user[p]].deactivated
  <2>1. signup[user[p]] \in Signup
    BY DEF TypeOK
  <2>2. CASE signup[user[p]].there
    BY <2>1, <2>2, SignupUpdates DEF DeleteUserSignup
  <2>3. CASE ~signup[user[p]].there
    BY <2>1, <2>3 DEF TypeOK, DeleteUserSignup
  <2> QED BY <2>2, <2>3
<1>2. fresh' \subseteq fresh /\ op[p] = "delete"
  BY DEF DeleteUserSignup
<1>3. PICK l \in {"deleteWait", "failed"} : pc' = [pc EXCEPT ![p] = l]
  BY DEF DeleteUserSignup, Go
<1> UNCHANGED <<suite, expired, name, attempts, gone, space, keycloak, file>>
  BY DEF DeleteUserSignup
<1>4. TypeOK'
  BY <1>1, <1>2, <1>3 DEF TypeOK, Ended
<1>5. PathInv' /\ KeycloakInv'
  BY <1>2, <1>3 DEF PathInv, KeycloakInv, TypeOK
<1>6. FileInv'
  BY <1>2, <1>3 DEF FileInv, Tokens, KubeconfigPath, TypeOK
<1>7. FreshInv' /\ DeactivationIsReal'
  BY <1>1, <1>2, <1>3 DEF FreshInv, DeactivationIsReal, TypeOK
<1> QED BY <1>4, <1>5, <1>6, <1>7

\* Keycloak only gains accounts.
LEMMA RegisterKeycloakUserIInv ==
    ASSUME IInv, NEW p \in Procs, RegisterKeycloakUser(p)
    PROVE  IInv'
<1> USE DEF IInv, RegisterKeycloakUser, Go, suite, local
<1>1. TypeOK'
  BY DEF TypeOK
<1>2. PathInv' /\ KeycloakInv'
  BY DEF PathInv, KeycloakInv, TypeOK
<1>3. FileInv'
  BY DEF FileInv, Tokens, KubeconfigPath, TypeOK
<1>4. FreshInv' /\ DeactivationIsReal'
  BY DEF FreshInv, DeactivationIsReal, TypeOK
<1> QED BY <1>1, <1>2, <1>3, <1>4

\* Suites that share a path share it because they have the same user, or because
\* the environment names it: what one writes the others may find.
LEMMA WriteKubeconfigIInv ==
    ASSUME IInv, NEW p \in Procs, WriteKubeconfig(p)
    PROVE  IInv'
<1> USE DEF IInv, WriteKubeconfig, Go, suite, local, cluster
<1>1. TypeOK'
  BY DEF TypeOK, KubeconfigPath
<1>2. PathInv' /\ KeycloakInv'
  BY DEF PathInv, KeycloakInv, TypeOK
<1>3. FileInv'
  <2>1. op[p] \in {"create", "stage"}
    BY DEF PathInv
  <2>2. SUFFICES ASSUME NEW q \in Procs, op[q] \in {"create", "stage"},
                        pc'[q] \in {"space", "client", "done"}
                 PROVE  file'[KubeconfigPath(q)] \in Tokens(q)
    BY DEF FileInv, Tokens, KubeconfigPath
  <2>3. KubeconfigPath(p) \in DOMAIN file /\ KubeconfigPath(q) \in DOMAIN file
    BY DEF TypeOK, KubeconfigPath
  <2>4. CASE KubeconfigPath(q) = KubeconfigPath(p)
    <3>1. file'[KubeconfigPath(q)] = user[p]
      BY <2>3, <2>4 DEF TypeOK
    <3>2. user[p] \in Tokens(q)
      BY <2>1, <2>4, SharedFileAssumption DEF Tokens, KubeconfigPath, TypeOK
    <3> QED BY <3>1, <3>2
  <2>5. CASE KubeconfigPath(q) # KubeconfigPath(p)
    <3>1. p # q
      BY <2>5
    <3>2. pc'[q] = pc[q] /\ file'[KubeconfigPath(q)] = file[KubeconfigPath(q)]
      BY <2>3, <2>5, <3>1 DEF TypeOK
    <3> QED BY <2>2, <3>2 DEF FileInv
  <2> QED BY <2>4, <2>5
<1>4. FreshInv' /\ DeactivationIsReal'
  BY DEF FreshInv, DeactivationIsReal, TypeOK
<1> QED BY <1>1, <1>2, <1>3, <1>4

\* An attempt that fails is counted, and the last one ends the call.
LEMMA AttemptFailsIInv ==
    ASSUME IInv, NEW p \in Procs, AttemptFails(p)
    PROVE  IInv'
<1> USE DEF IInv, AttemptFails, Go, suite, cluster
<1>1. attempts[p] \in Nat /\ attempts[p] + 1 <= MaxAttempts
  BY MaxAttemptsAssumption DEF PathInv, TypeOK
<1>2. TypeOK'
  BY <1>1, MaxAttemptsAssumption DEF TypeOK, Ended
<1>3. PathInv' /\ KeycloakInv'
  BY <1>1, MaxAttemptsAssumption DEF PathInv, KeycloakInv, TypeOK
<1>4. FileInv'
  BY DEF FileInv, Tokens, KubeconfigPath, TypeOK
<1>5. FreshInv' /\ DeactivationIsReal'
  BY DEF FreshInv, DeactivationIsReal, TypeOK
<1> QED BY <1>2, <1>3, <1>4, <1>5

-----------------------------------------------------------------------------

\* Every step preserves the inductive invariant.
LEMMA NextIInv == IInv /\ [Next]_vars => IInv'
<1> SUFFICES ASSUME IInv, [Next]_vars PROVE IInv'
  OBVIOUS
<1>1. ASSUME NEW p \in Procs, Step(p) \/ CallFails(p) PROVE IInv'
  BY <1>1, LocalSteps, LocalIInv, RegisterSandboxUserIInv, UpdateUserSignupIInv,
     DeleteUserSignupIInv, RegisterKeycloakUserIInv, WriteKubeconfigIInv, AttemptFailsIInv
     DEF Step
<1>2. CASE Toolchain
  BY <1>2, ToolchainSignupIInv, ToolchainSpaceIInv, ToolchainRemovesIInv DEF Toolchain
<1>3. CASE TokenExpires
  BY <1>3, TokenExpiresIInv
<1>4. CASE UNCHANGED vars
  <2> USE <1>4 DEF vars, suite, local, cluster
  <2>1. TypeOK' /\ PathInv' /\ KeycloakInv'
    BY DEF IInv, TypeOK, PathInv, KeycloakInv
  <2>2. FileInv' /\ FreshInv' /\ DeactivationIsReal'
    BY DEF IInv, FileInv, FreshInv, DeactivationIsReal, KubeconfigPath, Tokens
  <2> QED BY <2>1, <2>2 DEF IInv
<1> QED BY <1>1, <1>2, <1>3, <1>4 DEF Next, Finished

\* The inductive invariant holds in every reachable state.
THEOREM Invariance == Spec => []IInv
  BY InitIInv, NextIInv, PTL DEF Spec

\* The variables have their types.
THEOREM TypeCorrect == Spec => []TypeOK
<1>1. IInv => TypeOK
  BY DEF IInv
<1> QED BY <1>1, Invariance, PTL

\* For any number of suites and users: whoever was given a user has an account
\* to log in with and a file with a usable token (CreateUser's swallowed errors
\* in pkg/sandbox, and files that suites overwrite).
THEOREM UsersAreUsable == Spec => []UserIsUsable
<1>1. IInv => UserIsUsable
  BY DEF IInv, UserIsUsable, KeycloakInv, FileInv, KubeconfigPath, Tokens
<1> QED BY <1>1, Invariance, PTL

\* For any number of suites and users: a deactivation that was reported stands
\* until the UserSignup is removed (UpdateUserSignup's retry on conflicts).
THEOREM DeactivationsAreReal == Spec => []DeactivationIsReal
<1>1. IInv => DeactivationIsReal
  BY DEF IInv
<1> QED BY <1>1, Invariance, PTL
=============================================================================

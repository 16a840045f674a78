-------------------------- MODULE GitRepositories --------------------------
(***************************************************************************)
(* A build suite and the repository it forks, at GitHub, GitLab or         *)
(* Forgejo: the calls of pkg/clients/git and of the three clients below    *)
(* it, one request at a time, while the cleanups of the module Cleanups    *)
(* run on the same account.  An answer may be lost after the service did   *)
(* what it was asked for: the transport of the GitHub and GitLab clients   *)
(* repeats a request that was answered 5xx, whatever it asked for, and     *)
(* some callers repeat the call.                                           *)
(***************************************************************************)
EXTENDS Cleanups

CONSTANTS
    Fork,       \* the repository the suite forks
    MaxRetries  \* of utils.RetryTransport

ASSUME ForkAssumption == Fork \in Items
ASSUME RetriesAssumption == MaxRetries \in Nat

VARIABLES
    pc,       \* the request the suite is about to send
    retry,    \* how often the transport has repeated it
    tries,    \* of ListPullRequestsWithRetry
    repo,     \* the fork as the service has it
    id,       \* the id of the check run is known
    adopted,  \* Forgejo's client took a repository that was there for the fork
    settled   \* what the call that merged or closed the pull request reported

suite == <<pc, retry, tries, id, adopted, settled>>
vars == <<account, items, cleanup, faults, suite, repo>>

Providers == {"github", "gitlab", "forgejo"}
Ended == {"done", "failed"}

\* The calls that need the fork.
Working == {"branch", "branchWait", "open", "list", "appear", "check", "merge",
            "closeBranch", "closePr", "hooks"}

\* The kinds of things an account has.
KindsOf(a) == UNION {{k[n] : n \in 1..Len(k)} : k \in Cleanup[a]}

Init ==
    /\ account \in Providers \cup {"quay"}
    /\ items \in [Items -> [kind : KindsOf(account), old : BOOLEAN] \cup {Nil}]
    /\ items[Fork] = Nil
    /\ CleanupInit
    /\ pc = IF account = "quay" THEN "done" ELSE "fork"
    /\ retry = 0
    /\ tries = 1
    /\ id = FALSE
    /\ adopted = FALSE
    /\ settled = "none"
    /\ repo = [content |-> "none", branch |-> FALSE, pr |-> "none", behind |-> FALSE, check |-> "none"]

There == items[Fork] # Nil

-----------------------------------------------------------------------------
(* What the services do with a request.                                    *)

\* The request is accepted; otherwise it is answered with 4xx.
Accepts(op) ==
    CASE op = "fork" -> ~There
      [] op = "branch" -> There /\ repo.content = "ready" /\ ~repo.branch
      [] op = "open" -> repo.branch /\ repo.pr = "none"
      [] op = "merge" -> repo.pr = "open" /\ ~repo.behind
      [] op = "closeBranch" -> repo.branch
      [] op = "closePr" -> repo.pr # "merged"
      [] op = "delete" -> There /\ repo.content \notin {"deleting", "renamed"}
      [] OTHER -> FALSE

\* The repository after an accepted request.  GitHub closes a pull request whose
\* branch is deleted; GitLab only marks a project for deletion.
Served(op) ==
    CASE op = "fork" -> [repo EXCEPT !.content = "importing"]
      [] op = "branch" -> [repo EXCEPT !.branch = TRUE]
      [] op = "open" -> [repo EXCEPT !.pr = "open"]
      [] op = "merge" -> [repo EXCEPT !.pr = "merged"]
      [] op = "closeBranch" -> [repo EXCEPT !.branch = FALSE,
                                            !.pr = IF account = "github" /\ @ = "open" THEN "closed" ELSE @]
      [] op = "closePr" -> [repo EXCEPT !.pr = "closed"]
      [] op = "delete" -> [repo EXCEPT !.content = IF account = "gitlab" THEN "deleting" ELSE "none"]

Serve(op) ==
    /\ repo' = Served(op)
    /\ items' = CASE op = "fork" -> [items EXCEPT ![Fork] = [kind |-> "repo", old |-> FALSE]]
                  [] op = "delete" /\ account # "gitlab" -> [items EXCEPT ![Fork] = Nil]
                  [] OTHER -> items

\* Forks, check runs and the base branch go on by themselves.
ServiceStep ==
    /\ There
    /\ \/ /\ repo.content = "importing"
          /\ \E c \in {"ready", "failed"} : repo' = [repo EXCEPT !.content = c]
          /\ UNCHANGED items
       \/ /\ repo.content \in {"deleting", "renamed"}
          /\ \/ repo.content = "deleting" /\ repo' = [repo EXCEPT !.content = "renamed"] /\ UNCHANGED items
             \/ repo' = [repo EXCEPT !.content = "none"] /\ items' = [items EXCEPT ![Fork] = Nil]
       \/ /\ repo.pr = "open"
          /\ \/ repo.check = "none" /\ repo' = [repo EXCEPT !.check = "running"]
             \/ repo.check = "running" /\ repo' = [repo EXCEPT !.check = "completed"]
             \/ ~repo.behind /\ repo' = [repo EXCEPT !.behind = TRUE]
          /\ UNCHANGED items
    /\ UNCHANGED <<account, cleanup, faults, suite>>

\* Everything gets old; the fork only when the suite is over, which takes less
\* than a day.
Age ==
    /\ \E i \in Items :
         /\ items[i] # Nil
         /\ ~items[i].old
         /\ i = Fork => pc \in Ended
         /\ items' = [items EXCEPT ![i].old = TRUE]
    /\ UNCHANGED <<account, cleanup, faults, suite, repo>>

-----------------------------------------------------------------------------
(* Requests and answers.                                                   *)

Goto(next) == pc' \in next /\ retry' = 0

\* A connection that breaks is reported at once; a 5xx answer is repeated by
\* the transport and reported when it is the last one.
RoundTrip(next) ==
    \/ Goto(next)
    \/ /\ account # "forgejo"
       /\ retry < MaxRetries
       /\ retry' = retry + 1
       /\ UNCHANGED pc

\* The answer to a request that changes something is lost; the request may have
\* been served.
Lost(op, next) ==
    /\ Fault
    /\ \/ UNCHANGED <<items, repo>>
       \/ Accepts(op) /\ Serve(op)
    /\ RoundTrip(next)

\* A request: where the caller goes with success, with a refusal, and when no
\* answer came.
Request(op, ok, refused, lost) ==
    /\ pc = op
    /\ \/ Accepts(op) /\ Serve(op) /\ Goto(ok) /\ UNCHANGED faults
       \/ ~Accepts(op) /\ Goto(refused) /\ UNCHANGED <<items, repo, faults>>
       \/ Lost(op, lost)

\* A read, of something that is true or not yet.
Read(op, true, ok, wait, lost) ==
    /\ pc = op
    /\ \/ Goto(IF true THEN ok ELSE wait) /\ UNCHANGED faults
       \/ Fault /\ RoundTrip(lost)
    /\ UNCHANGED <<items, repo>>

\* The waits give up at some time.
TimesOut ==
    /\ pc \in {"fork", "import", "branchWait", "appear", "check", "merge", "deleteWait"}
    /\ Goto({"failed"})
    /\ UNCHANGED <<account, items, cleanup, faults, tries, id, adopted, settled, repo>>

rest == <<account, cleanup, tries, id, adopted, settled>>

-----------------------------------------------------------------------------
(* GitHub.                                                                 *)

\* ForkRepositoryWithOrgs: a fork that is there is answered as a new one, an
\* answer 500 is tried again, any other error ends the call.
CreateFork ==
    /\ account = "github"
    /\ Request("fork", {"import"}, {"import"}, {"fork", "failed"})
    /\ UNCHANGED rest

\* The commits are listed until they are there.
ListCommits ==
    /\ account = "github"
    /\ Read("import", repo.content = "ready", {"branch"}, {"import"}, {"import"})
    /\ UNCHANGED rest

\* CreateRef, and its wait, which an error ends.
CreateRef ==
    /\ account = "github"
    /\ \/ Request("branch", {"branchWait"}, {"failed"}, {"failed"})
       \/ Read("branchWait", repo.branch, {"open"}, {"branchWait"}, {"failed"})
    /\ UNCHANGED rest

\* GetCheckRunConclusion waits for the check run and then asks for it by its
\* id: an error loses the id, and check run 0 does not exist.
GetCheckRunConclusion ==
    /\ account = "github"
    /\ \/ /\ Read("appear", repo.check # "none", {"check"}, {"appear"}, {"appear"})
          /\ id' = (pc' = "check")
       \/ /\ Read("check", id /\ repo.check = "completed", {"merge", "closeBranch"}, {"check"}, {"check"})
          /\ id' = (id /\ faults' = faults)
    /\ UNCHANGED <<account, cleanup, tries, adopted, settled>>

\* MergePullRequest: on a refusal for a branch that is out of date an update is
\* asked for, whose error is only printed; the suite tries again.
MergePullRequest ==
    /\ account = "github"
    /\ pc = "merge"
    /\ \/ Request("merge", {"hooks"}, {"merge"}, {"merge"})
       \/ /\ repo.behind
          /\ repo' = [repo EXCEPT !.behind = FALSE]
          /\ Goto({"merge"})
          /\ UNCHANGED <<items, faults>>
    /\ settled' = IF pc' = "hooks" THEN "merged" ELSE settled
    /\ UNCHANGED <<account, cleanup, tries, id, adopted>>

\* DeleteBranchAndClosePullRequest only deletes the branch; one that is gone is
\* no error.
DeleteBranchAndClosePullRequest ==
    /\ account = "github"
    /\ Request("closeBranch", {"hooks"}, {"hooks"}, {"failed"})
    /\ settled' = IF pc' = "hooks" THEN "closed" ELSE settled
    /\ UNCHANGED <<account, cleanup, tries, id, adopted>>

\* DeleteRepositoryIfExists: a repository that is not found is fine, but not one
\* that is gone when its deletion is repeated.
DeleteRepositoryIfExists ==
    /\ account = "github"
    /\ Request("delete", {"done"}, IF retry = 0 THEN {"done"} ELSE {"failed"}, {"failed"})
    /\ UNCHANGED rest

-----------------------------------------------------------------------------
(* GitLab.                                                                 *)

\* ForkRepository: any error is tried again until the time is up, also the one
\* for a name that is taken, by a first request that was served.
ForkProject ==
    /\ account = "gitlab"
    /\ Request("fork", {"import"}, {"fork"}, {"fork"})
    /\ UNCHANGED rest

\* Mutant: a failed import is taken for a finished one.
WaitForImportFailed ==
    /\ account = "gitlab"
    /\ Read("import", repo.content \in {"ready", "failed"}, {"branch"}, {"import"}, {"import"})
    /\ UNCHANGED rest

\* The import is waited for; one that failed ends the call.
WaitForImport ==
    /\ account = "gitlab"
    /\ Read("import", repo.content = "ready", {"branch"},
            IF repo.content = "failed" THEN {"failed"} ELSE {"import"}, {"import"})
    /\ UNCHANGED rest

\* CreateBranch; its wait goes on after an error.
GitlabCreateBranch ==
    /\ account = "gitlab"
    /\ \/ Request("branch", {"branchWait"}, {"failed"}, {"failed"})
       \/ Read("branchWait", repo.branch, {"open"}, {"branchWait"}, {"branchWait"})
    /\ UNCHANGED rest

\* GetCommitStatusConclusion asks by the commit each time.
GitlabGetCommitStatusConclusion ==
    /\ account = "gitlab"
    /\ \/ Read("appear", repo.check # "none", {"check"}, {"appear"}, {"appear"})
       \/ Read("check", repo.check = "completed", {"merge", "closeBranch"}, {"check"}, {"check"})
    /\ UNCHANGED rest

\* AcceptMergeRequest; nothing updates a branch that is behind.
AcceptMergeRequest ==
    /\ account = "gitlab"
    /\ Request("merge", {"hooks"}, {"merge"}, {"merge"})
    /\ settled' = IF pc' = "hooks" THEN "merged" ELSE settled
    /\ UNCHANGED <<account, cleanup, tries, id, adopted>>

\* DeleteBranchAndClosePullRequest: an error of the first request keeps the
\* second from being sent; the suite accepts that a branch is not found.
GitlabDeleteBranchAndClosePullRequest ==
    /\ account = "gitlab"
    /\ \/ Request("closeBranch", {"closePr"}, {"hooks"}, {"failed"}) /\ UNCHANGED settled
       \/ /\ Request("closePr", {"hooks"}, {"failed"}, {"failed"})
          /\ settled' = IF pc' = "hooks" THEN "closed" ELSE settled
    /\ UNCHANGED <<account, cleanup, tries, id, adopted>>

\* DeleteRepositoryOnlyIfExists marks the project for deletion.
DeleteRepositoryOnlyIfExists ==
    /\ account = "gitlab"
    /\ Request("delete", {"done"}, IF retry = 0 THEN {"done"} ELSE {"failed"}, {"failed"})
    /\ UNCHANGED rest

\* DeleteRepositoryIfExists marks it and waits until it is gone ...
GitlabDeleteRepositoryIfExists ==
    /\ account = "gitlab"
    /\ \/ Request("delete", {"deleteWait"}, IF There THEN {"failed"} ELSE {"done"}, {"failed"})
       \/ Read("deleteWait", ~There, {"done"}, {"deleteWait"}, {"failed"})
    /\ UNCHANGED rest

\* ... or has its new name: DeleteRepositoryReally then deletes it for good.
DeleteRepositoryReally ==
    /\ account = "gitlab"
    /\ pc = "deleteWait"
    /\ There
    /\ repo.content = "renamed"
    /\ \/ /\ repo' = [repo EXCEPT !.content = "none"]
          /\ items' = [items EXCEPT ![Fork] = Nil]
          /\ Goto({"done"})
          /\ UNCHANGED faults
       \/ /\ Fault
          /\ Goto({"failed"})
          /\ UNCHANGED <<items, repo>>
    /\ UNCHANGED rest

-----------------------------------------------------------------------------
(* Forgejo.                                                                *)

\* ForkRepository migrates; the answer comes when the content is there.  An
\* error is tried again, and a repository that is there then is taken for the
\* one that was asked for.
MigrateRepo ==
    /\ account = "forgejo"
    /\ pc = "fork"
    /\ \/ /\ Accepts("fork")
          /\ items' = [items EXCEPT ![Fork] = [kind |-> "repo", old |-> FALSE]]
          /\ repo' = [repo EXCEPT !.content = "ready"]
          /\ Goto({"branch"})
          /\ UNCHANGED <<faults, adopted>>
       \/ /\ There
          /\ Goto({"branch"})
          /\ adopted' = TRUE
          /\ UNCHANGED <<items, repo, faults>>
       \/ Lost("fork", {"fork"}) /\ UNCHANGED adopted
       \/ Fault /\ Goto({"failed"}) /\ UNCHANGED <<items, repo, adopted>>
    /\ UNCHANGED <<account, cleanup, tries, id, settled>>

\* CreateBranch.
ForgejoCreateBranch ==
    /\ account = "forgejo"
    /\ \/ Request("branch", {"branchWait"}, {"failed"}, {"failed"})
       \/ Read("branchWait", repo.branch, {"open"}, {"branchWait"}, {"branchWait"})
    /\ UNCHANGED rest

\* GetCommitStatusConclusion.
ForgejoGetCommitStatusConclusion ==
    /\ account = "forgejo"
    /\ \/ Read("appear", repo.check # "none", {"check"}, {"appear"}, {"appear"})
       \/ Read("check", repo.check = "completed", {"merge", "closeBranch"}, {"check"}, {"check"})
    /\ UNCHANGED rest

\* MergePullRequest.
ForgejoMergePullRequest ==
    /\ account = "forgejo"
    /\ Request("merge", {"hooks"}, {"merge"}, {"merge"})
    /\ settled' = IF pc' = "hooks" THEN "merged" ELSE settled
    /\ UNCHANGED <<account, cleanup, tries, id, adopted>>

\* Mutant: deleting the branch is taken for closing, as at GitHub.
ForgejoDeleteBranchOnly ==
    /\ account = "forgejo"
    /\ Request("closeBranch", {"hooks"}, {"hooks"}, {"failed"})
    /\ settled' = IF pc' = "hooks" THEN "closed" ELSE settled
    /\ UNCHANGED <<account, cleanup, tries, id, adopted>>

\* DeleteBranchAndClosePullRequest deletes the branch of an open pull request,
\* and closes it.
ForgejoDeleteBranchAndClosePullRequest ==
    /\ account = "forgejo"
    /\ \/ Request("closeBranch", {"closePr"}, {"hooks"}, {"failed"}) /\ UNCHANGED settled
       \/ /\ Request("closePr", {"hooks"}, {"failed"}, {"failed"})
          /\ settled' = IF pc' = "hooks" THEN "closed" ELSE settled
    /\ UNCHANGED <<account, cleanup, tries, id, adopted>>

\* DeleteRepositoryIfExists.
ForgejoDeleteRepositoryIfExists ==
    /\ account = "forgejo"
    /\ Request("delete", {"done"}, {"done"}, {"failed"})
    /\ UNCHANGED rest

-----------------------------------------------------------------------------
(* What all clients share.                                                 *)

\* CreatePullRequest.
CreatePullRequest ==
    /\ Request("open", {"list"}, {"failed"}, {"failed"})
    /\ UNCHANGED rest

\* ListPullRequestsWithRetry: three calls at most.
ListPullRequestsWithRetry ==
    /\ Read("list", TRUE, {"appear"}, {}, IF tries < 3 THEN {"list"} ELSE {"failed"})
    /\ tries' = IF pc' = "list" /\ retry' = 0 THEN tries + 1 ELSE tries
    /\ UNCHANGED <<account, cleanup, id, adopted, settled>>

\* CleanupWebhooks deletes the first webhook of its cluster, from a list; one
\* that a cleanup deleted after the list was made is an error.
CleanupWebhooks ==
    /\ pc = "hooks"
    /\ \/ /\ \/ UNCHANGED items
             \/ \E i \in Items \ {Fork} :
                  items[i] # Nil /\ items[i].kind = "hook" /\ items' = [items EXCEPT ![i] = Nil]
          /\ Goto({"delete"})
          /\ UNCHANGED faults
       \/ Fault /\ RoundTrip({"failed"}) /\ UNCHANGED items
    /\ UNCHANGED repo
    /\ UNCHANGED rest

SuiteStep ==
    \/ CreateFork \/ ListCommits \/ CreateRef \/ GetCheckRunConclusion \/ MergePullRequest
    \/ DeleteBranchAndClosePullRequest \/ DeleteRepositoryIfExists
    \/ ForkProject \/ WaitForImport \/ GitlabCreateBranch \/ GitlabGetCommitStatusConclusion
    \/ AcceptMergeRequest \/ GitlabDeleteBranchAndClosePullRequest
    \/ DeleteRepositoryOnlyIfExists \/ GitlabDeleteRepositoryIfExists \/ DeleteRepositoryReally
    \/ MigrateRepo \/ ForgejoCreateBranch \/ ForgejoGetCommitStatusConclusion
    \/ ForgejoMergePullRequest \/ ForgejoDeleteBranchAndClosePullRequest
    \/ ForgejoDeleteRepositoryIfExists
    \/ CreatePullRequest \/ ListPullRequestsWithRetry \/ CleanupWebhooks

CleanupRuns == CleanupStep /\ UNCHANGED <<suite, repo>>

Next == SuiteStep \/ TimesOut \/ ServiceStep \/ Age \/ CleanupRuns

\* The suite goes on until its waits give up, time passes, and every cleanup is
\* a job that is started again and again and runs to its end.
Spec ==
    /\ Init
    /\ [][Next]_vars
    /\ WF_vars(TimesOut)
    /\ WF_vars(SuiteStep)
    /\ WF_vars(Age)
    /\ WF_vars(Delete /\ UNCHANGED <<suite, repo>>)
    /\ \A a \in {"github", "gitlab", "forgejo", "quay"} : \A kinds \in Cleanup[a] :
         SF_vars(a = account /\ StartCleanup(kinds) /\ UNCHANGED <<suite, repo>>)

-----------------------------------------------------------------------------

\* A repository with its branch, its pull request and the check run.
Repository == [content : {"none", "importing", "ready", "failed", "deleting", "renamed"},
               branch : BOOLEAN, pr : {"none", "open", "merged", "closed"}, behind : BOOLEAN,
               check : {"none", "running", "completed"}]

\* The suite, its repository and the cleanups keep their types.
TypeOK ==
    /\ account \in Providers \cup {"quay"}
    /\ items \in [Items -> Item \cup {Nil}]
    /\ job \in Remaining \cup {Nil}
    /\ listing \subseteq listed
    /\ listed \subseteq Items
    /\ errors \in BOOLEAN
    /\ result \in {"none", "ok", "error"}
    /\ faults \in 0..MaxFaults
    /\ pc \in Working \cup Ended \cup {"fork", "import", "delete", "deleteWait"}
    /\ retry \in 0..MaxRetries
    /\ tries \in 1..3
    /\ id \in BOOLEAN
    /\ adopted \in BOOLEAN
    /\ settled \in {"none", "merged", "closed"}
    /\ repo \in Repository

\* Once ForkRepository returned nil, the fork is there with its content until
\* the suite itself deletes it, whatever cleanups run beside it and however
\* often the request had to be repeated.  The exception is a repository that
\* Forgejo's client found and took for its own: it may still be incomplete.
ForksAreReady ==
    pc \in Working => There /\ (repo.content = "ready" \/ adopted)

\* A pull request that a call reported as merged or closed is, and its check run
\* had completed; a suite that got to its end has no fork left or, at GitLab, one
\* that is being deleted: also after lost answers and repeated requests.
SettledIsReal ==
    /\ settled # "none" => repo.pr = settled /\ repo.check = "completed"
    /\ pc = "done" => ~There \/ (account = "gitlab" /\ repo.content \in {"deleting", "renamed"})

\* The fork of a suite that failed is deleted by the cleanup of the account, at
\* GitHub and Forgejo: GitLab's cleanup finds none.
LeakedForksGone == pc = "failed" /\ account # "gitlab" ~> ~There
=============================================================================

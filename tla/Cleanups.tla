------------------------------ MODULE Cleanups ------------------------------
(***************************************************************************)
(* The periodic cleanups of magefiles/magefile.go and magefiles/utils.go:  *)
(* repositories and webhooks of GitHub, GitLab and Forgejo, repositories   *)
(* and robot accounts of Quay.  Each lists an account, picks what is older *)
(* than its limit and named like something the tests made, and deletes it  *)
(* piece by piece while tests go on; they differ in what an error does.    *)
(* DRY_RUN is "false", as in the Makefile.                                 *)
(***************************************************************************)
EXTENDS Naturals, Sequences

CONSTANTS
    Items,     \* things in the account: repositories, webhooks, robots
    MaxFaults, \* bound on requests that go wrong
    Nil

Kinds == {"repo", "hook", "robot", "private"}
Item == [kind : Kinds, old : BOOLEAN]

\* What a cleanup of the kinds below has still to look at.
Remaining == {<<"repo">>, <<"hook">>, <<"repo", "robot">>, <<"robot">>, <<"private">>}

ASSUME FaultsAssumption == MaxFaults \in Nat
ASSUME NilAssumption == Nil \notin Item /\ Nil \notin Remaining

VARIABLES
    account,   \* the service
    items,     \* kind and age of each thing, or Nil
    job,       \* kinds the running cleanup has still to look at, or Nil
    listing,   \* things of the current kind it has still to delete
    listed,    \* history: all it found to delete
    errors,    \* an error was collected
    result,    \* of the last cleanup
    faults

cleanup == <<job, listing, listed, errors, result>>

\* The cleanups of an account, by the kinds of things they delete.
Cleanup ==
    [github  |-> {<<"repo">>, <<"hook">>},
     gitlab  |-> {<<"repo">>, <<"hook">>},
     forgejo |-> {<<"repo">>},
     quay    |-> {<<"repo", "robot">>, <<"private">>}]

\* What an error of a deletion does: a warning, the end, or an entry in a list.
Policy(kind) == CASE kind = "private" -> "collect"
                  [] kind = "repo" /\ account # "quay" -> "warn"
                  [] OTHER -> "stop"

\* Bound on what goes wrong.
Fault == faults < MaxFaults /\ faults' = faults + 1

\* The things of a kind that are past the limit (24 hours, or 7 days for
\* private repositories) and have the name of a test's.
TooOld(kind) == {i \in Items : items[i] # Nil /\ items[i].kind = kind /\ items[i].old}

\* No cleanup has run yet.
CleanupInit ==
    /\ job = Nil
    /\ listing = {}
    /\ listed = {}
    /\ errors = FALSE
    /\ result = "none"
    /\ faults = 0

\* A cleanup starts with the list of its first kind.
StartCleanup(kinds) ==
    /\ job = Nil
    /\ kinds \in Cleanup[account]
    /\ job' = kinds
    /\ listing' = TooOld(Head(kinds))
    /\ listed' = listing'
    /\ errors' = FALSE
    /\ result' = "none"
    /\ UNCHANGED <<account, items, faults>>

\* A listing fails.
ListFails ==
    /\ job # Nil => listing = {} /\ Len(job) > 1
    /\ Fault
    /\ job' = Nil
    /\ result' = "error"
    /\ UNCHANGED <<account, items, listing, listed, errors>>

\* Mutant: repositories are asked for by their bare names everywhere.
FindsItemByName(i) == items[i].kind # "repo"

\* A GitLab project is asked for by its bare name, which is not found: nothing
\* is deleted, and no error is seen.
FindsItem(i) == ~(account = "gitlab" /\ items[i].kind = "repo")

\* A deletion.
DeleteItem(i) ==
    /\ i \in listing
    /\ items[i] # Nil
    /\ listing' = listing \ {i}
    /\ items' = IF FindsItem(i) THEN [items EXCEPT ![i] = Nil] ELSE items
    /\ UNCHANGED <<account, job, listed, errors, result, faults>>

\* The thing is gone already: of no matter for a repository or a robot, the end
\* for a webhook.
DeleteGoneItem(i) ==
    /\ i \in listing
    /\ items[i] = Nil
    /\ IF Head(job) = "hook"
       THEN job' = Nil /\ listing' = {} /\ result' = "error"
       ELSE listing' = listing \ {i} /\ UNCHANGED <<job, result>>
    /\ UNCHANGED <<account, items, listed, errors, faults>>

\* Mutant: a failed deletion is skipped silently.
DeleteItemFailsSilently(i) ==
    /\ i \in listing
    /\ Fault
    /\ listing' = listing \ {i}
    /\ UNCHANGED <<account, items, job, listed, errors, result>>

\* A deletion fails, before or after it was done.
DeleteItemFails(i) ==
    /\ i \in listing
    /\ Fault
    /\ items' \in {items, [items EXCEPT ![i] = Nil]}
    /\ IF Policy(Head(job)) = "stop"
       THEN /\ job' = Nil
            /\ listing' = {}
            /\ result' = "error"
            /\ UNCHANGED errors
       ELSE /\ listing' = listing \ {i}
            /\ errors' = (errors \/ Policy(Head(job)) = "collect")
            /\ UNCHANGED <<job, result>>
    /\ UNCHANGED <<account, listed>>

\* The next kind is listed.
NextKind ==
    /\ job # Nil
    /\ listing = {}
    /\ Len(job) > 1
    /\ job' = Tail(job)
    /\ listing' = TooOld(Head(job'))
    /\ listed' = listed \cup listing'
    /\ UNCHANGED <<account, items, errors, result, faults>>

\* The cleanup returns.
EndCleanup ==
    /\ job # Nil
    /\ listing = {}
    /\ Len(job) = 1
    /\ job' = Nil
    /\ result' = IF errors THEN "error" ELSE "ok"
    /\ UNCHANGED <<account, items, listing, listed, errors, faults>>

Delete ==
    \/ ListFails \/ NextKind \/ EndCleanup
    \/ \E i \in Items : DeleteItem(i) \/ DeleteGoneItem(i) \/ DeleteItemFails(i)

Start == \E kinds \in Cleanup[account] : StartCleanup(kinds)

CleanupStep == Start \/ Delete

\* A cleanup that returns nil has deleted all it found, unless its errors are
\* only warnings: none is lost between the list, the deletions and the result,
\* and what somebody else deleted first does not matter.
NilMeansDeleted ==
    result = "ok" => \A i \in listed : items[i] = Nil \/ Policy(items[i].kind) = "warn"
=============================================================================

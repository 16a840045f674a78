------------------------------ MODULE QuayTags ------------------------------
(***************************************************************************)
(* cleanupQuayTags of magefiles/utils.go: list the tags of a repository    *)
(* page by page, then let Workers goroutines, each with its own stride,    *)
(* delete the tags older than 7 days.  CI jobs keep pushing tags to the    *)
(* repository while the cleanup runs, and other cleanups may delete some.  *)
(***************************************************************************)
EXTENDS Naturals, FiniteSets, Sequences, SequencesExt

CONSTANTS
    Tags,         \* names of tags
    InitialRepo,  \* the tags of the repository, in the order Quay lists them
    InitialOld,   \* the tags older than 7 days
    Workers,      \* number of goroutines (workerCount)
    PageSize,     \* tags on a page
    MaxErrors,    \* bound on the pages that fail
    MaxPushes,    \* bound on the tags others push meanwhile
    MaxRemovals   \* bound on the tags others delete meanwhile

ASSUME TagsAssumption == InitialRepo \in Seq(Tags) /\ InitialOld \subseteq Tags

\* A repository has at most one tag of a name.
ASSUME NamesAssumption == \A i, j \in DOMAIN InitialRepo : InitialRepo[i] = InitialRepo[j] => i = j

ASSUME WorkersAssumption == Workers \in Nat \ {0}
ASSUME PageAssumption == PageSize \in Nat \ {0}
ASSUME BoundsAssumption == MaxErrors \in Nat /\ MaxPushes \in Nat /\ MaxRemovals \in Nat

VARIABLES
    repo, old,         \* the repository: its tags, and which of them are old
    pc, page, allTags, \* the listing goroutine
    errors,            \* length of the errors slice of cleanupQuayTags
    idx,               \* loop variable of each worker
    workerErrors,      \* length of the errors slice of each worker: a copy
    result,
    handled,           \* history: the indexes of allTags that were handled
    repushed,          \* history: the tags pushed since they were listed, and not
                       \* deleted since that push
    pushes, removals   \* how often others touched the repository

vars == <<repo, old, pc, page, allTags, errors, idx, workerErrors, result,
          handled, repushed, pushes, removals>>

W == 1..Workers

Init ==
    /\ repo = InitialRepo
    /\ old = InitialOld
    /\ pc = "list"
    /\ page = 1
    /\ allTags = <<>>
    /\ errors = 0
    /\ idx = [w \in W |-> w]
    /\ workerErrors = [w \in W |-> 0]
    /\ result = "none"
    /\ handled = {}
    /\ repushed = {}
    /\ pushes = 0
    /\ removals = 0

\* Quay's answer for page p: up to PageSize tags with their ages.
TagsOnPage(p) ==
    LET tags == SubSeq(repo, (p - 1) * PageSize + 1,
                       IF p * PageSize <= Len(repo) THEN p * PageSize ELSE Len(repo))
    IN [i \in 1..Len(tags) |-> [name |-> tags[i], isOld |-> tags[i] \in old]]

\* The repository after the deletion of a tag, if it has the tag.
Without(t) ==
    IF t \in ToSet(repo) THEN RemoveAt(repo, CHOOSE i \in DOMAIN repo : repo[i] = t) ELSE repo

HasAdditional(p) == Len(repo) > p * PageSize

ListPage ==
    /\ pc = "list"
    /\ page' = page + 1
    /\ allTags' = allTags \o TagsOnPage(page)
    /\ pc' = IF HasAdditional(page) THEN "list" ELSE "work"
    /\ UNCHANGED <<repo, old, errors, idx, workerErrors, result, handled, repushed,
                   pushes, removals>>

\* Mutant: the error is not recorded.
ListPageErrorIgnored ==
    /\ pc = "list"
    /\ errors < MaxErrors
    /\ page' = page + 1
    /\ UNCHANGED <<repo, old, pc, allTags, errors, idx, workerErrors, result,
                   handled, repushed, pushes, removals>>

\* The page is given up: page was advanced before the error is looked at.
ListPageError ==
    /\ pc = "list"
    /\ errors < MaxErrors
    /\ page' = page + 1
    /\ errors' = errors + 1
    /\ UNCHANGED <<repo, old, pc, allTags, idx, workerErrors, result, handled,
                   repushed, pushes, removals>>

\* Mutant: the stride is 1.
HandleTagNextIndex(w) ==
    /\ pc = "work"
    /\ idx[w] <= Len(allTags)
    /\ \/ /\ ~allTags[idx[w]].isOld
          /\ UNCHANGED <<repo, old, repushed, workerErrors>>
       \/ /\ allTags[idx[w]].isOld
          /\ repo' = Without(allTags[idx[w]].name)
          /\ old' = old \ {allTags[idx[w]].name}
          /\ repushed' = repushed \ {allTags[idx[w]].name}
          /\ UNCHANGED workerErrors
       \/ /\ allTags[idx[w]].isOld
          /\ workerErrors' = [workerErrors EXCEPT ![w] = @ + 1]
          /\ UNCHANGED <<repo, old, repushed>>
    /\ handled' = handled \cup {idx[w]}
    /\ idx' = [idx EXCEPT ![w] = @ + 1]
    /\ UNCHANGED <<pc, page, allTags, errors, result, pushes, removals>>

\* Mutant: the list is taken to be sorted, so that behind an old tag all are old.
HandleTagSorted(w) ==
    /\ pc = "work"
    /\ idx[w] <= Len(allTags)
    /\ IF \E i \in 1..idx[w] : allTags[i].isOld
       THEN /\ repo' = Without(allTags[idx[w]].name)
            /\ old' = old \ {allTags[idx[w]].name}
            /\ repushed' = repushed \ {allTags[idx[w]].name}
       ELSE UNCHANGED <<repo, old, repushed>>
    /\ handled' = handled \cup {idx[w]}
    /\ idx' = [idx EXCEPT ![w] = @ + Workers]
    /\ UNCHANGED <<pc, page, allTags, errors, workerErrors, result, pushes, removals>>

\* Mutant: young tags are never passed.
HandleTagStuck(w) ==
    /\ pc = "work"
    /\ idx[w] <= Len(allTags)
    /\ allTags[idx[w]].isOld
    /\ repo' = Without(allTags[idx[w]].name)
    /\ old' = old \ {allTags[idx[w]].name}
    /\ repushed' = repushed \ {allTags[idx[w]].name}
    /\ handled' = handled \cup {idx[w]}
    /\ idx' = [idx EXCEPT ![w] = @ + Workers]
    /\ UNCHANGED <<pc, page, allTags, errors, workerErrors, result, pushes, removals>>

\* One iteration of a worker; DeleteTag of a tag that is gone is no error.
\* append(errors, ...) changes the worker's own slice.
HandleTag(w) ==
    /\ pc = "work"
    /\ idx[w] <= Len(allTags)
    /\ \/ /\ ~allTags[idx[w]].isOld
          /\ UNCHANGED <<repo, old, repushed, workerErrors>>
       \/ /\ allTags[idx[w]].isOld
          /\ repo' = Without(allTags[idx[w]].name)
          /\ old' = old \ {allTags[idx[w]].name}
          /\ repushed' = repushed \ {allTags[idx[w]].name}
          /\ UNCHANGED workerErrors
       \/ /\ allTags[idx[w]].isOld
          /\ workerErrors' = [workerErrors EXCEPT ![w] = @ + 1]
          /\ UNCHANGED <<repo, old, repushed>>
    /\ handled' = handled \cup {idx[w]}
    /\ idx' = [idx EXCEPT ![w] = @ + Workers]
    /\ UNCHANGED <<pc, page, allTags, errors, result, pushes, removals>>

\* wg.Wait(), and the answer of cleanupQuayTags.
Finish ==
    /\ pc = "work"
    /\ \A w \in W : idx[w] > Len(allTags)
    /\ result' = IF errors = 0 THEN "nil" ELSE "error"
    /\ pc' = "done"
    /\ UNCHANGED <<repo, old, page, allTags, errors, idx, workerErrors, handled,
                   repushed, pushes, removals>>

\* Somebody pushes an image: the tag, new or moved, is the first in the list.
PushTag(t) ==
    /\ pc # "done"
    /\ pushes < MaxPushes
    /\ pushes' = pushes + 1
    /\ repo' = <<t>> \o Without(t)
    /\ old' = old \ {t}
    /\ repushed' = IF \E i \in DOMAIN allTags : allTags[i].name = t
                   THEN repushed \cup {t} ELSE repushed
    /\ UNCHANGED <<pc, page, allTags, errors, idx, workerErrors, result, handled, removals>>

\* Somebody else deletes a tag.
RemoveTag(t) ==
    /\ pc # "done"
    /\ removals < MaxRemovals
    /\ t \in ToSet(repo)
    /\ removals' = removals + 1
    /\ repo' = Without(t)
    /\ old' = old \ {t}
    /\ repushed' = repushed \ {t}
    /\ UNCHANGED <<pc, page, allTags, errors, idx, workerErrors, result, handled, pushes>>

Cleanup ==
    \/ ListPage
    \/ ListPageError
    \/ \E w \in W : HandleTag(w)
    \/ Finish

Next ==
    \/ Cleanup
    \/ \E t \in Tags : PushTag(t) \/ RemoveTag(t)

\* Each goroutine and the listing keep running.
Fairness ==
    /\ WF_vars(ListPage)
    /\ \A w \in W : WF_vars(HandleTag(w))
    /\ WF_vars(Finish)

Spec == Init /\ [][Next]_vars /\ Fairness

-----------------------------------------------------------------------------
(* Properties.                                                             *)

\* The variables keep their types.
TypeOK ==
    /\ repo \in Seq(Tags) /\ old \in SUBSET Tags
    /\ pc \in {"list", "work", "done"}
    /\ page \in Nat \ {0} /\ errors \in Nat
    /\ allTags \in Seq([name : Tags, isOld : BOOLEAN])
    /\ idx \in [W -> Nat \ {0}] /\ workerErrors \in [W -> Nat]
    /\ result \in {"none", "nil", "error"}
    /\ handled \in SUBSET (1..Len(allTags)) /\ repushed \in SUBSET Tags
    /\ pushes \in 0..MaxPushes /\ removals \in 0..MaxRemovals

\* The workers share the list without overlap or gap: no two of them handle the
\* same entry, and cleanupQuayTags returns only after every entry was handled.
TagsHandledOnce ==
    /\ \A w \in W : idx[w] \notin handled
    /\ pc = "done" => handled = 1..Len(allTags)

\* When cleanupQuayTags returns nil, no DeleteTag call failed and nobody else
\* deletes tags, every tag that was old is gone or was pushed again, although
\* pushes shift the tags over the pages while they are listed.
OldTagsGone ==
    (result = "nil" /\ removals = 0 /\ workerErrors = [w \in W |-> 0])
        => old \cap ToSet(repo) = {}

\* The workers go by ages that were read earlier, and pushes meanwhile make tags
\* young again and list some of them twice.  A DeleteTag hits a tag that is young
\* only if that very tag was pushed after it was listed, and each push costs its
\* image at most once: a tag that nobody pushed again is deleted only if it is old.
YoungTagsKept ==
    [][removals' = removals
         => ToSet(repo) \ ToSet(repo') \subseteq old \cup repushed]_vars

\* The cleanup returns if finitely many pages fail.
Termination == <>(pc = "done")
=============================================================================

----------------------- MODULE GitRepositoriesProofs -----------------------
(***************************************************************************)
(* Proofs about GitRepositories and Cleanups, for any number of things in  *)
(* the account, of faults and of retries.  The suite and the cleanups      *)
(* share the items of the account and nothing else: a cleanup finds the    *)
(* fork only when it is old, and it gets old only after the suite          *)
(* (ForkInv); what the suite does to an item is no harm to what a cleanup  *)
(* reports (CleanupInv, ItemsKept).                                        *)
(***************************************************************************)
EXTENDS GitRepositories, TLAPS

\* An item of a cleanup's list is gone, or its deletion may fail silently.
Handled(i) == items[i] = Nil \/ Policy(items[i].kind) = "warn"

\* A running cleanup has something to report or has handled what it passed.
CleanupInv ==
    /\ job = Nil => listing = {}
    /\ job # Nil => /\ result = "none"
                    /\ \A i \in listing : Handled(i) \/ items[i].kind = Head(job)
                    /\ errors \/ \A i \in listed \ listing : Handled(i)
    /\ NilMeansDeleted

\* The fork while the suite runs: no cleanup has found it, and it is there with
\* its content from the fork to the deletion.
ForkInv ==
    /\ account = "quay" => pc = "done"
    /\ pc \notin Ended => Fork \notin listing /\ (There => ~items[Fork].old)
    /\ pc = "import" => There
    /\ pc \in Working \cup {"fork", "import"} => repo.content \notin {"deleting", "renamed"}
    /\ repo.content \in {"deleting", "renamed"} => account = "gitlab"
    /\ ForksAreReady

\* What the calls on the pull request rely on.
PrInv ==
    /\ pc \in {"list", "appear", "check"} => repo.branch /\ repo.pr = "open"
    /\ pc \in {"merge", "closeBranch", "closePr", "hooks"} => repo.check = "completed"
    /\ pc = "closeBranch" => \/ repo.branch /\ repo.pr = "open"
                             \/ ~repo.branch /\ (account = "github" => repo.pr = "closed")
    /\ settled # "none" => pc \in Ended \cup {"hooks", "delete", "deleteWait"}
    /\ SettledIsReal

\* The inductive invariant.
IInv ==
    /\ TypeOK
    /\ CleanupInv
    /\ ForkInv
    /\ PrInv

-----------------------------------------------------------------------------
(* What the operators of the model do.                                     *)

\* The cleanups begin with a list of kinds.
LEMMA CleanupKinds ==
    ASSUME account \in Providers \cup {"quay"}
    PROVE  /\ \A kinds \in Cleanup[account] : kinds \in Remaining
           /\ KindsOf(account) \subseteq Kinds
<1>1. CASE account = "github" \/ account = "gitlab"
  <2>1. Cleanup[account] = {<<"repo">>, <<"hook">>}
    BY <1>1 DEF Cleanup
  <2> QED BY <2>1 DEF KindsOf, Remaining, Kinds
<1>2. CASE account = "forgejo"
  <2>1. Cleanup[account] = {<<"repo">>}
    BY <1>2 DEF Cleanup
  <2> QED BY <2>1 DEF KindsOf, Remaining, Kinds
<1>3. CASE account = "quay"
  <2>1. Cleanup[account] = {<<"repo", "robot">>, <<"private">>}
    BY <1>3 DEF Cleanup
  <2> QED BY <2>1 DEF KindsOf, Remaining, Kinds
<1> QED BY <1>1, <1>2, <1>3 DEF Providers

\* The initial states satisfy the inductive invariant.
LEMMA InitIInv == Init => IInv
<1> SUFFICES ASSUME Init PROVE IInv
  OBVIOUS
<1> USE DEF Init, CleanupInit
<1>1. repo \in Repository /\ repo.content = "none" /\ repo.pr = "none"
  BY DEF Repository
<1>2. items \in [Items -> Item \cup {Nil}]
  <2>1. KindsOf(account) \subseteq Kinds
    BY CleanupKinds
  <2>2. [kind : KindsOf(account), old : BOOLEAN] \subseteq Item
    BY <2>1 DEF Item
  <2> HIDE DEF Item
  <2> QED BY <2>2
<1>3. pc \in {"done", "fork"} /\ (account = "quay" => pc = "done")
  OBVIOUS
<1>4. TypeOK
  <2>1. /\ account \in Providers \cup {"quay"}
        /\ job = Nil /\ listing = {} /\ listed = {} /\ errors = FALSE /\ result = "none" /\ faults = 0
        /\ retry = 0 /\ tries = 1 /\ id = FALSE /\ adopted = FALSE /\ settled = "none"
    OBVIOUS
  <2> HIDE DEF Init
  <2>2. faults \in 0..MaxFaults /\ retry \in 0..MaxRetries /\ tries \in 1..3
    BY <2>1, FaultsAssumption, RetriesAssumption
  <2>3. errors \in BOOLEAN /\ id \in BOOLEAN /\ adopted \in BOOLEAN
    BY <2>1
  <2>4. pc \in Working \cup Ended \cup {"fork", "import", "delete", "deleteWait"}
    BY <1>3 DEF Ended
  <2> QED BY <1>1, <1>2, <2>1, <2>2, <2>3, <2>4 DEF TypeOK
<1>5. CleanupInv
  BY DEF CleanupInv, NilMeansDeleted
<1>6. ForkInv
  BY <1>1, <1>3 DEF ForkInv, ForksAreReady, Working, Ended, There
<1>7. PrInv
  BY <1>1, <1>3 DEF PrInv, SettledIsReal, There, Ended
<1> QED BY <1>4, <1>5, <1>6, <1>7 DEF IInv

-----------------------------------------------------------------------------
(* The cleanups.                                                           *)

\* What anybody else may do to the items of a running cleanup: delete them, let
\* them get old, or make a repository.
ItemsKept ==
    \A i \in Items : \/ items'[i] = items[i]
                     \/ items'[i] = Nil
                     \/ items[i] # Nil /\ items'[i].kind = items[i].kind
                     \/ items'[i].kind = "repo" /\ account # "quay"

\* It does no harm to what the cleanup reports.
LEMMA ItemsKeptInv ==
    ASSUME TypeOK, CleanupInv, ItemsKept, UNCHANGED <<account, cleanup>>
    PROVE  CleanupInv'
<1>1. \A k : Policy(k)' = Policy(k)
  BY DEF Policy
<1>2. ASSUME NEW i \in Items, Handled(i) PROVE Handled(i)'
  <2>1. items'[i].kind = "repo" /\ account # "quay" => Policy(items'[i].kind) = "warn"
    BY DEF Policy
  <2> QED BY <1>1, <1>2, <2>1 DEF Handled, ItemsKept
<1>3. ASSUME NEW i \in Items, items[i].kind = Head(job)
      PROVE  Handled(i)' \/ items'[i].kind = Head(job)
  <2>1. items'[i].kind = "repo" /\ account # "quay" => Policy(items'[i].kind) = "warn"
    BY DEF Policy
  <2> QED BY <1>1, <1>3, <2>1 DEF Handled, ItemsKept
<1>4. UNCHANGED <<job, listing, listed, errors, result>>
  BY DEF cleanup
<1>5. NilMeansDeleted'
  BY <1>2, <1>4 DEF CleanupInv, NilMeansDeleted, Handled, TypeOK
<1>6. job # Nil => \A i \in listing : (Handled(i) \/ items[i].kind = Head(job))'
  BY <1>2, <1>3, <1>4 DEF CleanupInv, TypeOK
<1>7. job # Nil => errors \/ \A i \in listed \ listing : Handled(i)'
  BY <1>2, <1>4 DEF CleanupInv, TypeOK
<1> QED BY <1>4, <1>5, <1>6, <1>7 DEF CleanupInv

\* The lists of kinds a cleanup goes through.
LEMMA RemainingKinds ==
    ASSUME NEW j \in Remaining
    PROVE  /\ Head(j) \in Kinds
           /\ Len(j) \in {1, 2}
           /\ Len(j) > 1 => Tail(j) \in Remaining
<1>1. CASE j \in {<<"repo">>, <<"hook">>, <<"robot">>, <<"private">>}
  <2>1. Len(j) = 1 /\ Head(j) \in Kinds
    BY <1>1 DEF Kinds
  <2> QED BY <2>1
<1>2. CASE j = <<"repo", "robot">>
  <2>1. Len(j) = 2 /\ Head(j) = "repo" /\ Tail(j) = <<"robot">>
    BY <1>2
  <2> QED BY <2>1 DEF Kinds, Remaining
<1> QED BY <1>1, <1>2 DEF Remaining

\* The steps of a cleanup keep its types.
LEMMA CleanupTypes ==
    ASSUME TypeOK, CleanupStep, UNCHANGED <<suite, repo>>
    PROVE  TypeOK'
<1> USE DEF suite
<1>1. CASE Start
  <2>1. PICK kinds \in Cleanup[account] : StartCleanup(kinds)
    BY <1>1 DEF Start
  <2>2. kinds \in Remaining
    BY CleanupKinds DEF TypeOK
  <2> QED BY <2>1, <2>2 DEF StartCleanup, TypeOK, TooOld
<1>2. CASE ListFails
  BY <1>2, FaultsAssumption DEF ListFails, Fault, TypeOK
<1>3. CASE NextKind
  <2>1. job' \in Remaining
    BY <1>3, RemainingKinds DEF NextKind, TypeOK
  <2> QED BY <1>3, <2>1 DEF NextKind, TypeOK, TooOld
<1>4. CASE EndCleanup
  BY <1>4 DEF EndCleanup, TypeOK
<1>5. ASSUME NEW i \in Items, DeleteItem(i) \/ DeleteGoneItem(i)
      PROVE  TypeOK'
  BY <1>5 DEF DeleteItem, DeleteGoneItem, TypeOK
<1>6. ASSUME NEW i \in Items, DeleteItemFails(i)
      PROVE  TypeOK'
  <2>1. errors' \in BOOLEAN
    BY <1>6 DEF DeleteItemFails, TypeOK
  <2>2. /\ job' \in {job, Nil}
        /\ listing' \subseteq listing
        /\ result' \in {result, "error"}
        /\ items' \in {items, [items EXCEPT ![i] = Nil]}
        /\ faults' = faults + 1 /\ faults < MaxFaults
        /\ UNCHANGED <<account, listed>>
    BY <1>6 DEF DeleteItemFails, Fault
  <2> QED BY <2>1, <2>2, FaultsAssumption DEF TypeOK
<1> QED BY <1>1, <1>2, <1>3, <1>4, <1>5, <1>6 DEF CleanupStep, Delete

\* A deletion that fails stops the cleanup, is collected, or is only a warning.
LEMMA DeleteFailsInv ==
    ASSUME TypeOK, CleanupInv, NEW i \in Items, DeleteItemFails(i)
    PROVE  CleanupInv'
<1> USE DEF DeleteItemFails
<1>1. job # Nil /\ i \in listing
  BY DEF CleanupInv
<1>2. \A k : Policy(k)' = Policy(k)
  BY DEF Policy
<1>3. \A k \in Items : items'[k] = items[k] \/ items'[k] = Nil
  BY DEF TypeOK
<1>4. \A k \in Items : Handled(k) => Handled(k)'
  BY <1>2, <1>3 DEF Handled
<1>5. CASE Policy(Head(job)) = "stop"
  <2>1. job' = Nil /\ listing' = {} /\ result' = "error"
    BY <1>5
  <2> QED BY <2>1 DEF CleanupInv, NilMeansDeleted
<1>6. CASE Policy(Head(job)) # "stop"
  <2>1. /\ listing' = listing \ {i}
        /\ errors' = (errors \/ Policy(Head(job)) = "collect")
        /\ UNCHANGED <<job, result, listed>>
    BY <1>6
  <2>2. Policy(Head(job)) \in {"collect", "warn", "stop"}
    BY DEF Policy
  <2>3. ASSUME ~errors' PROVE Handled(i)'
    <3>1. Policy(Head(job)) = "warn"
      BY <1>6, <2>1, <2>2, <2>3
    <3>2. Handled(i)
      BY <1>1, <3>1 DEF CleanupInv, Handled
    <3> QED BY <1>4, <3>2
  <2>4. NilMeansDeleted'
    BY <1>1, <2>1 DEF CleanupInv, NilMeansDeleted
  <2>5. \A k \in listing' : (Handled(k) \/ items[k].kind = Head(job))'
    <3> SUFFICES ASSUME NEW k \in listing' PROVE (Handled(k) \/ items[k].kind = Head(job))'
      OBVIOUS
    <3>1. k \in listing /\ k \in Items
      BY <2>1 DEF TypeOK
    <3>2. Handled(k) \/ items[k].kind = Head(job)
      BY <1>1, <3>1 DEF CleanupInv
    <3> QED BY <1>3, <1>4, <2>1, <3>1, <3>2 DEF Handled
  <2>6. errors' \/ \A k \in listed' \ listing' : Handled(k)'
    <3> SUFFICES ASSUME ~errors', NEW k \in listed \ (listing \ {i}) PROVE Handled(k)'
      BY <2>1
    <3>1. CASE k = i
      BY <2>3, <3>1
    <3>2. CASE k # i
      BY <1>1, <1>4, <2>1, <3>2 DEF CleanupInv, TypeOK
    <3> QED BY <3>1, <3>2
  <2> QED BY <1>1, <2>1, <2>4, <2>5, <2>6 DEF CleanupInv
<1> QED BY <1>5, <1>6

\* The steps of a cleanup preserve its invariant.
LEMMA CleanupStepInv ==
    ASSUME TypeOK, CleanupInv, CleanupStep
    PROVE  CleanupInv'
<1>1. \A k : Policy(k)' = Policy(k)
  BY DEF Policy, CleanupStep, Start, StartCleanup, Delete, ListFails, NextKind, EndCleanup, DeleteItem,
     DeleteGoneItem, DeleteItemFails
<1>2. ASSUME NEW kinds \in Cleanup[account], StartCleanup(kinds)
      PROVE  CleanupInv'
  <2>1. kinds \in Remaining /\ kinds # Nil
    BY CleanupKinds, NilAssumption DEF TypeOK
  <2>2. /\ job' = kinds /\ result' = "none" /\ UNCHANGED items
        /\ listed' = listing' /\ \A i \in listing' : items[i].kind = Head(kinds)
    BY <1>2 DEF StartCleanup, TooOld
  <2> QED BY <2>1, <2>2 DEF CleanupInv, NilMeansDeleted
<1>3. CASE ListFails
  <2>1. job' = Nil /\ result' = "error" /\ listing' = {}
    BY <1>3 DEF ListFails, CleanupInv
  <2> QED BY <2>1 DEF CleanupInv, NilMeansDeleted
<1>4. CASE NextKind
  <2>1. /\ job # Nil /\ listing = {} /\ job' \in Remaining
        /\ listed' = listed \cup listing'
        /\ \A i \in listing' : items[i].kind = Head(job')
        /\ UNCHANGED <<account, items, errors, result>>
    BY <1>4, RemainingKinds DEF NextKind, TooOld, TypeOK
  <2>2. \A i : Handled(i)' = Handled(i)
    BY <1>1, <2>1 DEF Handled
  <2> QED BY <2>1, <2>2, NilAssumption DEF CleanupInv, NilMeansDeleted
<1>5. CASE EndCleanup
  <2>1. /\ job # Nil /\ listing = {} /\ job' = Nil
        /\ result' = IF errors THEN "error" ELSE "ok"
        /\ UNCHANGED <<account, items, listing, listed, errors>>
    BY <1>5 DEF EndCleanup
  <2>2. \A i : Handled(i)' = Handled(i)
    BY <1>1, <2>1 DEF Handled
  <2>3. errors \/ \A i \in listed : Handled(i)
    BY <2>1 DEF CleanupInv
  <2> QED BY <1>1, <2>1, <2>3 DEF CleanupInv, NilMeansDeleted, Handled
<1>6. ASSUME NEW i \in Items, DeleteItem(i)
      PROVE  CleanupInv'
  <2>1. /\ i \in listing /\ job # Nil /\ listing' = listing \ {i}
        /\ UNCHANGED <<account, job, listed, errors, result>>
    BY <1>6 DEF DeleteItem, CleanupInv
  <2>2. \A k \in Items : items'[k] = items[k] \/ items'[k] = Nil
    BY <1>6 DEF DeleteItem, TypeOK
  <2>3. \A k \in Items : Handled(k) => Handled(k)'
    BY <1>1, <2>2 DEF Handled
  <2>4. Handled(i)'
    <3>1. CASE FindsItem(i)
      BY <1>6, <3>1 DEF DeleteItem, Handled, TypeOK
    <3>2. CASE ~FindsItem(i)
      <4>1. Policy(items[i].kind) = "warn"
        BY <3>2 DEF FindsItem, Policy
      <4> QED BY <2>3, <4>1 DEF Handled
    <3> QED BY <3>1, <3>2
  <2>5. \A k \in listing' : (Handled(k) \/ items[k].kind = Head(job))'
    BY <2>1, <2>2, <2>3 DEF CleanupInv, Handled, TypeOK
  <2>6. errors \/ \A k \in listed \ listing' : Handled(k)'
    BY <2>1, <2>3, <2>4 DEF CleanupInv, TypeOK
  <2> QED BY <2>1, <2>5, <2>6 DEF CleanupInv, NilMeansDeleted
<1>7. ASSUME NEW i \in Items, DeleteGoneItem(i)
      PROVE  CleanupInv'
  <2>1. /\ i \in listing /\ job # Nil /\ Handled(i)
        /\ UNCHANGED <<account, items, listed, errors>>
    BY <1>7 DEF DeleteGoneItem, CleanupInv, Handled
  <2>2. \A k : Handled(k)' = Handled(k)
    BY <1>1, <2>1 DEF Handled
  <2>3. CASE Head(job) = "hook"
    BY <1>7, <2>3 DEF DeleteGoneItem, CleanupInv, NilMeansDeleted
  <2>4. CASE Head(job) # "hook"
    BY <1>7, <2>1, <2>2, <2>4 DEF DeleteGoneItem, CleanupInv, NilMeansDeleted
  <2> QED BY <2>3, <2>4
<1> QED BY <1>2, <1>3, <1>4, <1>5, <1>6, <1>7, DeleteFailsInv DEF CleanupStep, Start, Delete

\* A cleanup does not find the fork before the suite has ended.
LEMMA CleanupLeavesFork ==
    ASSUME IInv, CleanupRuns
    PROVE  ForkInv' /\ PrInv'
<1> USE DEF IInv, CleanupRuns, suite
<1>1. UNCHANGED account
  BY DEF CleanupStep, Start, StartCleanup, Delete, ListFails, NextKind, EndCleanup, DeleteItem,
     DeleteGoneItem, DeleteItemFails
<1>2. items'[Fork] = items[Fork] \/ (items'[Fork] = Nil /\ Fork \in listing)
  BY ForkAssumption DEF CleanupStep, Start, StartCleanup, Delete, ListFails, NextKind, EndCleanup, DeleteItem,
     DeleteGoneItem, DeleteItemFails, TypeOK
<1>3. Fork \in listing' => Fork \in listing \/ (There /\ items[Fork].old)
  BY DEF CleanupStep, Start, StartCleanup, Delete, ListFails, NextKind, EndCleanup, DeleteItem,
     DeleteGoneItem, DeleteItemFails, TooOld, There
<1>4. UNCHANGED <<pc, settled, adopted, repo>>
  OBVIOUS
<1>5. pc \notin Ended => items'[Fork] = items[Fork] /\ Fork \notin listing'
  BY <1>2, <1>3 DEF ForkInv
<1>6. ForkInv'
  <2>1. Working \cap Ended = {} /\ "import" \notin Ended
    BY DEF Working, Ended
  <2> QED BY <1>1, <1>4, <1>5, <2>1 DEF ForkInv, ForksAreReady, There
<1>7. PrInv'
  BY <1>1, <1>2, <1>4 DEF PrInv, SettledIsReal, There
<1> QED BY <1>6, <1>7

-----------------------------------------------------------------------------
(* The requests of the suite.                                              *)

\* A request was served, was refused, or its answer was lost, in which case the
\* caller goes on elsewhere or the transport repeats the request.
LEMMA RequestOutcomes ==
    ASSUME TypeOK, NEW op, NEW ok, NEW refused, NEW lost, Request(op, ok, refused, lost)
    PROVE  /\ pc = op
           /\ retry' \in 0..MaxRetries
           /\ faults' \in 0..MaxFaults
           /\ \/ Accepts(op) /\ Serve(op) /\ pc' \in ok
              \/ Accepts(op) /\ Serve(op) /\ (pc' \in lost \/ pc' = op)
              \/ ~Accepts(op) /\ UNCHANGED <<items, repo>> /\ pc' \in refused
              \/ UNCHANGED <<items, repo>> /\ (pc' \in lost \/ pc' = op)
  BY FaultsAssumption, RetriesAssumption DEF TypeOK, Request, Lost, RoundTrip, Goto, Fault

\* A read finds something, finds it not there yet, or its answer is lost.
LEMMA ReadOutcomes ==
    ASSUME TypeOK, NEW op, NEW true, NEW ok, NEW wait, NEW lost, Read(op, true, ok, wait, lost)
    PROVE  /\ pc = op
           /\ retry' \in 0..MaxRetries
           /\ faults' \in 0..MaxFaults
           /\ UNCHANGED <<items, repo>>
           /\ \/ true /\ pc' \in ok
              \/ ~true /\ pc' \in wait
              \/ pc' \in lost \/ pc' = op
  BY FaultsAssumption, RetriesAssumption DEF TypeOK, Read, RoundTrip, Goto, Fault

\* What the service does for each request.
LEMMA Serves ==
    /\ Accepts("fork") <=> ~There
    /\ Accepts("branch") => There
    /\ Accepts("open") => repo.branch
    /\ Accepts("closeBranch") <=> repo.branch
    /\ Accepts("delete") <=> (There /\ repo.content \notin {"deleting", "renamed"})
    /\ Serve("fork") => /\ repo' = [repo EXCEPT !.content = "importing"]
                        /\ items' = [items EXCEPT ![Fork] = [kind |-> "repo", old |-> FALSE]]
    /\ Serve("branch") => repo' = [repo EXCEPT !.branch = TRUE] /\ UNCHANGED items
    /\ Serve("open") => repo' = [repo EXCEPT !.pr = "open"] /\ UNCHANGED items
    /\ Serve("merge") => repo' = [repo EXCEPT !.pr = "merged"] /\ UNCHANGED items
    /\ Serve("closeBranch") =>
         /\ repo' = [repo EXCEPT !.branch = FALSE,
                                 !.pr = IF account = "github" /\ @ = "open" THEN "closed" ELSE @]
         /\ UNCHANGED items
    /\ Serve("closePr") => repo' = [repo EXCEPT !.pr = "closed"] /\ UNCHANGED items
    /\ Serve("delete") =>
         /\ repo' = [repo EXCEPT !.content = IF account = "gitlab" THEN "deleting" ELSE "none"]
         /\ items' = IF account = "gitlab" THEN items ELSE [items EXCEPT ![Fork] = Nil]
  BY DEF Accepts, Serve, Served

\* Where the suite may go when it has changed nothing.
Move ==
    \/ pc' = pc
    \/ pc' = "failed"
    \/ pc = "import" /\ pc' = "branch" /\ repo.content = "ready"
    \/ pc = "fork" /\ pc' = "import" /\ There
    \/ pc = "branchWait" /\ pc' = "open"
    \/ pc = "list" /\ pc' = "appear"
    \/ pc = "appear" /\ pc' = "check"
    \/ pc = "check" /\ pc' \in {"merge", "closeBranch"} /\ repo.check = "completed"
    \/ pc = "closeBranch" /\ pc' = "hooks"
    \/ pc = "hooks" /\ pc' = "delete"
    \/ pc \in {"delete", "deleteWait"} /\ pc' = "done" /\ (There => repo.content \in {"deleting", "renamed"})

\* It is where its state allows it to be.
LEMMA MoveInv ==
    ASSUME ForkInv, PrInv, Move, pc \notin Ended,
           UNCHANGED <<account, items, listing, repo, adopted, settled>>
    PROVE  ForkInv' /\ PrInv'
<1>1. ForkInv'
  BY DEF ForkInv, ForksAreReady, There, Move, Working, Ended
<1>2. PrInv'
  BY DEF PrInv, ForkInv, SettledIsReal, There, Move, Ended
<1> QED BY <1>1, <1>2

\* Items that did not change are kept, and so are the types.
ItemsOK == items' \in [Items -> Item \cup {Nil}] /\ ItemsKept

\* Nothing is changed by a read.
LEMMA SameItems ==
    ASSUME TypeOK, UNCHANGED items
    PROVE  ItemsOK
  BY DEF ItemsOK, ItemsKept, TypeOK

\* A fork is new: no cleanup has found it, and it is not old.
LEMMA ForkServed ==
    ASSUME IInv, pc = "fork", ~There, NEW c \in {"importing", "ready"},
           repo' = [repo EXCEPT !.content = c],
           items' = [items EXCEPT ![Fork] = [kind |-> "repo", old |-> FALSE]],
           pc' \in {"fork", "import", "failed", "branch"}, pc' = "branch" => c = "ready",
           UNCHANGED <<account, listing, adopted, settled>>
    PROVE  ItemsOK /\ repo' \in Repository /\ ForkInv' /\ PrInv'
<1> USE DEF IInv
<1>1. [kind |-> "repo", old |-> FALSE] \in Item /\ [kind |-> "repo", old |-> FALSE] # Nil
  <2>1. [kind |-> "repo", old |-> FALSE] \in Item
    BY DEF Item, Kinds
  <2> QED BY <2>1, NilAssumption
<1>2. There' /\ items'[Fork] = [kind |-> "repo", old |-> FALSE]
  BY <1>1, ForkAssumption DEF There, TypeOK
<1>3. account # "quay"
  BY DEF ForkInv
<1>4. ItemsOK
  BY <1>1, <1>3 DEF ItemsOK, ItemsKept, TypeOK
<1>5. /\ repo' \in Repository /\ repo'.content = c /\ repo'.branch = repo.branch
      /\ repo'.pr = repo.pr /\ repo'.check = repo.check
  <2>1. repo \in Repository
    BY DEF TypeOK
  <2> QED BY <2>1 DEF Repository
<1>6. ForkInv'
  BY <1>2, <1>5 DEF ForkInv, ForksAreReady, Working, Ended
<1>7. PrInv'
  BY <1>5 DEF PrInv, SettledIsReal, Ended
<1> QED BY <1>4, <1>5, <1>6, <1>7

\* The calls on the branch and the pull request leave the content alone, and
\* what they report is so.
LEMMA PrServed ==
    ASSUME IInv, UNCHANGED <<account, listing, items, adopted>>,
           \/ /\ pc = "branch" /\ pc' \in {"branchWait", "branch", "failed"}
              /\ Serve("branch") /\ UNCHANGED settled
           \/ /\ pc = "open" /\ pc' \in {"list", "open", "failed"}
              /\ Accepts("open") /\ Serve("open") /\ UNCHANGED settled
           \/ /\ pc = "merge" /\ pc' \in {"hooks", "merge"} /\ Serve("merge")
              /\ settled' = IF pc' = "hooks" THEN "merged" ELSE settled
           \/ /\ pc = "closeBranch" /\ pc' \in {"hooks", "closePr", "closeBranch", "failed"}
              /\ Accepts("closeBranch") /\ Serve("closeBranch")
              /\ settled' = IF pc' = "hooks" /\ account = "github" THEN "closed" ELSE settled
           \/ /\ pc = "closePr" /\ pc' \in {"hooks", "closePr", "failed"} /\ Serve("closePr")
              /\ settled' = IF pc' = "hooks" THEN "closed" ELSE settled
    PROVE  repo' \in Repository /\ ForkInv' /\ PrInv'
<1> USE DEF IInv
<1>1. repo \in Repository /\ settled = "none" /\ pc \in Working
  BY DEF TypeOK, PrInv, Ended, Working
<1>2. /\ repo' \in Repository /\ repo'.content = repo.content /\ repo'.check = repo.check
      /\ pc = "open" => repo'.branch = repo.branch /\ repo'.pr = "open"
      /\ pc = "merge" => repo'.pr = "merged"
      /\ pc = "closeBranch" =>
           /\ repo'.branch = FALSE
           /\ repo'.pr = IF account = "github" /\ repo.pr = "open" THEN "closed" ELSE repo.pr
      /\ pc = "closePr" => repo'.pr = "closed"
  <2>1. CASE pc = "branch"
    BY <1>1, <2>1, Serves DEF Repository
  <2>2. CASE pc \in {"open", "merge", "closePr"}
    <3>1. PICK p \in {"open", "merged", "closed"} :
            /\ repo' = [repo EXCEPT !.pr = p]
            /\ pc = "open" => p = "open"
            /\ pc = "merge" => p = "merged"
            /\ pc = "closePr" => p = "closed"
      BY <2>2, Serves
    <3> QED BY <1>1, <2>2, <3>1 DEF Repository
  <2>3. CASE pc = "closeBranch"
    <3>1. repo' = [repo EXCEPT !.branch = FALSE,
                               !.pr = IF account = "github" /\ @ = "open" THEN "closed" ELSE @]
      BY <2>3, Serves
    <3> QED BY <1>1, <2>3, <3>1 DEF Repository
  <2> QED BY <2>1, <2>2, <2>3
<1>3. ForkInv'
  BY <1>1, <1>2 DEF ForkInv, ForksAreReady, There, Working, Ended
<1>4. PrInv'
  <2>1. pc \in {"merge", "closeBranch", "closePr"} => repo'.check = "completed"
    BY <1>2 DEF PrInv
  <2>2. pc = "open" => repo'.branch /\ repo'.pr = "open"
    BY <1>2, Serves
  <2>3. pc = "closeBranch" => repo'.pr = IF account = "github" THEN "closed" ELSE "open"
    BY <1>2, Serves DEF PrInv
  <2>4. /\ pc' \in {"list", "appear", "check"} => repo'.branch /\ repo'.pr = "open"
        /\ pc' \in {"merge", "closeBranch", "closePr", "hooks"} => repo'.check = "completed"
        /\ pc' = "closeBranch" => ~repo'.branch /\ (account = "github" => repo'.pr = "closed")
    BY <1>2, <2>1, <2>2, <2>3
  <2>5. /\ settled' # "none" => pc' = "hooks" /\ repo'.pr = settled' /\ repo'.check = "completed"
        /\ pc' # "done"
    BY <1>1, <1>2, <2>1, <2>3
  <2> QED BY <2>4, <2>5 DEF PrInv, SettledIsReal
<1> QED BY <1>2, <1>3, <1>4

\* The suite deletes its fork, or marks it.
LEMMA DeleteServed ==
    ASSUME IInv, pc = "delete", pc' \in {"done", "deleteWait", "delete", "failed"},
           Accepts("delete"), Serve("delete"),
           UNCHANGED <<account, listing, adopted, settled>>
    PROVE  ItemsOK /\ repo' \in Repository /\ ForkInv' /\ PrInv'
<1> USE DEF IInv
<1>1. /\ repo' \in Repository
      /\ repo'.content = IF account = "gitlab" THEN "deleting" ELSE "none"
      /\ repo'.pr = repo.pr
      /\ repo'.check = repo.check
  <2>1. repo \in Repository
    BY DEF TypeOK
  <2>2. repo' = [repo EXCEPT !.content = IF account = "gitlab" THEN "deleting" ELSE "none"]
    BY Serves
  <2> QED BY <2>1, <2>2 DEF Repository
<1>2. /\ ItemsOK
      /\ account = "gitlab" => UNCHANGED items
      /\ account # "gitlab" => items'[Fork] = Nil
  BY Serves, ForkAssumption DEF ItemsOK, ItemsKept, TypeOK
<1>3. ForkInv'
  BY <1>1, <1>2 DEF ForkInv, ForksAreReady, There, Working, Ended
<1>4. PrInv'
  BY <1>1, <1>2 DEF PrInv, SettledIsReal, There, Ended
<1> QED BY <1>1, <1>2, <1>3, <1>4

-----------------------------------------------------------------------------
(* The actions of the suite and of the services.                           *)

\* The rest of a step of the suite: what follows when its effect on items, on the
\* repository and on the path of the suite is known.
LEMMA SuiteIInv ==
    ASSUME IInv, UNCHANGED <<account, cleanup>>, ItemsOK, repo' \in Repository, ForkInv', PrInv',
           pc' \in Working \cup Ended \cup {"fork", "import", "delete", "deleteWait"},
           retry' \in 0..MaxRetries, faults' \in 0..MaxFaults, tries' \in 1..3,
           id' \in BOOLEAN, adopted' \in BOOLEAN, settled' \in {"none", "merged", "closed"}
    PROVE  IInv'
<1>1. TypeOK'
  BY DEF IInv, TypeOK, ItemsOK, cleanup
<1>2. CleanupInv'
  BY ItemsKeptInv DEF IInv, ItemsOK
<1> QED BY <1>1, <1>2 DEF IInv

\* Steps that only move the suite.
LEMMA MoveIInv ==
    ASSUME IInv, Move, pc \notin Ended, UNCHANGED <<account, items, cleanup, repo, adopted, settled>>,
           retry' \in 0..MaxRetries, faults' \in 0..MaxFaults, tries' \in 1..3, id' \in BOOLEAN
    PROVE  IInv'
<1>1. ItemsOK /\ repo' \in Repository /\ adopted' \in BOOLEAN /\ settled' \in {"none", "merged", "closed"}
  BY SameItems DEF IInv, TypeOK
<1>2. ForkInv' /\ PrInv'
  BY MoveInv DEF IInv, cleanup
<1>3. pc' \in Working \cup Ended \cup {"fork", "import", "delete", "deleteWait"}
  BY DEF Move, IInv, TypeOK, Working, Ended
<1> QED BY <1>1, <1>2, <1>3, SuiteIInv

\* The actions that only read.
LEMMA ReadSteps ==
    ASSUME IInv,
           \/ ListCommits \/ GetCheckRunConclusion \/ WaitForImport
           \/ GitlabGetCommitStatusConclusion \/ ForgejoGetCommitStatusConclusion
           \/ ListPullRequestsWithRetry \/ TimesOut
    PROVE  IInv'
<1> USE DEF IInv
<1>1. CASE ListCommits
  <2>1. /\ Read("import", repo.content = "ready", {"branch"}, {"import"}, {"import"})
        /\ UNCHANGED rest
    BY <1>1 DEF ListCommits
  <2>2. Move /\ pc \notin Ended
    BY <2>1 DEF Read, RoundTrip, Goto, Move, Ended
  <2> QED BY <2>1, <2>2, ReadOutcomes, MoveIInv DEF TypeOK, rest
<1>2. CASE WaitForImport
  <2>1. /\ Read("import", repo.content = "ready", {"branch"},
                IF repo.content = "failed" THEN {"failed"} ELSE {"import"}, {"import"})
        /\ UNCHANGED rest
    BY <1>2 DEF WaitForImport
  <2>2. Move /\ pc \notin Ended
    BY <2>1 DEF Read, RoundTrip, Goto, Move, Ended
  <2> QED BY <2>1, <2>2, ReadOutcomes, MoveIInv DEF TypeOK, rest
<1>3. CASE GitlabGetCommitStatusConclusion \/ ForgejoGetCommitStatusConclusion
  <2>1. /\ \/ Read("appear", repo.check # "none", {"check"}, {"appear"}, {"appear"})
           \/ Read("check", repo.check = "completed", {"merge", "closeBranch"}, {"check"}, {"check"})
        /\ UNCHANGED rest
    BY <1>3 DEF GitlabGetCommitStatusConclusion, ForgejoGetCommitStatusConclusion
  <2>2. Move /\ pc \notin Ended
    BY <2>1 DEF Read, RoundTrip, Goto, Move, Ended
  <2> QED BY <2>1, <2>2, ReadOutcomes, MoveIInv DEF TypeOK, rest
<1>4. CASE GetCheckRunConclusion
  <2>1. /\ \/ Read("appear", repo.check # "none", {"check"}, {"appear"}, {"appear"})
           \/ Read("check", id /\ repo.check = "completed", {"merge", "closeBranch"}, {"check"}, {"check"})
        /\ UNCHANGED <<account, cleanup, tries, adopted, settled>>
    BY <1>4 DEF GetCheckRunConclusion
  <2>2. id' \in BOOLEAN
    BY <1>4 DEF GetCheckRunConclusion
  <2>3. Move /\ pc \notin Ended
    BY <2>1 DEF Read, RoundTrip, Goto, Move, Ended
  <2> QED BY <2>1, <2>2, <2>3, ReadOutcomes, MoveIInv DEF TypeOK
<1>5. CASE ListPullRequestsWithRetry
  <2>1. /\ Read("list", TRUE, {"appear"}, {}, IF tries < 3 THEN {"list"} ELSE {"failed"})
        /\ UNCHANGED <<account, cleanup, id, adopted, settled>>
    BY <1>5 DEF ListPullRequestsWithRetry
  <2>2. Move /\ pc \notin Ended
    BY <2>1 DEF Read, RoundTrip, Goto, Move, Ended
  <2>3. tries' \in 1..3
    BY <1>5 DEF ListPullRequestsWithRetry, Read, RoundTrip, Goto, TypeOK
  <2> QED BY <2>1, <2>2, <2>3, ReadOutcomes, MoveIInv DEF TypeOK
<1>6. CASE TimesOut
  <2>1. Move /\ pc \notin Ended /\ retry' \in 0..MaxRetries
    BY <1>6, RetriesAssumption DEF TimesOut, Goto, Move, Ended
  <2> QED BY <1>6, <2>1, MoveIInv DEF TimesOut, TypeOK
<1> QED BY <1>1, <1>2, <1>3, <1>4, <1>5, <1>6

\* The forks.
LEMMA ForkSteps ==
    ASSUME IInv, CreateFork \/ ForkProject \/ MigrateRepo
    PROVE  IInv'
<1> USE DEF IInv
<1>1. CASE CreateFork \/ ForkProject
  <2>1. /\ UNCHANGED rest
        /\ \/ Request("fork", {"import"}, {"import"}, {"fork", "failed"})
           \/ Request("fork", {"import"}, {"fork"}, {"fork"})
    BY <1>1 DEF CreateFork, ForkProject
  <2>2. /\ pc = "fork" /\ pc' \in {"fork", "import", "failed"}
        /\ retry' \in 0..MaxRetries /\ faults' \in 0..MaxFaults
        /\ \/ ~There /\ Serve("fork")
           \/ UNCHANGED <<items, repo>> /\ (pc' = "import" => There)
    <3>1. CASE Request("fork", {"import"}, {"import"}, {"fork", "failed"})
      BY <3>1, RequestOutcomes, Serves
    <3>2. CASE Request("fork", {"import"}, {"fork"}, {"fork"})
      BY <3>2, RequestOutcomes, Serves
    <3> QED BY <2>1, <3>1, <3>2
  <2>3. CASE ~There /\ Serve("fork")
    <3>1. ItemsOK /\ repo' \in Repository /\ ForkInv' /\ PrInv'
      BY <2>1, <2>2, <2>3, Serves, ForkServed DEF rest, cleanup
    <3> QED BY <2>1, <2>2, <3>1, SuiteIInv DEF rest, TypeOK, Ended
  <2>4. CASE UNCHANGED <<items, repo>> /\ (pc' = "import" => There)
    <3>1. Move /\ pc \notin Ended
      BY <2>2, <2>4 DEF Move, Ended
    <3> QED BY <2>1, <2>2, <2>4, <3>1, MoveIInv DEF rest, TypeOK
  <2> QED BY <2>2, <2>3, <2>4
<1>2. CASE MigrateRepo
  <2>1. /\ pc = "fork" /\ UNCHANGED <<account, cleanup, tries, id, settled>>
        /\ retry' \in 0..MaxRetries /\ faults' \in 0..MaxFaults
        /\ pc' \in {"fork", "branch", "failed"}
    BY <1>2, FaultsAssumption, RetriesAssumption DEF MigrateRepo, Lost, RoundTrip, Goto, Fault, TypeOK
  <2>2. \/ /\ ~There /\ UNCHANGED adopted
           /\ items' = [items EXCEPT ![Fork] = [kind |-> "repo", old |-> FALSE]]
           /\ \E c \in {"importing", "ready"} :
                repo' = [repo EXCEPT !.content = c] /\ (pc' = "branch" => c = "ready")
        \/ UNCHANGED <<items, repo>> /\ There /\ pc' = "branch" /\ adopted' = TRUE
        \/ UNCHANGED <<items, repo, adopted>> /\ pc' \in {"fork", "failed"}
    <3>1. CASE Lost("fork", {"fork"}) /\ UNCHANGED adopted
      BY <3>1, <2>1, Serves DEF Lost, RoundTrip, Goto
    <3>2. CASE ~Lost("fork", {"fork"})
      BY <1>2, <3>2, Serves DEF MigrateRepo, Goto
    <3> QED BY <1>2, <2>1, <3>1, <3>2, Serves DEF MigrateRepo, Goto
  <2>3. CASE /\ ~There /\ UNCHANGED adopted
             /\ items' = [items EXCEPT ![Fork] = [kind |-> "repo", old |-> FALSE]]
             /\ \E c \in {"importing", "ready"} :
                  repo' = [repo EXCEPT !.content = c] /\ (pc' = "branch" => c = "ready")
    <3>1. ItemsOK /\ repo' \in Repository /\ ForkInv' /\ PrInv'
      BY <2>1, <2>3, ForkServed DEF cleanup
    <3> QED BY <2>1, <2>3, <3>1, SuiteIInv DEF TypeOK, Ended, Working
  <2>4. CASE UNCHANGED <<items, repo>> /\ There /\ pc' = "branch" /\ adopted' = TRUE
    <3>1. ForkInv'
      BY <2>1, <2>4 DEF ForkInv, ForksAreReady, There, Working, Ended, cleanup
    <3>2. PrInv'
      BY <2>1, <2>4 DEF PrInv, SettledIsReal, Ended
    <3>3. ItemsOK /\ repo' \in Repository
      BY <2>4, SameItems DEF TypeOK
    <3> QED BY <2>1, <2>4, <3>1, <3>2, <3>3, SuiteIInv DEF TypeOK, Working
  <2>5. CASE UNCHANGED <<items, repo, adopted>> /\ pc' \in {"fork", "failed"}
    <3>1. Move /\ pc \notin Ended
      BY <2>1, <2>5 DEF Move, Ended
    <3> QED BY <2>1, <2>5, <3>1, MoveIInv DEF TypeOK
  <2> QED BY <2>2, <2>3, <2>4, <2>5
<1> QED BY <1>1, <1>2

\* Branches and pull requests.
LEMMA BranchSteps ==
    ASSUME IInv, CreateRef \/ GitlabCreateBranch \/ ForgejoCreateBranch \/ CreatePullRequest
    PROVE  IInv'
<1> USE DEF IInv
<1>1. UNCHANGED rest
  BY DEF CreateRef, GitlabCreateBranch, ForgejoCreateBranch, CreatePullRequest
<1>2. \/ Request("branch", {"branchWait"}, {"failed"}, {"failed"})
      \/ Request("open", {"list"}, {"failed"}, {"failed"})
      \/ Read("branchWait", repo.branch, {"open"}, {"branchWait"}, {"failed"})
      \/ Read("branchWait", repo.branch, {"open"}, {"branchWait"}, {"branchWait"})
  BY DEF CreateRef, GitlabCreateBranch, ForgejoCreateBranch, CreatePullRequest
<1>3. CASE Request("branch", {"branchWait"}, {"failed"}, {"failed"})
           \/ Request("open", {"list"}, {"failed"}, {"failed"})
  <2>1. /\ retry' \in 0..MaxRetries /\ faults' \in 0..MaxFaults
        /\ \/ /\ pc = "branch" /\ pc' \in {"branchWait", "branch", "failed"} /\ Serve("branch")
           \/ /\ pc = "open" /\ pc' \in {"list", "open", "failed"} /\ Accepts("open") /\ Serve("open")
           \/ /\ pc \in {"branch", "open"} /\ pc' \in {pc, "failed"} /\ UNCHANGED <<items, repo>>
    BY <1>3, RequestOutcomes
  <2>2. CASE pc \in {"branch", "open"} /\ pc' \in {pc, "failed"} /\ UNCHANGED <<items, repo>>
    <3>1. Move /\ pc \notin Ended
      BY <2>2 DEF Move, Ended
    <3> QED BY <1>1, <2>1, <2>2, <3>1, MoveIInv DEF rest, TypeOK
  <2>3. CASE \/ /\ pc = "branch" /\ pc' \in {"branchWait", "branch", "failed"} /\ Serve("branch")
             \/ /\ pc = "open" /\ pc' \in {"list", "open", "failed"} /\ Accepts("open") /\ Serve("open")
    <3>1. UNCHANGED items
      BY <2>3, Serves
    <3>2. repo' \in Repository /\ ForkInv' /\ PrInv'
      BY <1>1, <2>3, <3>1, PrServed DEF rest, cleanup
    <3>3. ItemsOK
      BY <3>1, SameItems
    <3>4. pc' \in Working \cup Ended
      BY <2>3 DEF Working, Ended
    <3> QED BY <1>1, <2>1, <3>2, <3>3, <3>4, SuiteIInv DEF rest, TypeOK
  <2> QED BY <2>1, <2>2, <2>3
<1>4. CASE \/ Read("branchWait", repo.branch, {"open"}, {"branchWait"}, {"failed"})
           \/ Read("branchWait", repo.branch, {"open"}, {"branchWait"}, {"branchWait"})
  <2>1. Move /\ pc \notin Ended /\ UNCHANGED <<items, repo>>
    BY <1>4 DEF Read, RoundTrip, Goto, Move, Ended
  <2> QED BY <1>1, <1>4, <2>1, ReadOutcomes, MoveIInv DEF TypeOK, rest
<1> QED BY <1>2, <1>3, <1>4

\* A step on the pull request that was served.
LEMMA PrServedIInv ==
    ASSUME IInv, UNCHANGED <<account, cleanup, items, tries, id, adopted>>,
           retry' \in 0..MaxRetries, faults' \in 0..MaxFaults,
           \/ /\ pc = "merge" /\ pc' \in {"hooks", "merge"} /\ Serve("merge")
              /\ settled' = IF pc' = "hooks" THEN "merged" ELSE settled
           \/ /\ pc = "closeBranch" /\ pc' \in {"hooks", "closePr", "closeBranch", "failed"}
              /\ Accepts("closeBranch") /\ Serve("closeBranch")
              /\ settled' = IF pc' = "hooks" /\ account = "github" THEN "closed" ELSE settled
           \/ /\ pc = "closePr" /\ pc' \in {"hooks", "closePr", "failed"} /\ Serve("closePr")
              /\ settled' = IF pc' = "hooks" THEN "closed" ELSE settled
    PROVE  IInv'
<1> USE DEF IInv
<1>1. repo' \in Repository /\ ForkInv' /\ PrInv'
  BY PrServed DEF cleanup
<1>2. ItemsOK
  BY SameItems
<1>3. pc' \in Working \cup Ended /\ settled' \in {"none", "merged", "closed"}
  BY DEF Working, Ended, TypeOK
<1> QED BY <1>1, <1>2, <1>3, SuiteIInv DEF TypeOK

\* Merges.
LEMMA MergeSteps ==
    ASSUME IInv, MergePullRequest \/ AcceptMergeRequest \/ ForgejoMergePullRequest
    PROVE  IInv'
<1> USE DEF IInv
<1>1. /\ UNCHANGED <<account, cleanup, tries, id, adopted>>
      /\ settled' = IF pc' = "hooks" THEN "merged" ELSE settled
  BY DEF MergePullRequest, AcceptMergeRequest, ForgejoMergePullRequest
<1>2. CASE Request("merge", {"hooks"}, {"merge"}, {"merge"})
  <2>1. /\ pc = "merge" /\ retry' \in 0..MaxRetries /\ faults' \in 0..MaxFaults
        /\ \/ Serve("merge") /\ pc' \in {"hooks", "merge"}
           \/ UNCHANGED <<items, repo>> /\ pc' = "merge"
    BY <1>2, RequestOutcomes
  <2>2. CASE Serve("merge") /\ pc' \in {"hooks", "merge"}
    <3>1. UNCHANGED items
      BY <2>2, Serves
    <3> QED BY <1>1, <2>1, <2>2, <3>1, PrServedIInv
  <2>3. CASE UNCHANGED <<items, repo>> /\ pc' = "merge"
    <3>1. Move /\ pc \notin Ended /\ UNCHANGED settled
      BY <1>1, <2>1, <2>3 DEF Move, Ended
    <3> QED BY <1>1, <2>1, <2>3, <3>1, MoveIInv DEF TypeOK
  <2> QED BY <2>1, <2>2, <2>3
<1>3. CASE MergePullRequest /\ ~Request("merge", {"hooks"}, {"merge"}, {"merge"})
  <2>1. /\ pc = "merge" /\ pc' = "merge" /\ retry' = 0 /\ UNCHANGED <<items, faults>>
        /\ repo' = [repo EXCEPT !.behind = FALSE]
    BY <1>3 DEF MergePullRequest, Goto
  <2>2. /\ repo' \in Repository /\ repo'.content = repo.content /\ repo'.branch = repo.branch
        /\ repo'.pr = repo.pr /\ repo'.check = repo.check
    <3>1. repo \in Repository
      BY DEF TypeOK
    <3> QED BY <2>1, <3>1 DEF Repository
  <2>3. settled' = settled
    BY <1>1, <2>1
  <2>4. ForkInv'
    BY <1>1, <2>1, <2>2 DEF ForkInv, ForksAreReady, There, cleanup
  <2>5. PrInv'
    BY <1>1, <2>1, <2>2, <2>3 DEF PrInv, SettledIsReal, There, Ended
  <2>6. ItemsOK /\ retry' \in 0..MaxRetries
    BY <2>1, SameItems, RetriesAssumption
  <2> QED BY <1>1, <2>1, <2>2, <2>3, <2>4, <2>5, <2>6, SuiteIInv DEF TypeOK
<1> QED BY <1>2, <1>3 DEF MergePullRequest, AcceptMergeRequest, ForgejoMergePullRequest

\* Closing a pull request: at GitHub, a branch that is gone closed it.
LEMMA CloseSteps ==
    ASSUME IInv,
           \/ DeleteBranchAndClosePullRequest \/ GitlabDeleteBranchAndClosePullRequest
           \/ ForgejoDeleteBranchAndClosePullRequest
    PROVE  IInv'
<1> USE DEF IInv
<1>1. UNCHANGED <<account, cleanup, tries, id, adopted>>
  BY DEF DeleteBranchAndClosePullRequest, GitlabDeleteBranchAndClosePullRequest,
     ForgejoDeleteBranchAndClosePullRequest
<1>2. CASE DeleteBranchAndClosePullRequest
  <2>1. /\ Request("closeBranch", {"hooks"}, {"hooks"}, {"failed"}) /\ account = "github"
        /\ settled' = IF pc' = "hooks" THEN "closed" ELSE settled
    BY <1>2 DEF DeleteBranchAndClosePullRequest
  <2>2. /\ pc = "closeBranch" /\ retry' \in 0..MaxRetries /\ faults' \in 0..MaxFaults
        /\ \/ /\ Accepts("closeBranch") /\ Serve("closeBranch")
              /\ pc' \in {"hooks", "closeBranch", "failed"}
           \/ UNCHANGED <<items, repo>> /\ ~repo.branch /\ pc' = "hooks"
           \/ UNCHANGED <<items, repo>> /\ pc' \in {"failed", "closeBranch"}
    BY <2>1, RequestOutcomes, Serves
  <2>3. CASE /\ Accepts("closeBranch") /\ Serve("closeBranch")
             /\ pc' \in {"hooks", "closeBranch", "failed"}
    <3>1. UNCHANGED items
      BY <2>3, Serves
    <3>2. settled' = IF pc' = "hooks" /\ account = "github" THEN "closed" ELSE settled
      BY <2>1
    <3> QED BY <1>1, <2>2, <2>3, <3>1, <3>2, PrServedIInv
  <2>4. CASE UNCHANGED <<items, repo>> /\ ~repo.branch /\ pc' = "hooks"
    <3>1. ForkInv'
      BY <1>1, <2>2, <2>4 DEF ForkInv, ForksAreReady, There, Working, Ended, cleanup
    <3>2. PrInv'
      BY <1>1, <2>1, <2>2, <2>4 DEF PrInv, SettledIsReal, There, Ended
    <3>3. ItemsOK /\ repo' \in Repository /\ settled' = "closed" /\ pc' \in Working
      BY <2>1, <2>4, SameItems DEF TypeOK, Working
    <3> QED BY <1>1, <2>2, <3>1, <3>2, <3>3, SuiteIInv DEF TypeOK
  <2>5. CASE UNCHANGED <<items, repo>> /\ pc' \in {"failed", "closeBranch"}
    <3>1. Move /\ pc \notin Ended /\ UNCHANGED settled
      BY <2>1, <2>2, <2>5 DEF Move, Ended
    <3> QED BY <1>1, <2>2, <2>5, <3>1, MoveIInv DEF TypeOK
  <2> QED BY <2>2, <2>3, <2>4, <2>5
<1>3. CASE /\ account # "github" /\ UNCHANGED settled
           /\ Request("closeBranch", {"closePr"}, {"hooks"}, {"failed"})
  <2>1. /\ pc = "closeBranch" /\ retry' \in 0..MaxRetries /\ faults' \in 0..MaxFaults
        /\ \/ /\ Accepts("closeBranch") /\ Serve("closeBranch")
              /\ pc' \in {"closePr", "closeBranch", "failed"}
           \/ UNCHANGED <<items, repo>> /\ pc' \in {"hooks", "failed", "closeBranch"}
    BY <1>3, RequestOutcomes
  <2>2. CASE Accepts("closeBranch") /\ Serve("closeBranch") /\ pc' \in {"closePr", "closeBranch", "failed"}
    <3>1. UNCHANGED items
      BY <2>2, Serves
    <3>2. settled' = IF pc' = "hooks" /\ account = "github" THEN "closed" ELSE settled
      BY <1>3
    <3> QED BY <1>1, <2>1, <2>2, <3>1, <3>2, PrServedIInv
  <2>3. CASE UNCHANGED <<items, repo>> /\ pc' \in {"hooks", "failed", "closeBranch"}
    <3>1. Move /\ pc \notin Ended
      BY <2>1, <2>3 DEF Move, Ended
    <3> QED BY <1>1, <1>3, <2>1, <2>3, <3>1, MoveIInv DEF TypeOK
  <2> QED BY <2>1, <2>2, <2>3
<1>4. CASE /\ Request("closePr", {"hooks"}, {"failed"}, {"failed"})
           /\ settled' = IF pc' = "hooks" THEN "closed" ELSE settled
  <2>1. /\ pc = "closePr" /\ retry' \in 0..MaxRetries /\ faults' \in 0..MaxFaults
        /\ \/ Serve("closePr") /\ pc' \in {"hooks", "closePr", "failed"}
           \/ UNCHANGED <<items, repo>> /\ pc' \in {"failed", "closePr"}
    BY <1>4, RequestOutcomes
  <2>2. CASE Serve("closePr") /\ pc' \in {"hooks", "closePr", "failed"}
    <3>1. UNCHANGED items
      BY <2>2, Serves
    <3> QED BY <1>1, <1>4, <2>1, <2>2, <3>1, PrServedIInv
  <2>3. CASE UNCHANGED <<items, repo>> /\ pc' \in {"failed", "closePr"}
    <3>1. Move /\ pc \notin Ended /\ UNCHANGED settled
      BY <1>4, <2>1, <2>3 DEF Move, Ended
    <3> QED BY <1>1, <2>1, <2>3, <3>1, MoveIInv DEF TypeOK
  <2> QED BY <2>1, <2>2, <2>3
<1> QED BY <1>2, <1>3, <1>4 DEF GitlabDeleteBranchAndClosePullRequest, ForgejoDeleteBranchAndClosePullRequest

\* The deletion of the fork.
LEMMA DeleteSteps ==
    ASSUME IInv,
           \/ DeleteRepositoryIfExists \/ DeleteRepositoryOnlyIfExists \/ GitlabDeleteRepositoryIfExists
           \/ DeleteRepositoryReally \/ ForgejoDeleteRepositoryIfExists
    PROVE  IInv'
<1> USE DEF IInv
<1>1. UNCHANGED rest
  BY DEF DeleteRepositoryIfExists, DeleteRepositoryOnlyIfExists, GitlabDeleteRepositoryIfExists,
     DeleteRepositoryReally, ForgejoDeleteRepositoryIfExists
<1>2. ASSUME NEW ok \in {"done", "deleteWait"}, NEW refused \in SUBSET {"done", "failed"},
             Request("delete", {ok}, refused, {"failed"})
      PROVE  IInv'
  <2>1. /\ pc = "delete" /\ retry' \in 0..MaxRetries /\ faults' \in 0..MaxFaults
        /\ \/ Accepts("delete") /\ Serve("delete") /\ pc' \in {"done", "deleteWait", "delete", "failed"}
           \/ /\ UNCHANGED <<items, repo>> /\ pc' \in {"done", "failed"}
              /\ There => repo.content \in {"deleting", "renamed"}
           \/ UNCHANGED <<items, repo>> /\ pc' \in {"failed", "delete"}
    BY <1>2, RequestOutcomes, Serves
  <2>2. CASE Accepts("delete") /\ Serve("delete") /\ pc' \in {"done", "deleteWait", "delete", "failed"}
    <3>1. ItemsOK /\ repo' \in Repository /\ ForkInv' /\ PrInv'
      BY <1>1, <2>1, <2>2, DeleteServed DEF rest, cleanup
    <3>2. pc' \in Ended \cup {"delete", "deleteWait"}
      BY <2>2 DEF Ended
    <3> QED BY <1>1, <2>1, <3>1, <3>2, SuiteIInv DEF rest, TypeOK
  <2>3. CASE /\ UNCHANGED <<items, repo>>
             /\ \/ pc' = "done" /\ (There => repo.content \in {"deleting", "renamed"})
                \/ pc' \in {"failed", "delete"}
    <3>1. Move /\ pc \notin Ended
      BY <2>1, <2>3 DEF Move, Ended
    <3> QED BY <1>1, <2>1, <2>3, <3>1, MoveIInv DEF rest, TypeOK
  <2> QED BY <2>1, <2>2, <2>3
<1>3. CASE DeleteRepositoryIfExists \/ DeleteRepositoryOnlyIfExists \/ ForgejoDeleteRepositoryIfExists
  <2>1. PICK refused \in SUBSET {"done", "failed"} : Request("delete", {"done"}, refused, {"failed"})
    BY <1>3 DEF DeleteRepositoryIfExists, DeleteRepositoryOnlyIfExists, ForgejoDeleteRepositoryIfExists
  <2> QED BY <1>2, <2>1
<1>4. CASE GitlabDeleteRepositoryIfExists
  <2>1. \/ \E refused \in SUBSET {"done", "failed"} : Request("delete", {"deleteWait"}, refused, {"failed"})
        \/ Read("deleteWait", ~There, {"done"}, {"deleteWait"}, {"failed"})
    BY <1>4 DEF GitlabDeleteRepositoryIfExists
  <2>2. CASE Read("deleteWait", ~There, {"done"}, {"deleteWait"}, {"failed"})
    <3>1. Move /\ pc \notin Ended /\ UNCHANGED <<items, repo>>
      BY <2>2 DEF Read, RoundTrip, Goto, Move, Ended
    <3> QED BY <1>1, <2>2, <3>1, ReadOutcomes, MoveIInv DEF TypeOK, rest
  <2> QED BY <1>2, <2>1, <2>2
<1>5. CASE DeleteRepositoryReally
  <2>1. /\ account = "gitlab" /\ pc = "deleteWait" /\ pc' \in {"done", "failed"}
        /\ retry' \in 0..MaxRetries /\ faults' \in 0..MaxFaults
        /\ \/ UNCHANGED <<items, repo>> /\ pc' = "failed"
           \/ repo' = [repo EXCEPT !.content = "none"] /\ items' = [items EXCEPT ![Fork] = Nil]
    BY <1>5, FaultsAssumption, RetriesAssumption DEF DeleteRepositoryReally, Goto, Fault, TypeOK
  <2>2. CASE UNCHANGED <<items, repo>> /\ pc' = "failed"
    <3>1. Move /\ pc \notin Ended
      BY <2>1, <2>2 DEF Move, Ended
    <3> QED BY <1>1, <2>1, <2>2, <3>1, MoveIInv DEF rest, TypeOK
  <2>3. CASE repo' = [repo EXCEPT !.content = "none"] /\ items' = [items EXCEPT ![Fork] = Nil]
    <3>1. /\ repo' \in Repository /\ repo'.content = "none" /\ repo'.branch = repo.branch
          /\ repo'.pr = repo.pr /\ repo'.check = repo.check
      <4>1. repo \in Repository
        BY DEF TypeOK
      <4> QED BY <2>3, <4>1 DEF Repository
    <3>2. ItemsOK /\ ~There'
      BY <2>3, ForkAssumption DEF ItemsOK, ItemsKept, There, TypeOK
    <3>3. ForkInv'
      BY <1>1, <2>1, <3>1, <3>2 DEF ForkInv, ForksAreReady, Working, Ended, rest
    <3>4. PrInv'
      BY <1>1, <2>1, <3>1, <3>2 DEF PrInv, SettledIsReal, Ended, rest
    <3>5. pc' \in Ended
      BY <2>1 DEF Ended
    <3> QED BY <1>1, <2>1, <3>1, <3>2, <3>3, <3>4, <3>5, SuiteIInv DEF rest, TypeOK
  <2> QED BY <2>1, <2>2, <2>3
<1> QED BY <1>3, <1>4, <1>5

\* A webhook that the suite deletes is none of the fork's.
LEMMA WebhookStep ==
    ASSUME IInv, CleanupWebhooks
    PROVE  IInv'
<1> USE DEF IInv
<1>1. /\ pc = "hooks" /\ pc' \in {"hooks", "delete", "failed"} /\ UNCHANGED rest /\ UNCHANGED repo
      /\ retry' \in 0..MaxRetries /\ faults' \in 0..MaxFaults
  BY FaultsAssumption, RetriesAssumption DEF CleanupWebhooks, Goto, RoundTrip, Fault, TypeOK
<1>2. ItemsOK /\ items'[Fork] = items[Fork]
  BY ForkAssumption DEF CleanupWebhooks, ItemsOK, ItemsKept, TypeOK
<1>3. ForkInv'
  BY <1>1, <1>2 DEF ForkInv, ForksAreReady, There, Working, Ended, rest, cleanup
<1>4. PrInv'
  BY <1>1, <1>2 DEF PrInv, SettledIsReal, There, Ended, rest
<1>5. pc' \in Working \cup Ended \cup {"delete"}
  BY <1>1 DEF Working, Ended
<1> QED BY <1>1, <1>2, <1>3, <1>4, <1>5, SuiteIInv DEF rest, TypeOK

\* What forks, check runs and base branches do by themselves.
LEMMA ServiceIInv ==
    ASSUME IInv, ServiceStep
    PROVE  IInv'
<1> USE DEF IInv
<1>0. UNCHANGED <<account, cleanup, faults, suite>> /\ repo \in Repository
  BY DEF ServiceStep, TypeOK
<1>1. CASE /\ repo.content = "importing" /\ UNCHANGED items
           /\ \E c \in {"ready", "failed"} : repo' = [repo EXCEPT !.content = c]
  <2>1. /\ repo' \in Repository /\ repo'.content \in {"ready", "failed"} /\ repo'.branch = repo.branch
        /\ repo'.pr = repo.pr /\ repo'.check = repo.check
    BY <1>0, <1>1 DEF Repository
  <2>2. ForkInv'
    BY <1>0, <1>1, <2>1 DEF ForkInv, ForksAreReady, There, suite, cleanup
  <2>3. PrInv'
    BY <1>0, <1>1, <2>1 DEF PrInv, SettledIsReal, There, suite
  <2>4. ItemsOK
    BY <1>1, SameItems
  <2> QED BY <1>0, <2>1, <2>2, <2>3, <2>4, SuiteIInv DEF suite, TypeOK
<1>2. CASE /\ repo.content \in {"deleting", "renamed"}
           /\ \/ repo' = [repo EXCEPT !.content = "renamed"] /\ UNCHANGED items
              \/ repo' = [repo EXCEPT !.content = "none"] /\ items' = [items EXCEPT ![Fork] = Nil]
  <2>1. /\ repo' \in Repository /\ repo'.branch = repo.branch
        /\ repo'.pr = repo.pr /\ repo'.check = repo.check
        /\ \/ repo'.content = "renamed" /\ UNCHANGED items
           \/ repo'.content = "none" /\ items' = [items EXCEPT ![Fork] = Nil]
    BY <1>0, <1>2 DEF Repository
  <2>2. account = "gitlab" /\ pc \notin Working \cup {"fork", "import"}
    BY <1>2 DEF ForkInv
  <2>3. ItemsOK /\ (~There' \/ (UNCHANGED items /\ repo'.content = "renamed"))
    BY <2>1, SameItems, ForkAssumption DEF ItemsOK, ItemsKept, There, TypeOK
  <2>4. ForkInv'
    BY <1>0, <2>1, <2>2, <2>3 DEF ForkInv, ForksAreReady, There, suite, cleanup
  <2>5. PrInv'
    <3>1. UNCHANGED <<pc, settled, account>>
      BY <1>0 DEF suite
    <3>2. pc \notin {"list", "appear", "check", "merge", "closeBranch", "closePr", "hooks"}
      BY <2>2 DEF Working
    <3>3. settled # "none" => pc \in Ended \cup {"hooks", "delete", "deleteWait"}
      BY DEF PrInv
    <3>4. SettledIsReal'
      BY <2>1, <2>2, <2>3, <3>1 DEF PrInv, SettledIsReal, There
    <3> QED BY <3>1, <3>2, <3>3, <3>4 DEF PrInv, Ended
  <2> QED BY <1>0, <2>1, <2>3, <2>4, <2>5, SuiteIInv DEF suite, TypeOK
<1>3. CASE /\ repo.pr = "open" /\ UNCHANGED items
           /\ \/ repo.check = "none" /\ repo' = [repo EXCEPT !.check = "running"]
              \/ repo.check = "running" /\ repo' = [repo EXCEPT !.check = "completed"]
              \/ repo' = [repo EXCEPT !.behind = TRUE]
  <2>1. /\ repo' \in Repository /\ repo'.content = repo.content /\ repo'.branch = repo.branch
        /\ repo'.pr = repo.pr /\ (repo.check = "completed" => repo'.check = "completed")
    BY <1>0, <1>3 DEF Repository
  <2>2. ForkInv'
    BY <1>0, <1>3, <2>1 DEF ForkInv, ForksAreReady, There, suite, cleanup
  <2>3. PrInv'
    BY <1>0, <1>3, <2>1 DEF PrInv, SettledIsReal, There, suite
  <2>4. ItemsOK
    BY <1>3, SameItems
  <2> QED BY <1>0, <2>1, <2>2, <2>3, <2>4, SuiteIInv DEF suite, TypeOK
<1> QED BY <1>1, <1>2, <1>3 DEF ServiceStep

\* Time passes; the fork gets old after the suite.
LEMMA AgeIInv ==
    ASSUME IInv, Age
    PROVE  IInv'
<1> USE DEF IInv
<1>0. UNCHANGED <<account, cleanup, faults, suite, repo>>
  BY DEF Age
<1>1. PICK i \in Items : /\ items[i] # Nil
                         /\ i = Fork => pc \in Ended
                         /\ items' = [items EXCEPT ![i].old = TRUE]
  BY DEF Age
<1>2. items[i] \in Item
  BY <1>1 DEF TypeOK
<1>3. PICK s \in Item : items' = [items EXCEPT ![i] = s] /\ s.kind = items[i].kind
  <2>1. [items[i] EXCEPT !.old = TRUE] \in Item /\ [items[i] EXCEPT !.old = TRUE].kind = items[i].kind
    BY <1>2 DEF Item
  <2> QED BY <1>1, <2>1
<1>4. ItemsOK
  BY <1>1, <1>3 DEF ItemsOK, ItemsKept, TypeOK
<1>5. /\ pc \notin Ended => items'[Fork] = items[Fork]
      /\ There' => There
      /\ There => There'
  BY <1>1, <1>3, NilAssumption, ForkAssumption DEF There, TypeOK
<1>6. ForkInv'
  BY <1>0, <1>5 DEF ForkInv, ForksAreReady, Working, Ended, suite, cleanup
<1>7. PrInv'
  BY <1>0, <1>5 DEF PrInv, SettledIsReal, suite
<1>8. repo' \in Repository
  BY <1>0 DEF TypeOK
<1> QED BY <1>0, <1>4, <1>6, <1>7, <1>8, SuiteIInv DEF suite, TypeOK

-----------------------------------------------------------------------------

\* Every step preserves the inductive invariant.
LEMMA NextIInv == IInv /\ [Next]_vars => IInv'
<1> SUFFICES ASSUME IInv, [Next]_vars PROVE IInv'
  OBVIOUS
<1>1. CASE SuiteStep
  BY <1>1, ReadSteps, ForkSteps, BranchSteps, MergeSteps, CloseSteps, DeleteSteps, WebhookStep DEF SuiteStep
<1>2. CASE TimesOut
  BY <1>2, ReadSteps
<1>3. CASE ServiceStep \/ Age
  BY <1>3, ServiceIInv, AgeIInv
<1>4. CASE CleanupRuns
  <2>1. TypeOK' /\ CleanupInv'
    BY <1>4, CleanupTypes, CleanupStepInv DEF IInv, CleanupRuns
  <2>2. ForkInv' /\ PrInv'
    BY <1>4, CleanupLeavesFork
  <2> QED BY <2>1, <2>2 DEF IInv
<1>5. CASE UNCHANGED vars
  <2> USE <1>5 DEF vars, suite, cleanup
  <2>1. ItemsOK /\ repo' \in Repository
    BY SameItems DEF IInv, TypeOK
  <2>2. ForkInv' /\ PrInv'
    BY DEF IInv, ForkInv, ForksAreReady, PrInv, SettledIsReal, There
  <2> QED BY <2>1, <2>2, SuiteIInv DEF IInv, TypeOK
<1> QED BY <1>1, <1>2, <1>3, <1>4, <1>5 DEF Next

\* The inductive invariant holds in every reachable state.
THEOREM Invariance == Spec => []IInv
  BY InitIInv, NextIInv, PTL DEF Spec

\* The variables have their types.
THEOREM TypeCorrect == Spec => []TypeOK
<1>1. IInv => TypeOK
  BY DEF IInv
<1> QED BY <1>1, Invariance, PTL

\* For any account, any number of faults and retries, and beside any cleanup: a
\* fork that ForkRepository returned stays until the suite deletes it.
THEOREM ForksStayReady == Spec => []ForksAreReady
<1>1. IInv => ForksAreReady
  BY DEF IInv, ForkInv
<1> QED BY <1>1, Invariance, PTL

\* Likewise, a pull request that was reported as merged or closed is, and what
\* was reported as deleted is gone or going (RetryTransport repeats requests).
THEOREM SettledStaysReal == Spec => []SettledIsReal
<1>1. IInv => SettledIsReal
  BY DEF IInv, PrInv
<1> QED BY <1>1, Invariance, PTL

\* Likewise, a cleanup of magefile.go that returned nil has deleted what it
\* found, unless its errors are warnings only.
THEOREM NilMeansAllDeleted == Spec => []NilMeansDeleted
<1>1. IInv => NilMeansDeleted
  BY DEF IInv, CleanupInv
<1> QED BY <1>1, Invariance, PTL
=============================================================================

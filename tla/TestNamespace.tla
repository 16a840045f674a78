---------------------------- MODULE TestNamespace ----------------------------
(***************************************************************************)
(* CreateTestNamespace and DeleteNamespace of pkg/clients/common/          *)
(* namespace.go, called for one namespace name by several ginkgo processes *)
(* (the suites use fixed names such as "happy-path-managed").  A process   *)
(* creates the namespace or adopts the one it finds, runs its specs, and   *)
(* deletes the namespace if no spec failed.  Every request to the API      *)
(* server is one step; the cluster's controllers and other users of the    *)
(* cluster act in between.                                                 *)
(***************************************************************************)
EXTENDS Naturals

CONSTANTS
    Procs,     \* ginkgo processes
    Required,  \* keys of requiredLabels
    Others,    \* keys of labels that only others set
    MaxEdits,  \* bound on the label edits of others
    Nil

ASSUME KeysAssumption == Required \cap Others = {}
ASSUME EditsAssumption == MaxEdits \in Nat

VARIABLES
    upstream,  \* TEST_ENVIRONMENT is "upstream"
    ns,        \* the namespace object of that name, or Nil
    sa,        \* the pipeline service account is there
    rb,        \* the role binding of the default konflux-ci user is there
    clock,     \* last resourceVersion the API server gave
    pc,
    copy,      \* the local variable ns of each process, or Nil
    long,      \* history: processes that did not take the early return
    victim,    \* history: uid of the namespace the DELETE of a process hit
    foreign,   \* history: the labels of Others, as others set them
    edits,     \* label edits of others so far
    spoilt     \* history: processes during whose call, or after it, others
               \* took a required label away

cluster == <<ns, sa, rb, clock>>
history == <<long, victim, foreign, edits, spoilt>>
vars == <<upstream, cluster, pc, copy, history>>

Keys == Required \cup Others
Values == {"none", "right", "wrong"}
Labels == [Keys -> Values]
Objects == [uid : Nat, rv : Nat, phase : {"New", "Active", "Terminating"}, labels : Labels]

ASSUME NilAssumption == Nil \notin Objects

\* Calls that returned without error, and processes that have nothing left to do.
Returned == {"created", "delGet", "delete", "gone", "deleted", "kept", "delFailed"}
Ended == {"failed", "deleted", "kept", "delFailed"}

\* requiredLabels on top of the labels l (maps.Copy).
WithRequired(l) == [k \in Keys |-> IF k \in Required THEN "right" ELSE l[k]]

\* Mutant: a key that is there counts, whatever its value.
MissingByKey(l) == {k \in Required : l[k] = "none"}

\* What maps.DeleteFunc leaves of requiredLabels.
Missing(l) == {k \in Required : l[k] # "right"}

\* Mutant: the object is sent without its resourceVersion.
RejectedIfGone(p) == ns = Nil

\* The Update carries the resourceVersion of the copy: the API server rejects
\* it when the object has changed since, or is gone.
Rejected(p) == ns # Nil => ns.rv # copy[p].rv

\* The namespace is absent, or left behind by an earlier job.
Init ==
    /\ upstream \in BOOLEAN
    /\ clock = 1
    /\ \/ ns = Nil
       \/ \E l \in Labels :
            ns = [uid |-> 1, rv |-> 1, phase |-> "Active", labels |-> l]
    /\ sa \in IF ns = Nil THEN {FALSE} ELSE BOOLEAN
    /\ rb \in IF ns = Nil THEN {FALSE} ELSE BOOLEAN
    /\ pc = [p \in Procs |-> "get"]
    /\ copy = [p \in Procs |-> Nil]
    /\ long = {}
    /\ victim = [p \in Procs |-> 0]
    /\ foreign = [k \in Others |-> IF ns = Nil THEN "none" ELSE ns.labels[k]]
    /\ edits = 0
    /\ spoilt = {}

-----------------------------------------------------------------------------
(* CreateTestNamespace.                                                    *)

Goto(p, l) == pc' = [pc EXCEPT ![p] = l]

\* A request fails for another reason than the ones the code tells apart, or a
\* poll is over time: the call returns the error.
RequestFails(p) ==
    /\ pc[p] \in {"get", "create", "active", "update", "sa", "rbGet", "rbCreate"}
    /\ Goto(p, "failed")
    /\ UNCHANGED <<upstream, cluster, copy, history>>

\* Where the call goes once the namespace is there.
AfterNamespace == IF upstream THEN "rbGet" ELSE "sa"

\* Get of the namespace, with the early return when no label is missing.
GetNamespace(p) ==
    /\ pc[p] = "get"
    /\ \/ /\ ns = Nil
          /\ Goto(p, "create")
          /\ UNCHANGED copy
       \/ /\ ns # Nil
          /\ copy' = [copy EXCEPT ![p] = ns]
          /\ Goto(p, IF Missing(ns.labels) = {} THEN "created" ELSE "update")
    /\ UNCHANGED <<upstream, cluster, history>>

\* Create of the namespace with the required labels; it fails when another
\* process was faster.
CreateNamespace(p) ==
    /\ pc[p] = "create"
    /\ ns = Nil
    /\ clock' = clock + 1
    /\ ns' = [uid |-> clock', rv |-> clock', phase |-> "New",
              labels |-> WithRequired([k \in Keys |-> "none"])]
    /\ copy' = [copy EXCEPT ![p] = ns']
    /\ foreign' = [k \in Others |-> "none"]
    /\ long' = long \cup {p}
    /\ Goto(p, "active")
    /\ UNCHANGED <<upstream, sa, rb, victim, edits, spoilt>>

\* AlreadyExists is not tolerated here.
CreateNamespaceExists(p) ==
    /\ pc[p] = "create"
    /\ ns # Nil
    /\ Goto(p, "failed")
    /\ UNCHANGED <<upstream, cluster, copy, history>>

\* The poll for the phase Active ends; a namespace that is gone is an error.
NamespaceActive(p) ==
    /\ pc[p] = "active"
    /\ \/ /\ ns # Nil
          /\ ns.phase = "Active"
          /\ Goto(p, AfterNamespace)
       \/ /\ ns = Nil
          /\ Goto(p, "failed")
    /\ UNCHANGED <<upstream, cluster, copy, history>>

\* The Update of ensureLabelsExist.  The caller's object keeps its old
\* resourceVersion: the one the Update returns is local to the helper.
UpdateLabels(p) ==
    /\ pc[p] = "update"
    /\ copy' = [copy EXCEPT ![p].labels = WithRequired(copy[p].labels)]
    /\ \/ /\ ~Rejected(p)
          /\ clock' = clock + 1
          /\ ns' = [ns EXCEPT !.rv = clock', !.labels = copy'[p].labels]
          /\ long' = long \cup {p}
          /\ Goto(p, AfterNamespace)
       \/ /\ Rejected(p)
          /\ Goto(p, "failed")
          /\ UNCHANGED <<ns, clock, long>>
    /\ UNCHANGED <<upstream, sa, rb, victim, foreign, edits, spoilt>>

\* Mutant: an error of the Get is taken for the last word.
ServiceAccountAnyAnswer(p) ==
    /\ pc[p] = "sa"
    /\ Goto(p, "created")
    /\ UNCHANGED <<upstream, cluster, copy, history>>

\* The poll for the service account ends; NotFound goes on polling.
ServiceAccountFound(p) ==
    /\ pc[p] = "sa"
    /\ sa
    /\ Goto(p, "created")
    /\ UNCHANGED <<upstream, cluster, copy, history>>

\* Get of the role binding.
GetRoleBinding(p) ==
    /\ pc[p] = "rbGet"
    /\ Goto(p, IF rb THEN "created" ELSE "rbCreate")
    /\ UNCHANGED <<upstream, cluster, copy, history>>

\* A namespace that is gone or going accepts no new objects.
Accepts == ns # Nil /\ ns.phase # "Terminating"

\* Create of the role binding; AlreadyExists, from a parallel call, is fine.
CreateRoleBinding(p) ==
    /\ pc[p] = "rbCreate"
    /\ rb' = (rb \/ Accepts)
    /\ Goto(p, IF Accepts THEN "created" ELSE "failed")
    /\ UNCHANGED <<upstream, ns, sa, clock, copy, history>>

-----------------------------------------------------------------------------
(* The suite's AfterAll, and DeleteNamespace.                              *)

\* The namespace of a failed suite is kept.
AfterAll(p) ==
    /\ pc[p] = "created"
    /\ \E l \in {"delGet", "kept"} : Goto(p, l)
    /\ UNCHANGED <<upstream, cluster, copy, history>>

\* The Get before the DELETE tolerates NotFound; so it never ends the call
\* unless it fails.
CheckNamespace(p) ==
    /\ pc[p] = "delGet"
    /\ \E l \in {"delete", "delFailed"} : Goto(p, l)
    /\ UNCHANGED <<upstream, cluster, copy, history>>

\* The DELETE: the namespace terminates.  One that is absent is an error.
DeleteNamespace(p) ==
    /\ pc[p] = "delete"
    /\ \/ /\ ns # Nil
          /\ clock' = clock + 1
          /\ ns' = [ns EXCEPT !.rv = clock', !.phase = "Terminating"]
          /\ victim' = [victim EXCEPT ![p] = ns.uid]
          /\ Goto(p, "gone")
       \/ /\ Goto(p, "delFailed")
          /\ UNCHANGED <<ns, clock, victim>>
    /\ UNCHANGED <<upstream, sa, rb, copy, long, foreign, edits, spoilt>>

\* Mutant: every error of the Get counts as NotFound.
NamespaceDoesNotExistAnyError(p) ==
    /\ pc[p] = "gone"
    /\ Goto(p, "deleted")
    /\ UNCHANGED <<upstream, cluster, copy, history>>

\* The poll of namespaceDoesNotExist ends.
NamespaceDoesNotExist(p) ==
    /\ pc[p] = "gone"
    /\ ns = Nil
    /\ Goto(p, "deleted")
    /\ UNCHANGED <<upstream, cluster, copy, history>>

\* Mutant: the poll has no timeout.
DeletionNeverTimesOut(p) == FALSE /\ UNCHANGED vars

\* The 10 minutes are over.
DeletionTimeout(p) ==
    /\ pc[p] = "gone"
    /\ Goto(p, "delFailed")
    /\ UNCHANGED <<upstream, cluster, copy, history>>

-----------------------------------------------------------------------------
(* The cluster and its other users.                                        *)

\* The namespace becomes active.
Activate ==
    /\ ns # Nil
    /\ ns.phase = "New"
    /\ clock' = clock + 1
    /\ ns' = [ns EXCEPT !.rv = clock', !.phase = "Active"]
    /\ UNCHANGED <<upstream, sa, rb, pc, copy, history>>

\* A controller creates the service account of the pipelines.
CreateServiceAccount ==
    /\ ns # Nil
    /\ ns.phase = "Active"
    /\ ~sa
    /\ sa' = TRUE
    /\ UNCHANGED <<upstream, ns, rb, clock, pc, copy, history>>

\* A namespace that terminates loses its objects one by one, then goes.
Purge ==
    /\ ns # Nil
    /\ ns.phase = "Terminating"
    /\ \/ /\ sa
          /\ sa' = FALSE
          /\ UNCHANGED <<ns, rb>>
       \/ /\ rb
          /\ rb' = FALSE
          /\ UNCHANGED <<ns, sa>>
       \/ /\ ~sa
          /\ ~rb
          /\ ns' = Nil
          /\ UNCHANGED <<sa, rb>>
    /\ UNCHANGED <<upstream, clock, pc, copy, history>>

\* Somebody else sets a label of the namespace.
EditLabel ==
    /\ ns # Nil
    /\ edits < MaxEdits
    /\ edits' = edits + 1
    /\ clock' = clock + 1
    /\ \E k \in Keys, v \in Values :
         /\ ns' = [ns EXCEPT !.rv = clock', !.labels[k] = v]
         /\ foreign' = [o \in Others |-> IF o = k THEN v ELSE foreign[o]]
         /\ spoilt' = IF k \in Required /\ v # "right"
                      THEN spoilt \cup {p \in Procs : pc[p] # "get"}
                      ELSE spoilt
    /\ UNCHANGED <<upstream, sa, rb, pc, copy, long, victim>>

-----------------------------------------------------------------------------

ProcNext(p) ==
    \/ RequestFails(p)
    \/ GetNamespace(p)
    \/ CreateNamespace(p)
    \/ CreateNamespaceExists(p)
    \/ NamespaceActive(p)
    \/ UpdateLabels(p)
    \/ ServiceAccountFound(p)
    \/ GetRoleBinding(p)
    \/ CreateRoleBinding(p)
    \/ AfterAll(p)
    \/ CheckNamespace(p)
    \/ DeleteNamespace(p)
    \/ NamespaceDoesNotExist(p)
    \/ DeletionTimeout(p)

Next ==
    \/ \E p \in Procs : ProcNext(p)
    \/ Activate
    \/ CreateServiceAccount
    \/ Purge
    \/ EditLabel

\* Requests are answered and polls time out; nothing is assumed of the cluster.
Spec == Init /\ [][Next]_vars /\ \A p \in Procs : WF_vars(ProcNext(p))

-----------------------------------------------------------------------------

\* The types of the cluster's objects and of the processes' variables; a
\* process past the Get or the Create has a namespace object to return.
TypeOK ==
    /\ upstream \in BOOLEAN
    /\ ns \in Objects \cup {Nil}
    /\ sa \in BOOLEAN
    /\ rb \in BOOLEAN
    /\ clock \in Nat
    /\ pc \in [Procs -> {"get", "create", "active", "update", "sa", "rbGet",
                         "rbCreate", "failed"} \cup Returned]
    /\ copy \in [Procs -> Objects \cup {Nil}]
    /\ \A p \in Procs : pc[p] \notin {"get", "create", "failed"} => copy[p] # Nil
    /\ long \subseteq Procs
    /\ victim \in [Procs -> Nat]
    /\ foreign \in [Others -> Values]
    /\ edits \in 0..MaxEdits
    /\ spoilt \subseteq Procs

\* The Update of ensureLabelsExist sends the whole object, as it was read
\* before: it never undoes a label that somebody else set in between.
ForeignLabelsKept ==
    ns # Nil => \A k \in Others : ns.labels[k] = foreign[k]

\* A call that returned without error leaves the namespace it returned with
\* all required labels, whichever processes updated it meanwhile, unless
\* somebody else took one away.
LabelledWhenReturned ==
    \A p \in Procs \ spoilt :
      (pc[p] \in Returned /\ ns # Nil /\ ns.uid = copy[p].uid)
        => \A k \in Required : ns.labels[k] = "right"

\* A call that created or labelled the namespace returns without error only
\* when what its environment needs is there, in that very namespace: the role
\* binding upstream, the service account elsewhere; they stay until somebody
\* deletes the namespace.
ReadyWhenReturned ==
    \A p \in long :
      /\ pc[p] \in Returned
      /\ ns # Nil
      /\ ns.uid = copy[p].uid
      /\ ns.phase # "Terminating"
      => IF upstream THEN rb ELSE sa

\* DeleteNamespace returns nil only when the namespace it deleted is gone,
\* although other processes delete and create it under the same name.
DeletedIsGone ==
    \A p \in Procs : pc[p] = "deleted" => (ns = Nil \/ ns.uid # victim[p])

\* Every suite gets an answer from CreateTestNamespace and DeleteNamespace, even
\* if the namespace never becomes active, usable or gone.
Termination == \A p \in Procs : <>(pc[p] \in Ended)
=============================================================================

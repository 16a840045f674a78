------------------------- MODULE TestNamespaceProofs -------------------------
(***************************************************************************)
(* Proofs about TestNamespace, for any number of processes, labels and     *)
(* edits.  The argument rests on resource versions: a copy with the        *)
(* version of the cluster's object is equal to it (CopyInv), so an Update  *)
(* that is not rejected changes the required labels only; and a uid is     *)
(* never given twice, so what was set up for a namespace, or seen deleted, *)
(* is not taken for its successor of the same name.                        *)
(***************************************************************************)
EXTENDS TestNamespace, TLAPS

\* Versions and uids come from the clock, and a copy about to be sent equals the
\* object on the cluster if it has its version.
CopyInv ==
    /\ ns # Nil => ns.rv <= clock /\ ns.uid <= clock
    /\ \A p \in Procs : copy[p] # Nil =>
         /\ copy[p].rv <= clock
         /\ copy[p].uid <= clock
         /\ (pc[p] = "update" /\ ns # Nil /\ ns.rv = copy[p].rv)
              => ns.labels = copy[p].labels
    /\ \A p \in Procs : victim[p] <= clock

\* The required labels are on the namespace from the Create or the Update on.
LabelInv ==
    \A p \in Procs \ spoilt :
      /\ pc[p] \in Returned \cup {"active", "sa", "rbGet", "rbCreate"}
      /\ ns # Nil
      /\ ns.uid = copy[p].uid
      => \A k \in Required : ns.labels[k] = "right"

\* Which path a process is on.
PathInv ==
    \A p \in Procs :
      /\ pc[p] = "sa" => ~upstream
      /\ pc[p] \in {"rbGet", "rbCreate"} => upstream
      /\ pc[p] \in {"get", "create", "update"} => p \notin long

\* The inductive invariant.
IInv ==
    /\ TypeOK
    /\ CopyInv
    /\ ForeignLabelsKept
    /\ LabelInv
    /\ PathInv
    /\ ReadyWhenReturned
    /\ DeletedIsGone

-----------------------------------------------------------------------------

\* The required labels are laid over well-typed labels.
LEMMA WithRequiredType ==
    ASSUME NEW l \in Labels
    PROVE  /\ WithRequired(l) \in Labels
           /\ \A k \in Required : WithRequired(l)[k] = "right"
           /\ \A k \in Others : WithRequired(l)[k] = l[k]
  BY KeysAssumption DEF WithRequired, Labels, Keys, Values

\* The initial states satisfy the inductive invariant.
LEMMA InitIInv == Init => IInv
<1> SUFFICES ASSUME Init PROVE IInv
  OBVIOUS
<1>1. TypeOK
  <2>1. ns \in Objects \cup {Nil}
    <3>1. \/ ns = Nil
          \/ \E l \in Labels :
               ns = [uid |-> 1, rv |-> 1, phase |-> "Active", labels |-> l]
      BY Zenon DEF Init
    <3>2. ASSUME NEW l \in Labels
          PROVE  [uid |-> 1, rv |-> 1, phase |-> "Active", labels |-> l] \in Objects
      BY DEF Objects
    <3> QED BY <3>1, <3>2
  <2>2. sa \in BOOLEAN /\ rb \in BOOLEAN
    <3>1. ASSUME NEW b, b \in IF ns = Nil THEN {FALSE} ELSE BOOLEAN
          PROVE  b \in BOOLEAN
      BY <3>1, Zenon
    <3> QED BY <3>1, Zenon DEF Init
  <2>3. foreign \in [Others -> Values]
    BY <2>1, NilAssumption DEF Init, Objects, Labels, Keys, Values
  <2> QED BY <2>1, <2>2, <2>3, EditsAssumption DEF Init, TypeOK, Returned
<1>2. CopyInv
  BY DEF Init, CopyInv
<1>3. ForeignLabelsKept
  BY DEF Init, ForeignLabelsKept
<1>4. LabelInv /\ PathInv /\ ReadyWhenReturned /\ DeletedIsGone
  BY DEF Init, LabelInv, PathInv, ReadyWhenReturned, DeletedIsGone, Returned
<1> QED BY <1>1, <1>2, <1>3, <1>4 DEF IInv

\* Steps that change a program counter only, and what they may change it to.
LocalStep(p) ==
    /\ UNCHANGED <<upstream, cluster, copy, history>>
    /\ \E l \in {"failed", "create", "created", "sa", "rbGet", "rbCreate", "delGet",
                 "kept", "delete", "delFailed", "deleted"} :
         /\ Goto(p, l)
         /\ l = "create" => pc[p] = "get"
         /\ l # "create" => pc[p] \notin {"get", "create", "update"} \/ l = "failed"
         /\ l = "sa" => pc[p] = "active" /\ ~upstream
         /\ l = "rbGet" => pc[p] = "active" /\ upstream
         /\ l = "rbCreate" => pc[p] = "rbGet"
         /\ l = "created" => \/ pc[p] = "sa" /\ sa
                             \/ pc[p] = "rbGet" /\ rb
         /\ l \in {"delGet", "kept", "delete", "delFailed", "deleted"}
              => pc[p] \in Returned
         /\ l = "deleted" => ns = Nil

\* The actions that are local steps.
LEMMA LocalSteps ==
    ASSUME NEW p \in Procs,
           \/ RequestFails(p) \/ CreateNamespaceExists(p) \/ NamespaceActive(p)
           \/ ServiceAccountFound(p) \/ GetRoleBinding(p) \/ AfterAll(p)
           \/ CheckNamespace(p) \/ NamespaceDoesNotExist(p) \/ DeletionTimeout(p)
    PROVE  LocalStep(p)
<1>1. CASE RequestFails(p)
  BY <1>1 DEF RequestFails, LocalStep
<1>2. CASE CreateNamespaceExists(p)
  BY <1>2 DEF CreateNamespaceExists, LocalStep
<1>3. CASE NamespaceActive(p)
  BY <1>3 DEF NamespaceActive, AfterNamespace, LocalStep
<1>4. CASE ServiceAccountFound(p)
  BY <1>4 DEF ServiceAccountFound, LocalStep
<1>5. CASE GetRoleBinding(p)
  BY <1>5 DEF GetRoleBinding, LocalStep
<1>6. CASE AfterAll(p)
  BY <1>6 DEF AfterAll, LocalStep, Returned
<1>7. CASE CheckNamespace(p)
  BY <1>7 DEF CheckNamespace, LocalStep, Returned
<1>8. CASE NamespaceDoesNotExist(p)
  BY <1>8 DEF NamespaceDoesNotExist, LocalStep, Returned
<1>9. CASE DeletionTimeout(p)
  BY <1>9 DEF DeletionTimeout, LocalStep, Returned
<1> QED BY <1>1, <1>2, <1>3, <1>4, <1>5, <1>6, <1>7, <1>8, <1>9

\* Local steps preserve the inductive invariant.
LEMMA LocalIInv ==
    ASSUME IInv, NEW p \in Procs, LocalStep(p)
    PROVE  IInv'
<1> USE DEF IInv, LocalStep, Goto, cluster, history
<1>1. TypeOK'
  BY DEF TypeOK, Returned
<1>2. CopyInv'
  BY DEF CopyInv, TypeOK
<1>3. ForeignLabelsKept'
  BY DEF ForeignLabelsKept
<1>4. LabelInv'
  BY DEF LabelInv, TypeOK, Returned
<1>5. PathInv'
  BY DEF PathInv, TypeOK
<1>6. ReadyWhenReturned'
  BY DEF ReadyWhenReturned, PathInv, TypeOK, Returned
<1>7. DeletedIsGone'
  BY DEF DeletedIsGone, TypeOK
<1> QED BY <1>1, <1>2, <1>3, <1>4, <1>5, <1>6, <1>7

\* The Get of the namespace, with its early return.
LEMMA GetIInv ==
    ASSUME IInv, NEW p \in Procs, GetNamespace(p)
    PROVE  IInv'
<1> USE DEF IInv, GetNamespace, Missing, Goto, cluster, history
<1>1. TypeOK'
  BY NilAssumption DEF TypeOK, Returned
<1>2. CopyInv'
  BY NilAssumption DEF CopyInv, TypeOK
<1>3. ForeignLabelsKept'
  BY NilAssumption DEF ForeignLabelsKept, TypeOK
<1>4. LabelInv'
  BY NilAssumption DEF LabelInv, CopyInv, TypeOK, Returned
<1>5. PathInv'
  BY NilAssumption DEF PathInv, TypeOK
<1>6. ReadyWhenReturned'
  BY NilAssumption DEF ReadyWhenReturned, PathInv, CopyInv, TypeOK, Returned
<1>7. DeletedIsGone'
  BY NilAssumption DEF DeletedIsGone, CopyInv, TypeOK
<1> QED BY <1>1, <1>2, <1>3, <1>4, <1>5, <1>6, <1>7

\* The versions and uids of objects and copies are natural numbers.
LEMMA VersionTypes ==
    ASSUME TypeOK
    PROVE  /\ ns # Nil => ns \in Objects /\ ns.rv \in Nat /\ ns.uid \in Nat
           /\ \A p \in Procs : copy[p] # Nil =>
                copy[p] \in Objects /\ copy[p].rv \in Nat /\ copy[p].uid \in Nat
  BY DEF TypeOK, Objects

\* The Create of the namespace: its uid is new, so nothing is claimed of it yet.
LEMMA CreateIInv ==
    ASSUME IInv, NEW p \in Procs, CreateNamespace(p)
    PROVE  IInv'
<1> USE DEF IInv
<1> DEFINE L == WithRequired([k \in Keys |-> "none"])
<1>a. /\ L \in Labels
      /\ \A k \in Required : L[k] = "right"
      /\ \A k \in Others : L[k] = "none"
  <2>1. [k \in Keys |-> "none"] \in Labels
    BY DEF Labels, Values
  <2> QED BY <2>1, WithRequiredType DEF Keys
<1>b. /\ pc[p] = "create" /\ ns = Nil
      /\ clock' = clock + 1
      /\ ns' = [uid |-> clock', rv |-> clock', phase |-> "New", labels |-> L]
      /\ copy' = [copy EXCEPT ![p] = ns']
      /\ foreign' = [k \in Others |-> "none"]
      /\ long' = long \cup {p}
      /\ pc' = [pc EXCEPT ![p] = "active"]
      /\ UNCHANGED <<upstream, sa, rb, victim, edits, spoilt>>
  BY DEF CreateNamespace, Goto
<1> HIDE DEF L
<1>c. /\ ns' \in Objects
      /\ ns'.uid = clock' /\ ns'.rv = clock' /\ ns'.labels = L
  BY <1>a, <1>b DEF Objects, TypeOK
<1>d. /\ ns' # Nil
      /\ copy'[p] = ns'
      /\ \A q \in Procs \ {p} : copy'[q] = copy[q]
      /\ copy' \in [Procs -> Objects \cup {Nil}]
  BY <1>b, <1>c, NilAssumption DEF TypeOK
<1>1. TypeOK'
  <2>1. foreign' \in [Others -> Values]
    BY <1>b DEF Values
  <2>2. \A q \in Procs : pc'[q] \notin {"get", "create", "failed"} => copy'[q] # Nil
    BY <1>b, <1>d DEF TypeOK
  <2> QED BY <1>b, <1>c, <1>d, <2>1, <2>2 DEF TypeOK
<1>2. CopyInv'
  <2>1. ns' # Nil => ns'.rv <= clock' /\ ns'.uid <= clock'
    BY <1>a, <1>b, <1>c, <1>d, VersionTypes DEF CopyInv, TypeOK
  <2>2. ASSUME NEW q \in Procs, copy'[q] # Nil
        PROVE  /\ copy'[q].rv <= clock'
               /\ copy'[q].uid <= clock'
               /\ (pc'[q] = "update" /\ ns' # Nil /\ ns'.rv = copy'[q].rv)
                    => ns'.labels = copy'[q].labels
    BY <2>2, <1>a, <1>b, <1>c, <1>d, VersionTypes DEF CopyInv, TypeOK
  <2>3. \A q \in Procs : victim'[q] <= clock'
    BY <1>a, <1>b, <1>c, <1>d, VersionTypes DEF CopyInv, TypeOK
  <2> QED BY <2>1, <2>2, <2>3 DEF CopyInv
<1>3. ForeignLabelsKept'
  BY <1>a, <1>b, <1>c, <1>d DEF ForeignLabelsKept, TypeOK
<1>4. LabelInv'
  BY <1>a, <1>b, <1>c, <1>d DEF LabelInv, CopyInv, TypeOK, Returned
<1>5. PathInv'
  BY <1>a, <1>b, <1>c, <1>d DEF PathInv, TypeOK
<1>6. ReadyWhenReturned'
  BY <1>a, <1>b, <1>c, <1>d DEF ReadyWhenReturned, PathInv, CopyInv, TypeOK, Returned
<1>7. DeletedIsGone'
  BY <1>a, <1>b, <1>c, <1>d DEF DeletedIsGone, CopyInv, TypeOK
<1> QED BY <1>1, <1>2, <1>3, <1>4, <1>5, <1>6, <1>7

\* The Create of the role binding.
LEMMA RoleBindingIInv ==
    ASSUME IInv, NEW p \in Procs, CreateRoleBinding(p)
    PROVE  IInv'
<1> USE DEF IInv, CreateRoleBinding, Accepts, Goto, history
<1>1. TypeOK'
  BY DEF TypeOK, Returned
<1>2. CopyInv'
  BY DEF CopyInv, TypeOK
<1>3. ForeignLabelsKept'
  BY DEF ForeignLabelsKept, TypeOK
<1>4. LabelInv'
  BY DEF LabelInv, CopyInv, TypeOK, Returned
<1>5. PathInv'
  BY DEF PathInv, TypeOK
<1>6. ReadyWhenReturned'
  BY DEF ReadyWhenReturned, PathInv, CopyInv, TypeOK, Returned
<1>7. DeletedIsGone'
  BY DEF DeletedIsGone, CopyInv, TypeOK
<1> QED BY <1>1, <1>2, <1>3, <1>4, <1>5, <1>6, <1>7

\* The DELETE of the namespace.
LEMMA DeleteIInv ==
    ASSUME IInv, NEW p \in Procs, DeleteNamespace(p)
    PROVE  IInv'
<1>e. CASE UNCHANGED <<ns, clock, victim>> /\ Goto(p, "delFailed")
  <2>1. LocalStep(p)
    BY <1>e DEF DeleteNamespace, LocalStep, Returned, cluster, history
  <2> QED BY <2>1, LocalIInv
<1> SUFFICES ASSUME ns # Nil, pc[p] = "delete", clock' = clock + 1,
                    ns' = [ns EXCEPT !.rv = clock', !.phase = "Terminating"],
                    victim' = [victim EXCEPT ![p] = ns.uid],
                    pc' = [pc EXCEPT ![p] = "gone"],
                    UNCHANGED <<upstream, sa, rb, copy, long, foreign, edits, spoilt>>
             PROVE  IInv'
  BY <1>e DEF DeleteNamespace, Goto
<1> USE DEF IInv
<1>b. /\ ns' \in Objects
      /\ ns'.uid = ns.uid /\ ns'.rv = clock'
      /\ ns'.phase = "Terminating" /\ ns'.labels = ns.labels
  <2>1. clock' \in Nat /\ ns \in Objects
    BY VersionTypes DEF TypeOK
  <2> QED BY <2>1 DEF Objects
<1>1. TypeOK'
  <2>1. victim' \in [Procs -> Nat]
    BY VersionTypes DEF TypeOK
  <2> QED BY <1>b, <2>1 DEF TypeOK, Returned
<1>2. CopyInv'
  <2>1. ns' # Nil => ns'.rv <= clock' /\ ns'.uid <= clock'
    BY <1>b, VersionTypes DEF CopyInv, TypeOK
  <2>2. ASSUME NEW q \in Procs, copy'[q] # Nil
        PROVE  /\ copy'[q].rv <= clock'
               /\ copy'[q].uid <= clock'
               /\ (pc'[q] = "update" /\ ns' # Nil /\ ns'.rv = copy'[q].rv)
                    => ns'.labels = copy'[q].labels
    BY <2>2, <1>b, VersionTypes DEF CopyInv, TypeOK
  <2>3. \A q \in Procs : victim'[q] <= clock'
    BY <1>b, VersionTypes DEF CopyInv, TypeOK
  <2> QED BY <2>1, <2>2, <2>3 DEF CopyInv
<1>3. ForeignLabelsKept'
  BY <1>b, NilAssumption DEF ForeignLabelsKept, TypeOK
<1>4. LabelInv'
  BY <1>b, NilAssumption DEF LabelInv, CopyInv, TypeOK, Returned
<1>5. PathInv'
  BY <1>b, NilAssumption DEF PathInv, TypeOK
<1>6. ReadyWhenReturned'
  BY <1>b, NilAssumption DEF ReadyWhenReturned, PathInv, CopyInv, TypeOK, Returned
<1>7. DeletedIsGone'
  BY <1>b, NilAssumption DEF DeletedIsGone, CopyInv, TypeOK
<1> QED BY <1>1, <1>2, <1>3, <1>4, <1>5, <1>6, <1>7

\* The namespace becomes active.
LEMMA ActivateIInv ==
    ASSUME IInv, Activate
    PROVE  IInv'
<1> USE DEF IInv
<1>a. /\ ns # Nil /\ ns \in Objects /\ ns.phase = "New"
      /\ clock' = clock + 1
      /\ ns' = [ns EXCEPT !.rv = clock', !.phase = "Active"]
      /\ UNCHANGED <<upstream, sa, rb, pc, copy, long, victim, foreign, edits, spoilt>>
  BY DEF Activate, history, TypeOK
<1>b. /\ ns' \in Objects
      /\ ns'.uid = ns.uid /\ ns'.rv = clock'
      /\ ns'.phase = "Active" /\ ns'.labels = ns.labels
  <2>1. clock' \in Nat /\ ns \in Objects
    BY <1>a DEF TypeOK
  <2> QED BY <1>a, <2>1 DEF Objects
<1>1. TypeOK'
  BY <1>a, <1>b, NilAssumption DEF TypeOK, Returned
<1>2. CopyInv'
  <2>1. ns' # Nil => ns'.rv <= clock' /\ ns'.uid <= clock'
    BY <1>a, <1>b, VersionTypes DEF CopyInv, TypeOK
  <2>2. ASSUME NEW q \in Procs, copy'[q] # Nil
        PROVE  /\ copy'[q].rv <= clock'
               /\ copy'[q].uid <= clock'
               /\ (pc'[q] = "update" /\ ns' # Nil /\ ns'.rv = copy'[q].rv)
                    => ns'.labels = copy'[q].labels
    BY <2>2, <1>a, <1>b, VersionTypes DEF CopyInv, TypeOK
  <2>3. \A q \in Procs : victim'[q] <= clock'
    BY <1>a, <1>b, VersionTypes DEF CopyInv, TypeOK
  <2> QED BY <2>1, <2>2, <2>3 DEF CopyInv
<1>3. ForeignLabelsKept'
  BY <1>a, <1>b, NilAssumption DEF ForeignLabelsKept, TypeOK
<1>4. LabelInv'
  BY <1>a, <1>b, NilAssumption DEF LabelInv, CopyInv, TypeOK, Returned
<1>5. PathInv'
  BY <1>a, <1>b, NilAssumption DEF PathInv, TypeOK
<1>6. ReadyWhenReturned'
  BY <1>a, <1>b, NilAssumption DEF ReadyWhenReturned, PathInv, CopyInv, TypeOK, Returned
<1>7. DeletedIsGone'
  BY <1>a, <1>b, NilAssumption DEF DeletedIsGone, CopyInv, TypeOK
<1> QED BY <1>1, <1>2, <1>3, <1>4, <1>5, <1>6, <1>7

\* The service account appears.
LEMMA ServiceAccountIInv ==
    ASSUME IInv, CreateServiceAccount
    PROVE  IInv'
<1> USE DEF IInv, CreateServiceAccount, history
<1>1. TypeOK'
  BY DEF TypeOK, Returned
<1>2. CopyInv'
  BY DEF CopyInv, TypeOK
<1>3. ForeignLabelsKept'
  BY DEF ForeignLabelsKept, TypeOK
<1>4. LabelInv'
  BY DEF LabelInv, CopyInv, TypeOK, Returned
<1>5. PathInv'
  BY DEF PathInv, TypeOK
<1>6. ReadyWhenReturned'
  BY DEF ReadyWhenReturned, PathInv, CopyInv, TypeOK, Returned
<1>7. DeletedIsGone'
  BY DEF DeletedIsGone, CopyInv, TypeOK
<1> QED BY <1>1, <1>2, <1>3, <1>4, <1>5, <1>6, <1>7

\* A terminating namespace loses its objects and goes.
LEMMA PurgeIInv ==
    ASSUME IInv, Purge
    PROVE  IInv'
<1> USE DEF IInv, Purge, history
<1>1. TypeOK'
  BY DEF TypeOK, Returned
<1>2. CopyInv'
  BY DEF CopyInv, TypeOK
<1>3. ForeignLabelsKept'
  BY DEF ForeignLabelsKept, TypeOK
<1>4. LabelInv'
  BY DEF LabelInv, CopyInv, TypeOK, Returned
<1>5. PathInv'
  BY DEF PathInv, TypeOK
<1>6. ReadyWhenReturned'
  BY DEF ReadyWhenReturned, PathInv, CopyInv, TypeOK, Returned
<1>7. DeletedIsGone'
  BY DEF DeletedIsGone, CopyInv, TypeOK
<1> QED BY <1>1, <1>2, <1>3, <1>4, <1>5, <1>6, <1>7
\* An Update that is rejected changes the caller's copy only.
LEMMA RejectedIInv ==
    ASSUME IInv, NEW p \in Procs, UpdateLabels(p), Rejected(p)
    PROVE  IInv'
<1> USE DEF IInv
<1>a. /\ pc[p] = "update" /\ copy[p] \in Objects
      /\ copy' = [copy EXCEPT ![p] = [copy[p] EXCEPT !.labels =
                                          WithRequired(copy[p].labels)]]
      /\ pc' = [pc EXCEPT ![p] = "failed"]
      /\ UNCHANGED <<upstream, ns, clock, sa, rb, long, victim, foreign, edits, spoilt>>
  BY DEF UpdateLabels, Goto, TypeOK
<1>b. /\ copy' \in [Procs -> Objects \cup {Nil}]
      /\ copy'[p] \in Objects
      /\ copy'[p].rv = copy[p].rv /\ copy'[p].uid = copy[p].uid
      /\ \A q \in Procs \ {p} : copy'[q] = copy[q]
  <2>1. WithRequired(copy[p].labels) \in Labels
    BY <1>a, WithRequiredType DEF Objects
  <2> QED BY <1>a, <2>1 DEF TypeOK, Objects
<1>1. TypeOK'
  BY <1>a, <1>b, NilAssumption DEF TypeOK, Returned
<1>2. CopyInv'
  <2>1. ns' # Nil => ns'.rv <= clock' /\ ns'.uid <= clock'
    BY <1>a, <1>b, NilAssumption, VersionTypes DEF CopyInv, TypeOK
  <2>2. ASSUME NEW q \in Procs, copy'[q] # Nil
        PROVE  /\ copy'[q].rv <= clock'
               /\ copy'[q].uid <= clock'
               /\ (pc'[q] = "update" /\ ns' # Nil /\ ns'.rv = copy'[q].rv)
                    => ns'.labels = copy'[q].labels
    BY <2>2, <1>a, <1>b, NilAssumption, VersionTypes DEF CopyInv, TypeOK
  <2>3. \A q \in Procs : victim'[q] <= clock'
    BY <1>a, <1>b, NilAssumption, VersionTypes DEF CopyInv, TypeOK
  <2> QED BY <2>1, <2>2, <2>3 DEF CopyInv
<1>3. ForeignLabelsKept'
  BY <1>a, <1>b, NilAssumption DEF ForeignLabelsKept, TypeOK
<1>4. LabelInv'
  BY <1>a, <1>b, NilAssumption DEF LabelInv, CopyInv, TypeOK, Returned
<1>5. PathInv'
  BY <1>a, <1>b, NilAssumption DEF PathInv, TypeOK
<1>6. ReadyWhenReturned'
  BY <1>a, <1>b, NilAssumption DEF ReadyWhenReturned, PathInv, CopyInv, TypeOK, Returned
<1>7. DeletedIsGone'
  BY <1>a, <1>b, NilAssumption DEF DeletedIsGone, CopyInv, TypeOK
<1> QED BY <1>1, <1>2, <1>3, <1>4, <1>5, <1>6, <1>7

\* An Update that is not rejected sends the labels of the cluster's object with
\* the required ones on top.
LEMMA UpdatedIInv ==
    ASSUME IInv, NEW p \in Procs, UpdateLabels(p), ~Rejected(p)
    PROVE  IInv'
<1> USE DEF IInv
<1> DEFINE L == WithRequired(copy[p].labels)
<1>a. /\ pc[p] = "update" /\ copy[p] \in Objects
      /\ ns # Nil /\ ns \in Objects /\ ns.labels = copy[p].labels
      /\ clock' = clock + 1
      /\ ns' = [ns EXCEPT !.rv = clock', !.labels = copy'[p].labels]
      /\ copy' = [copy EXCEPT ![p] = [copy[p] EXCEPT !.labels = L]]
      /\ long' = long \cup {p}
      /\ pc' = [pc EXCEPT ![p] = AfterNamespace]
      /\ UNCHANGED <<upstream, sa, rb, victim, foreign, edits, spoilt>>
  BY DEF UpdateLabels, Rejected, Goto, TypeOK, CopyInv
<1>b. /\ L \in Labels
      /\ \A k \in Required : L[k] = "right"
      /\ \A k \in Others : L[k] = ns.labels[k]
  BY <1>a, WithRequiredType DEF Objects
<1>c. AfterNamespace \in {"rbGet", "sa"} /\ (AfterNamespace = "rbGet" <=> upstream)
  BY DEF AfterNamespace
<1> HIDE DEF L
<1>d. /\ copy' \in [Procs -> Objects \cup {Nil}]
      /\ copy'[p] \in Objects
      /\ copy'[p].rv = copy[p].rv /\ copy'[p].uid = copy[p].uid
      /\ copy'[p].labels = L
      /\ \A q \in Procs \ {p} : copy'[q] = copy[q]
  BY <1>a, <1>b DEF TypeOK, Objects
<1>e. /\ ns' \in Objects
      /\ ns'.uid = ns.uid /\ ns'.rv = clock' /\ ns'.phase = ns.phase
      /\ ns'.labels = L
  <2>1. clock' \in Nat
    BY <1>a DEF TypeOK
  <2> QED BY <1>a, <1>b, <1>d, <2>1 DEF Objects
<1>1. TypeOK'
  BY <1>a, <1>b, <1>c, <1>d, <1>e, NilAssumption DEF TypeOK, Returned
<1>2. CopyInv'
  <2>1. ns' # Nil => ns'.rv <= clock' /\ ns'.uid <= clock'
    BY <1>a, <1>b, <1>c, <1>d, <1>e, NilAssumption, VersionTypes DEF CopyInv, TypeOK
  <2>2. ASSUME NEW q \in Procs, copy'[q] # Nil
        PROVE  /\ copy'[q].rv <= clock'
               /\ copy'[q].uid <= clock'
               /\ (pc'[q] = "update" /\ ns' # Nil /\ ns'.rv = copy'[q].rv)
                    => ns'.labels = copy'[q].labels
    BY <2>2, <1>a, <1>b, <1>c, <1>d, <1>e, NilAssumption, VersionTypes DEF CopyInv, TypeOK
  <2>3. \A q \in Procs : victim'[q] <= clock'
    BY <1>a, <1>b, <1>c, <1>d, <1>e, NilAssumption, VersionTypes DEF CopyInv, TypeOK
  <2> QED BY <2>1, <2>2, <2>3 DEF CopyInv
<1>3. ForeignLabelsKept'
  BY <1>a, <1>b, <1>c, <1>d, <1>e, NilAssumption DEF ForeignLabelsKept, TypeOK
<1>4. LabelInv'
  BY <1>a, <1>b, <1>c, <1>d, <1>e, NilAssumption DEF LabelInv, CopyInv, TypeOK, Returned
<1>5. PathInv'
  BY <1>a, <1>b, <1>c, <1>d, <1>e, NilAssumption DEF PathInv, TypeOK
<1>6. ReadyWhenReturned'
  BY <1>a, <1>b, <1>c, <1>d, <1>e, NilAssumption DEF ReadyWhenReturned, PathInv, CopyInv, TypeOK, Returned
<1>7. DeletedIsGone'
  BY <1>a, <1>b, <1>c, <1>d, <1>e, NilAssumption DEF DeletedIsGone, CopyInv, TypeOK
<1> QED BY <1>1, <1>2, <1>3, <1>4, <1>5, <1>6, <1>7

\* A label edit of somebody else, which makes every older copy stale.
LEMMA EditIInv ==
    ASSUME IInv, EditLabel
    PROVE  IInv'
<1> USE DEF IInv
<1>a. PICK k \in Keys, v \in Values :
        /\ ns' = [ns EXCEPT !.rv = clock', !.labels[k] = v]
        /\ foreign' = [o \in Others |-> IF o = k THEN v ELSE foreign[o]]
        /\ spoilt' = IF k \in Required /\ v # "right"
                     THEN spoilt \cup {p \in Procs : pc[p] # "get"}
                     ELSE spoilt
  BY DEF EditLabel
<1>b. /\ ns # Nil /\ ns \in Objects /\ ns.labels \in Labels
      /\ clock' = clock + 1 /\ clock' \in Nat
      /\ edits' \in 0..MaxEdits
      /\ UNCHANGED <<upstream, sa, rb, pc, copy, long, victim>>
  BY EditsAssumption DEF EditLabel, TypeOK, Objects
<1> DEFINE L == [ns.labels EXCEPT ![k] = v]
<1>c. /\ L \in Labels
      /\ \A o \in Others : L[o] = foreign'[o]
      /\ (\A o \in Required : ns.labels[o] = "right") /\ (k \in Required => v = "right")
           => \A o \in Required : L[o] = "right"
  BY <1>a, <1>b DEF Labels, Keys, ForeignLabelsKept
<1> HIDE DEF L
<1>d. /\ ns' \in Objects
      /\ ns'.uid = ns.uid /\ ns'.rv = clock' /\ ns'.phase = ns.phase
      /\ ns'.labels = L
  BY <1>a, <1>b, <1>c DEF Objects, L
<1>e. /\ spoilt' \subseteq Procs /\ spoilt \subseteq spoilt'
      /\ (k \in Required => v = "right")
           \/ \A p \in Procs \ spoilt' : pc[p] = "get"
  BY <1>a DEF TypeOK
<1>f. foreign' \in [Others -> Values]
  BY <1>a DEF TypeOK
<1>1. TypeOK'
  BY <1>b, <1>c, <1>d, <1>e, <1>f, NilAssumption DEF TypeOK, Returned
<1>2. CopyInv'
  <2>1. ns' # Nil => ns'.rv <= clock' /\ ns'.uid <= clock'
    BY <1>b, <1>c, <1>d, <1>e, <1>f, NilAssumption, VersionTypes DEF CopyInv, TypeOK
  <2>2. ASSUME NEW q \in Procs, copy'[q] # Nil
        PROVE  /\ copy'[q].rv <= clock'
               /\ copy'[q].uid <= clock'
               /\ (pc'[q] = "update" /\ ns' # Nil /\ ns'.rv = copy'[q].rv)
                    => ns'.labels = copy'[q].labels
    BY <2>2, <1>b, <1>c, <1>d, <1>e, <1>f, NilAssumption, VersionTypes DEF CopyInv, TypeOK
  <2>3. \A q \in Procs : victim'[q] <= clock'
    BY <1>b, <1>c, <1>d, <1>e, <1>f, NilAssumption, VersionTypes DEF CopyInv, TypeOK
  <2> QED BY <2>1, <2>2, <2>3 DEF CopyInv
<1>3. ForeignLabelsKept'
  BY <1>b, <1>c, <1>d, <1>e, <1>f, NilAssumption DEF ForeignLabelsKept, TypeOK
<1>4. LabelInv'
  BY <1>b, <1>c, <1>d, <1>e, <1>f, NilAssumption DEF LabelInv, CopyInv, TypeOK, Returned
<1>5. PathInv'
  BY <1>b, <1>c, <1>d, <1>e, <1>f, NilAssumption DEF PathInv, TypeOK
<1>6. ReadyWhenReturned'
  BY <1>b, <1>c, <1>d, <1>e, <1>f, NilAssumption DEF ReadyWhenReturned, PathInv, CopyInv, TypeOK, Returned
<1>7. DeletedIsGone'
  BY <1>b, <1>c, <1>d, <1>e, <1>f, NilAssumption DEF DeletedIsGone, CopyInv, TypeOK
<1> QED BY <1>1, <1>2, <1>3, <1>4, <1>5, <1>6, <1>7

-----------------------------------------------------------------------------

\* Every step, and every stuttering step, preserves the inductive invariant.
LEMMA NextIInv == IInv /\ [Next]_vars => IInv'
<1> SUFFICES ASSUME IInv, [Next]_vars PROVE IInv'
  OBVIOUS
<1>1. ASSUME NEW p \in Procs, ProcNext(p) PROVE IInv'
  <2>1. CASE UpdateLabels(p)
    BY <2>1, RejectedIInv, UpdatedIInv
  <2> QED BY <1>1, <2>1, LocalSteps, LocalIInv, GetIInv, CreateIInv,
             RoleBindingIInv, DeleteIInv DEF ProcNext
<1>2. CASE Activate
  BY <1>2, ActivateIInv
<1>3. CASE CreateServiceAccount
  BY <1>3, ServiceAccountIInv
<1>4. CASE Purge
  BY <1>4, PurgeIInv
<1>5. CASE EditLabel
  BY <1>5, EditIInv
<1>6. CASE UNCHANGED vars
  BY <1>6 DEF vars, cluster, history, IInv, TypeOK, CopyInv, ForeignLabelsKept,
              LabelInv, PathInv, ReadyWhenReturned, DeletedIsGone
<1> QED BY <1>1, <1>2, <1>3, <1>4, <1>5, <1>6 DEF Next

\* The inductive invariant holds in every reachable state.
THEOREM Invariance == Spec => []IInv
  BY InitIInv, NextIInv, PTL DEF Spec

\* Type correctness of CreateTestNamespace and DeleteNamespace; a call that
\* returns without error returns an object.
THEOREM TypeCorrect == Spec => []TypeOK
  BY Invariance, PTL DEF IInv

\* ensureLabelsExist never undoes a label that somebody else set, for any number
\* of parallel calls and edits.
THEOREM NoLostLabels == Spec => []ForeignLabelsKept
  BY Invariance, PTL DEF IInv

\* CreateTestNamespace leaves the namespace it returns with all required labels,
\* unless somebody else takes one away.
THEOREM LabelsInPlace == Spec => []LabelledWhenReturned
<1>1. IInv => LabelledWhenReturned
  BY DEF IInv, LabelInv, LabelledWhenReturned
<1> QED BY <1>1, Invariance, PTL

\* A call of CreateTestNamespace that created or labelled the namespace returns
\* it ready for its environment.
THEOREM Ready == Spec => []ReadyWhenReturned
  BY Invariance, PTL DEF IInv

\* DeleteNamespace returns nil only when the namespace it deleted is gone.
THEOREM DeletionsAreReal == Spec => []DeletedIsGone
  BY Invariance, PTL DEF IInv
=============================================================================

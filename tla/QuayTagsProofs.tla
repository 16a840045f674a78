--------------------------- MODULE QuayTagsProofs ---------------------------
(***************************************************************************)
(* For every repository, number of workers and size of a page: the workers *)
(* share the list of tags without overlap or gap, a cleanup that returns   *)
(* nil has deleted all old tags, and a young one goes only if it was       *)
(* pushed after it was listed.                                             *)
(*                                                                         *)
(* The first needs that w, w + Workers, w + 2 * Workers, ... for w in W    *)
(* partition the indexes; the second that a push never moves a tag towards *)
(* the beginning of the list, onto a page that was already read; the third *)
(* that a tag turns young again only by a push, which is on record if the  *)
(* tag was listed before.                                                  *)
(***************************************************************************)
EXTENDS QuayTags, SequenceTheorems, TLAPS

Entry == [name : Tags, isOld : BOOLEAN]

\* What worker w has still to look at: idx[w], idx[w] + Workers, ...
Ahead(w, i) == \E k \in Nat : i = idx[w] + Workers * k

\* Every index was handled or is ahead of exactly one worker.
StrideInv ==
    /\ \A i \in Nat \ {0} : i \in handled \/ \E w \in W : Ahead(w, i)
    /\ \A i \in Nat \ {0} : \A w \in W : Ahead(w, i) => i \notin handled
    /\ \A i \in Nat \ {0} : \A v, w \in W : Ahead(v, i) /\ Ahead(w, i) => v = w
    /\ pc = "list" => handled = {}
    /\ pc = "done" => \A w \in W : idx[w] > Len(allTags)

\* A repository has at most one tag of a name.
RepoInv == \A i, j \in DOMAIN repo : repo[i] = repo[j] => i = j

\* The listing has the tag as an old one.
Listed(t) == \E j \in DOMAIN allTags : allTags[j].name = t /\ allTags[j].isOld

\* If no page failed, the old tags on the pages that were read are listed.
ListedInv ==
    errors = 0 /\ removals = 0 =>
        \A i \in DOMAIN repo :
            repo[i] \in old /\ (pc = "list" => i <= (page - 1) * PageSize) => Listed(repo[i])

\* If no deletion failed, the tags that were handled as old ones are not there.
ClearedInv ==
    workerErrors = [w \in W |-> 0] =>
        \A j \in handled : allTags[j].isOld => allTags[j].name \notin old

\* What was listed as old and is there is old still, or was pushed after it was listed.
AgeInv ==
    \A j \in DOMAIN allTags :
        allTags[j].isOld /\ allTags[j].name \in ToSet(repo)
            => allTags[j].name \in old \cup repushed

\* The result says whether a page failed.
ResultInv == result = "nil" => pc = "done" /\ errors = 0

\* The inductive invariant.
IInv ==
    /\ TypeOK
    /\ StrideInv
    /\ RepoInv
    /\ ListedInv
    /\ ClearedInv
    /\ AgeInv
    /\ ResultInv

-----------------------------------------------------------------------------
(* Numbers.                                                                *)

\* Every number is reached by one of the strides ...
LEMMA Spread ==
    ASSUME NEW N \in Nat \ {0}, NEW i \in Nat \ {0}
    PROVE  \E w \in 1..N, k \in Nat : i = w + N * k
<1>1. PICK a \in Nat : i = a + 1
  <2>1. i - 1 \in Nat
    OBVIOUS
  <2> QED BY <2>1
<1>2. a = N * (a \div N) + (a % N)
  OBVIOUS
<1>3. a % N \in 0..(N - 1) /\ a \div N \in Nat
  OBVIOUS
<1>4. (a % N) + 1 \in 1..N
  BY <1>3
<1>5. i = ((a % N) + 1) + N * (a \div N)
  BY <1>1, <1>2, <1>3
<1> QED BY <1>3, <1>4, <1>5

\* ... and by one only.
LEMMA Apart ==
    ASSUME NEW N \in Nat \ {0}, NEW v \in 1..N, NEW w \in 1..N, NEW k \in Nat, NEW l \in Nat,
           v + N * k = w + N * l
    PROVE  v = w
<1>1. ASSUME NEW a \in Nat, NEW b \in Nat, a < b
      PROVE  N * a + N <= N * b
  <2>1. PICK d \in Nat : b = a + 1 + d
    BY <1>1
  <2>2. N * b = N * a + N + N * d /\ N * d \in Nat
    BY <2>1
  <2> QED BY <2>2
<1>2. CASE k < l
  BY <1>1, <1>2
<1>3. CASE l < k
  BY <1>1, <1>3
<1> QED BY <1>2, <1>3

\* One stride further.
LEMMA Stride ==
    ASSUME NEW N \in Nat, NEW k \in Nat
    PROVE  N * k \in Nat /\ N * (k + 1) = N * k + N
OBVIOUS

-----------------------------------------------------------------------------
(* The repository.                                                         *)

\* A deletion removes the tag and moves the ones behind it one place forward.
LEMMA WithoutTag ==
    ASSUME repo \in Seq(Tags), RepoInv, NEW t
    PROVE  /\ Without(t) \in Seq(Tags)
           /\ \A i \in DOMAIN Without(t) :
                 /\ Without(t)[i] # t
                 /\ \/ i \in DOMAIN repo /\ Without(t)[i] = repo[i]
                    \/ i + 1 \in DOMAIN repo /\ Without(t)[i] = repo[i + 1]
           /\ \A i, j \in DOMAIN Without(t) : Without(t)[i] = Without(t)[j] => i = j
           /\ ToSet(Without(t)) = ToSet(repo) \ {t}
<1>1. CASE t \notin ToSet(repo)
  <2>1. Without(t) = repo
    BY <1>1 DEF Without
  <2> QED BY <1>1, <2>1 DEF RepoInv, ToSet
<1>2. CASE t \in ToSet(repo)
  <2> DEFINE p == CHOOSE i \in DOMAIN repo : repo[i] = t
  <2>1. p \in DOMAIN repo /\ repo[p] = t
    BY <1>2 DEF ToSet
  <2>2. Without(t) = SubSeq(repo, 1, p - 1) \o SubSeq(repo, p + 1, Len(repo))
    BY <1>2 DEF Without, RemoveAt
  <2> HIDE DEF p
  <2>3. p \in 1..Len(repo) /\ DOMAIN repo = 1..Len(repo) /\ Len(repo) \in Nat
    BY <2>1
  <2> DEFINE a == SubSeq(repo, 1, p - 1)
             b == SubSeq(repo, p + 1, Len(repo))
  <2>a. a \in Seq(Tags) /\ Len(a) = p - 1 /\ \A j \in 1..(p - 1) : a[j] = repo[j]
    <3>1. \A i \in 1..(p - 1) : repo[i] \in Tags
      BY <2>3
    <3>2. 1 \in Int /\ p - 1 \in Int /\ p \in Int
      BY <2>3
    <3>3. /\ a \in Seq(Tags)
          /\ Len(a) = IF 1 <= p - 1 THEN (p - 1) - 1 + 1 ELSE 0
          /\ \A i \in 1..((p - 1) - 1 + 1) : a[i] = repo[1 + i - 1]
      BY <3>1, <3>2, SubSeqProperties
    <3> HIDE DEF a
    <3> QED BY <2>3, <3>3
  <2>b. b \in Seq(Tags) /\ Len(b) = Len(repo) - p /\ \A j \in 1..(Len(repo) - p) : b[j] = repo[p + j]
    <3>1. \A i \in (p + 1)..Len(repo) : repo[i] \in Tags
      BY <2>3
    <3>2. p + 1 \in Int /\ Len(repo) \in Int
      BY <2>3
    <3>3. /\ b \in Seq(Tags)
          /\ Len(b) = IF p + 1 <= Len(repo) THEN Len(repo) - (p + 1) + 1 ELSE 0
          /\ \A i \in 1..(Len(repo) - (p + 1) + 1) : b[i] = repo[(p + 1) + i - 1]
      BY <3>1, <3>2, SubSeqProperties
    <3> HIDE DEF b
    <3>4. \A i \in 1..(Len(repo) - p) : i \in 1..(Len(repo) - (p + 1) + 1) /\ (p + 1) + i - 1 = p + i
      BY <2>3
    <3>5. Len(b) = Len(repo) - p
      <4>1. Len(b) = IF p + 1 <= Len(repo) THEN Len(repo) - (p + 1) + 1 ELSE 0
        BY <3>3
      <4>2. p \in Nat /\ Len(repo) \in Nat /\ p <= Len(repo)
        BY <2>3
      <4>3. CASE p + 1 <= Len(repo)
        BY <4>1, <4>2, <4>3
      <4>4. CASE p = Len(repo)
        BY <4>1, <4>2, <4>4
      <4> QED BY <4>2, <4>3, <4>4
    <3>6. \A i \in 1..(Len(repo) - p) : b[i] = repo[p + i]
      BY <3>3, <3>4
    <3> QED BY <3>3, <3>5, <3>6
  <2> HIDE DEF a, b
  <2>c. /\ Without(t) \in Seq(Tags) /\ Len(Without(t)) = Len(repo) - 1
        /\ \A i \in 1..(Len(repo) - 1) : Without(t)[i] = IF i <= p - 1 THEN a[i] ELSE b[i - (p - 1)]
    <3>1. Without(t) = a \o b
      BY <2>2 DEF a, b
    <3>2. Len(a) + Len(b) = Len(repo) - 1
      BY <2>3, <2>a, <2>b
    <3>3. /\ a \o b \in Seq(Tags) /\ Len(a \o b) = Len(a) + Len(b)
          /\ \A i \in 1..(Len(a) + Len(b)) : (a \o b)[i] = IF i <= Len(a) THEN a[i] ELSE b[i - Len(a)]
      <4>1. a \in Seq(Tags) /\ b \in Seq(Tags)
        BY <2>a, <2>b
      <4> QED BY <4>1, ConcatProperties, Zenon
    <3>4. Len(a) = p - 1
      BY <2>a
    <3> QED BY <3>1, <3>2, <3>3, <3>4
  <2>4. Without(t) \in Seq(Tags) /\ DOMAIN Without(t) = 1..(Len(repo) - 1)
    BY <2>c
  <2>5. \A i \in 1..(Len(repo) - 1) : Without(t)[i] = IF i < p THEN repo[i] ELSE repo[i + 1]
    <3> SUFFICES ASSUME NEW i \in 1..(Len(repo) - 1)
                 PROVE  Without(t)[i] = IF i < p THEN repo[i] ELSE repo[i + 1]
      OBVIOUS
    <3>1. CASE i < p
      <4>1. i \in 1..(p - 1) /\ i <= p - 1
        BY <2>3, <3>1
      <4>2. Without(t)[i] = a[i]
        BY <2>c, <4>1
      <4> QED BY <2>a, <3>1, <4>1, <4>2
    <3>2. CASE ~(i < p)
      <4>1. i - (p - 1) \in 1..(Len(repo) - p) /\ p + (i - (p - 1)) = i + 1 /\ ~(i <= p - 1)
        BY <2>3, <3>2
      <4> QED BY <2>b, <2>c, <3>2, <4>1
    <3> QED BY <3>1, <3>2
  <2>6. \A i \in DOMAIN Without(t) : Without(t)[i] # t
    <3> SUFFICES ASSUME NEW i \in 1..(Len(repo) - 1) PROVE Without(t)[i] # t
      BY <2>4
    <3>1. CASE i < p
      BY <2>1, <2>3, <2>5, <3>1 DEF RepoInv
    <3>2. CASE ~(i < p)
      <4>1. i + 1 \in DOMAIN repo /\ i + 1 # p /\ Without(t)[i] = repo[i + 1]
        BY <2>3, <2>5, <3>2
      <4> QED BY <2>1, <4>1 DEF RepoInv
    <3> QED BY <3>1, <3>2
  <2>7. \A i \in DOMAIN Without(t) : \/ i \in DOMAIN repo /\ Without(t)[i] = repo[i]
                                     \/ i + 1 \in DOMAIN repo /\ Without(t)[i] = repo[i + 1]
    BY <2>3, <2>4, <2>5
  <2>8. \A i, j \in DOMAIN Without(t) : Without(t)[i] = Without(t)[j] => i = j
    <3> SUFFICES ASSUME NEW i \in DOMAIN Without(t), NEW j \in DOMAIN Without(t), Without(t)[i] = Without(t)[j]
                 PROVE  i = j
      OBVIOUS
    <3> DEFINE from(k) == IF k < p THEN k ELSE k + 1
    <3>1. from(i) \in DOMAIN repo /\ from(j) \in DOMAIN repo
      BY <2>3, <2>4
    <3>2. Without(t)[i] = repo[from(i)] /\ Without(t)[j] = repo[from(j)]
      BY <2>4, <2>5
    <3>3. from(i) = from(j)
      BY <3>1, <3>2 DEF RepoInv
    <3> QED BY <2>3, <2>4, <3>3
  <2>9. ToSet(Without(t)) = ToSet(repo) \ {t}
    <3>1. ToSet(Without(t)) \subseteq ToSet(repo) \ {t}
      BY <2>6, <2>7 DEF ToSet
    <3>2. ASSUME NEW i \in DOMAIN repo, repo[i] # t
          PROVE  \E j \in DOMAIN Without(t) : Without(t)[j] = repo[i]
      <4>1. CASE i < p
        BY <2>3, <2>4, <2>5, <4>1
      <4>2. CASE i > p
        <5>1. i - 1 \in 1..(Len(repo) - 1) /\ ~(i - 1 < p) /\ (i - 1) + 1 = i
          BY <2>3, <4>2
        <5> QED BY <2>4, <2>5, <5>1
      <4> QED BY <2>1, <2>3, <3>2, <4>1, <4>2
    <3> QED BY <3>1, <3>2 DEF ToSet
  <2> QED BY <2>4, <2>6, <2>7, <2>8, <2>9
<1> QED BY <1>1, <1>2

\* A push moves no other tag towards the beginning of the list.
LEMMA PushedTag ==
    ASSUME repo \in Seq(Tags), RepoInv, NEW t \in Tags, repo' = <<t>> \o Without(t)
    PROVE  /\ repo' \in Seq(Tags)
           /\ RepoInv'
           /\ \A i \in DOMAIN repo' :
                 repo'[i] = t \/ \E j \in DOMAIN repo : j <= i /\ repo[j] = repo'[i]
           /\ ToSet(repo) \subseteq ToSet(repo')
<1> DEFINE rest == Without(t)
<1>1. /\ rest \in Seq(Tags)
      /\ \A i \in DOMAIN rest : /\ rest[i] # t
                                /\ \/ i \in DOMAIN repo /\ rest[i] = repo[i]
                                   \/ i + 1 \in DOMAIN repo /\ rest[i] = repo[i + 1]
      /\ \A i, j \in DOMAIN rest : rest[i] = rest[j] => i = j
      /\ ToSet(rest) = ToSet(repo) \ {t}
  BY WithoutTag
<1>2. repo' = <<t>> \o rest
  OBVIOUS
<1> HIDE DEF rest
<1> DEFINE first == <<t>>
<1>a. Len(rest) \in Nat /\ DOMAIN rest = 1..Len(rest) /\ first \in Seq(Tags) /\ Len(first) = 1 /\ first[1] = t
  BY <1>1
<1>c. repo' = first \o rest
  BY <1>2
<1> HIDE DEF first
<1>b. /\ repo' \in Seq(Tags) /\ Len(repo') = 1 + Len(rest)
      /\ \A i \in 1..(1 + Len(rest)) : repo'[i] = IF i <= 1 THEN first[i] ELSE rest[i - 1]
  <2>1. /\ first \o rest \in Seq(Tags) /\ Len(first \o rest) = Len(first) + Len(rest)
        /\ \A i \in 1..(Len(first) + Len(rest)) : (first \o rest)[i] =
               IF i <= Len(first) THEN first[i] ELSE rest[i - Len(first)]
    <3>1. first \in Seq(Tags) /\ rest \in Seq(Tags)
      BY <1>1, <1>a
    <3> QED BY <3>1, ConcatProperties, Zenon
  <2> QED BY <1>a, <1>c, <2>1
<1>3. repo' \in Seq(Tags) /\ DOMAIN repo' = 1..(Len(rest) + 1) /\ repo'[1] = t
  BY <1>a, <1>b
<1>4. \A i \in DOMAIN rest : i + 1 \in DOMAIN repo' /\ repo'[i + 1] = rest[i]
  BY <1>a, <1>b
<1>5. \A i \in DOMAIN repo' : i = 1 \/ (i - 1 \in DOMAIN rest /\ repo'[i] = rest[i - 1])
  BY <1>a, <1>b
<1>6. RepoInv'
  BY <1>1, <1>a, <1>3, <1>5 DEF RepoInv
<1>7. ASSUME NEW i \in DOMAIN repo', repo'[i] # t
      PROVE  \E j \in DOMAIN repo : j <= i /\ repo[j] = repo'[i]
  <2>1. i - 1 \in DOMAIN rest /\ repo'[i] = rest[i - 1]
    BY <1>3, <1>5, <1>7
  <2>2. CASE i - 1 \in DOMAIN repo /\ rest[i - 1] = repo[i - 1]
    BY <1>a, <1>3, <2>1, <2>2
  <2>3. CASE (i - 1) + 1 \in DOMAIN repo /\ rest[i - 1] = repo[(i - 1) + 1]
    BY <1>a, <1>3, <2>1, <2>3
  <2> QED BY <1>1, <2>1, <2>2, <2>3
<1>8. ToSet(repo) \subseteq ToSet(repo')
  <2>1. ToSet(rest) \subseteq ToSet(repo')
    BY <1>3, <1>4 DEF ToSet
  <2>2. t \in ToSet(repo')
    <3>1. 1 \in DOMAIN repo'
      BY <1>a, <1>3
    <3> QED BY <1>3, <3>1 DEF ToSet
  <2> QED BY <1>1, <2>1, <2>2
<1> QED BY <1>3, <1>6, <1>7, <1>8

\* An entry of a page shows a tag as it is.
Shows(e, t) == e.name = t /\ (e.isOld <=> t \in old)

\* A page has the tags of its part of the list, with their ages.
LEMMA PageTags ==
    ASSUME repo \in Seq(Tags), NEW p \in Nat \ {0}
    PROVE  /\ TagsOnPage(p) \in Seq(Entry)
           /\ \A j \in DOMAIN TagsOnPage(p) : \E i \in DOMAIN repo :
                 Shows(TagsOnPage(p)[j], repo[i])
           /\ \A i \in DOMAIN repo : (p - 1) * PageSize < i /\ i <= p * PageSize =>
                 \E j \in DOMAIN TagsOnPage(p) :
                    Shows(TagsOnPage(p)[j], repo[i])
<1> DEFINE low == (p - 1) * PageSize
           high == IF p * PageSize <= Len(repo) THEN p * PageSize ELSE Len(repo)
           tags == SubSeq(repo, low + 1, high)
<1>1. low \in Nat /\ high \in Nat /\ high <= Len(repo) /\ Len(repo) \in Nat /\ p * PageSize \in Nat
      /\ p * PageSize = low + PageSize
  BY PageAssumption
<1>2. TagsOnPage(p) = [i \in 1..Len(tags) |-> [name |-> tags[i], isOld |-> tags[i] \in old]]
  BY DEF TagsOnPage
<1>3. \A i \in DOMAIN repo : low < i /\ i <= p * PageSize => i <= high
  BY <1>1
<1> HIDE DEF low, high
<1>4. /\ tags \in Seq(Tags)
      /\ Len(tags) = IF low + 1 <= high THEN high - (low + 1) + 1 ELSE 0
      /\ \A i \in 1..(high - (low + 1) + 1) : tags[i] = repo[(low + 1) + i - 1]
  <2>1. low + 1 \in Int /\ high \in Int /\ \A i \in (low + 1)..high : repo[i] \in Tags
    BY <1>1
  <2> QED BY <2>1, SubSeqProperties
<1> HIDE DEF tags
<1>5. Len(tags) \in Nat /\ \A i \in 1..Len(tags) : low + i \in DOMAIN repo /\ tags[i] = repo[low + i]
  <2>1. Len(tags) \in Nat /\ \A i \in 1..Len(tags) : /\ i \in 1..(high - (low + 1) + 1)
                                                    /\ (low + 1) + i - 1 = low + i
                                                    /\ low + i \in 1..Len(repo)
    BY <1>1, <1>4
  <2> QED BY <1>4, <2>1
<1>6. \A i \in DOMAIN repo : low < i /\ i <= p * PageSize => i - low \in 1..Len(tags) /\ low + (i - low) = i
  BY <1>1, <1>3, <1>4
<1>7. TagsOnPage(p) \in Seq(Entry) /\ DOMAIN TagsOnPage(p) = 1..Len(tags)
  <2>1. \A i \in 1..Len(tags) : [name |-> tags[i], isOld |-> tags[i] \in old] \in Entry
    BY <1>4 DEF Entry
  <2> QED BY <1>2, <1>5, <2>1
<1>8. \A i \in 1..Len(tags) : Shows(TagsOnPage(p)[i], repo[low + i])
  <2> SUFFICES ASSUME NEW i \in 1..Len(tags) PROVE Shows(TagsOnPage(p)[i], tags[i])
    BY <1>5
  <2>1. TagsOnPage(p)[i] = [name |-> tags[i], isOld |-> tags[i] \in old]
    BY <1>2
  <2>2. TagsOnPage(p)[i].name = tags[i] /\ TagsOnPage(p)[i].isOld = (tags[i] \in old)
    BY <2>1
  <2> QED BY <2>2 DEF Shows
<1>9. \A i \in DOMAIN repo : low < i /\ i <= p * PageSize =>
         \E j \in DOMAIN TagsOnPage(p) : Shows(TagsOnPage(p)[j], repo[i])
  <2> SUFFICES ASSUME NEW i \in DOMAIN repo, low < i, i <= p * PageSize
               PROVE  \E j \in DOMAIN TagsOnPage(p) :
                         Shows(TagsOnPage(p)[j], repo[i])
    OBVIOUS
  <2>1. i - low \in 1..Len(tags) /\ low + (i - low) = i
    BY <1>6
  <2>2. Shows(TagsOnPage(p)[i - low], repo[i])
    BY <1>8, <2>1
  <2> QED BY <1>7, <2>1, <2>2
<1> QED BY <1>5, <1>7, <1>8, <1>9 DEF low

-----------------------------------------------------------------------------
(* The steps.                                                              *)

\* The workers begin at the first Workers indexes.
LEMMA InitStride ==
    ASSUME idx = [w \in W |-> w], handled = {}, pc = "list"
    PROVE  StrideInv
<1> USE WorkersAssumption
<1>1. \A w \in W : idx[w] = w /\ w \in 1..Workers
  BY DEF W
<1>2. ASSUME NEW i \in Nat \ {0}
      PROVE  \E w \in W : Ahead(w, i)
  BY <1>1, Spread DEF Ahead, W
<1>3. ASSUME NEW i \in Nat \ {0}, NEW v \in W, NEW w \in W, Ahead(v, i), Ahead(w, i)
      PROVE  v = w
  <2>1. PICK k \in Nat : i = v + Workers * k
    BY <1>1, <1>3 DEF Ahead
  <2>2. PICK l \in Nat : i = w + Workers * l
    BY <1>1, <1>3 DEF Ahead
  <2> QED BY <1>1, <2>1, <2>2, Apart
<1> QED BY <1>2, <1>3 DEF StrideInv

\* A worker handles its next index and goes one stride further.
LEMMA StepStride ==
    ASSUME TypeOK, StrideInv, NEW w \in W, pc = "work", UNCHANGED <<pc, allTags>>,
           handled' = handled \cup {idx[w]}, idx' = [idx EXCEPT ![w] = @ + Workers]
    PROVE  StrideInv'
<1> USE WorkersAssumption
<1>0. idx \in [W -> Nat \ {0}]
  BY DEF TypeOK
<1>1. \A v \in W : idx'[v] = IF v = w THEN idx[w] + Workers ELSE idx[v]
  BY <1>0
<1>2. ASSUME NEW i \in Nat \ {0}
      PROVE  Ahead(w, i) <=> (i = idx[w] \/ Ahead(w, i)')
  <2>1. ASSUME NEW k \in Nat, i = idx[w] + Workers * k, i # idx[w]
        PROVE  Ahead(w, i)'
    <3>1. PICK l \in Nat : k = l + 1
      <4>1. k # 0
        BY <1>0, <2>1
      <4>2. k - 1 \in Nat /\ k = (k - 1) + 1
        BY <4>1
      <4> QED BY <4>2
    <3>2. i = idx'[w] + Workers * l
      BY <1>0, <1>1, <2>1, <3>1, Stride
    <3> QED BY <3>2 DEF Ahead
  <2>2. ASSUME NEW k \in Nat, i = idx'[w] + Workers * k
        PROVE  Ahead(w, i)
    <3>1. i = idx[w] + Workers * (k + 1) /\ k + 1 \in Nat
      BY <1>0, <1>1, <2>2, Stride
    <3> QED BY <3>1 DEF Ahead
  <2>3. idx[w] = idx[w] + Workers * 0
    BY <1>0
  <2> QED BY <2>1, <2>2, <2>3 DEF Ahead
<1>3. ASSUME NEW i \in Nat \ {0}, NEW v \in W, v # w
      PROVE  Ahead(v, i) <=> Ahead(v, i)'
  BY <1>1, <1>3 DEF Ahead
<1>4. ASSUME NEW i \in Nat \ {0}
      PROVE  Ahead(w, i)' => i # idx[w]
  <2> SUFFICES ASSUME NEW k \in Nat, i = idx'[w] + Workers * k PROVE i # idx[w]
    BY DEF Ahead
  <2> QED BY <1>0, <1>1, Stride
<1>5. idx[w] \in Nat \ {0} /\ Ahead(w, idx[w])
  BY <1>0, <1>2
<1>6. ASSUME NEW i \in Nat \ {0}
      PROVE  i \in handled' \/ \E v \in W : Ahead(v, i)'
  BY <1>2, <1>3 DEF StrideInv
<1>7. ASSUME NEW i \in Nat \ {0}, NEW v \in W, Ahead(v, i)'
      PROVE  i \notin handled'
  <2>1. Ahead(v, i) /\ i \notin handled
    BY <1>2, <1>3, <1>7 DEF StrideInv
  <2>2. i # idx[w]
    BY <1>4, <1>5, <1>7, <2>1 DEF StrideInv
  <2> QED BY <2>1, <2>2
<1>8. ASSUME NEW i \in Nat \ {0}, NEW u \in W, NEW v \in W, Ahead(u, i)', Ahead(v, i)'
      PROVE  u = v
  BY <1>2, <1>3, <1>8 DEF StrideInv
<1> QED BY <1>6, <1>7, <1>8 DEF StrideInv

\* Whoever deletes a tag: it is gone, and what is left of the tags listed as old
\* is old still or was pushed again.
LEMMA DeletedTag ==
    ASSUME IInv, NEW t, repo' = Without(t), old' = old \ {t}, UNCHANGED allTags,
           repushed' = repushed \ {t}
    PROVE  /\ repo' \in Seq(Tags) /\ old' \in SUBSET Tags /\ repushed' \in SUBSET Tags
           /\ ToSet(repo') = ToSet(repo) \ {t}
           /\ RepoInv'
           /\ AgeInv'
<1>1. repo' \in Seq(Tags) /\ RepoInv' /\ ToSet(repo') = ToSet(repo) \ {t}
  BY WithoutTag DEF IInv, TypeOK, RepoInv
<1>2. AgeInv'
  BY <1>1 DEF IInv, AgeInv
<1> QED BY <1>1, <1>2 DEF IInv, TypeOK

\* A page is read: it has the old tags between the last page and the next.
LEMMA ListPageIInv ==
    ASSUME IInv, ListPage
    PROVE  IInv'
<1> USE DEF IInv
<1>0. /\ pc = "list" /\ page' = page + 1 /\ allTags' = allTags \o TagsOnPage(page)
      /\ pc' \in {"list", "work"} /\ (pc' = "work" => Len(repo) <= page * PageSize)
      /\ UNCHANGED <<repo, old, errors, idx, workerErrors, result, handled, repushed, pushes, removals>>
  <2>1. Len(repo) \in Nat /\ page * PageSize \in Nat
    BY PageAssumption DEF TypeOK
  <2> QED BY <2>1 DEF ListPage, HasAdditional
<1>1. /\ page \in Nat \ {0} /\ repo \in Seq(Tags) /\ allTags \in Seq(Entry) /\ handled = {}
      /\ TagsOnPage(page) \in Seq(Entry)
  BY <1>0, PageTags DEF TypeOK, StrideInv, Entry
<1>2. /\ allTags' \in Seq(Entry)
      /\ Len(allTags') = Len(allTags) + Len(TagsOnPage(page))
      /\ \A j \in 1..(Len(allTags) + Len(TagsOnPage(page))) : allTags'[j] =
            IF j <= Len(allTags) THEN allTags[j] ELSE TagsOnPage(page)[j - Len(allTags)]
  <2>1. allTags \in Seq(Entry) /\ TagsOnPage(page) \in Seq(Entry)
    BY <1>1
  <2>2. /\ allTags \o TagsOnPage(page) \in Seq(Entry)
        /\ Len(allTags \o TagsOnPage(page)) = Len(allTags) + Len(TagsOnPage(page))
        /\ \A j \in 1..(Len(allTags) + Len(TagsOnPage(page))) : (allTags \o TagsOnPage(page))[j] =
              IF j <= Len(allTags) THEN allTags[j] ELSE TagsOnPage(page)[j - Len(allTags)]
    BY <2>1, ConcatProperties, Zenon
  <2> QED BY <1>0, <2>2
<1>3. Len(allTags) \in Nat /\ DOMAIN allTags = 1..Len(allTags) /\ Len(TagsOnPage(page)) \in Nat
      /\ DOMAIN TagsOnPage(page) = 1..Len(TagsOnPage(page)) /\ DOMAIN allTags' = 1..Len(allTags')
  BY <1>1, <1>2
<1>4. \A j \in DOMAIN allTags : j \in DOMAIN allTags' /\ allTags'[j] = allTags[j]
  BY <1>2, <1>3
<1>5. \A j \in DOMAIN TagsOnPage(page) :
         Len(allTags) + j \in DOMAIN allTags' /\ allTags'[Len(allTags) + j] = TagsOnPage(page)[j]
  <2> SUFFICES ASSUME NEW j \in DOMAIN TagsOnPage(page)
               PROVE  /\ Len(allTags) + j \in DOMAIN allTags'
                      /\ allTags'[Len(allTags) + j] = TagsOnPage(page)[j]
    OBVIOUS
  <2>1. /\ Len(allTags) + j \in 1..(Len(allTags) + Len(TagsOnPage(page)))
        /\ ~(Len(allTags) + j <= Len(allTags)) /\ Len(allTags) + j - Len(allTags) = j
    BY <1>3
  <2> QED BY <1>2, <1>3, <2>1
<1>6. \A j \in DOMAIN allTags' :
         \/ j \in DOMAIN allTags /\ allTags'[j] = allTags[j]
         \/ \E i \in DOMAIN repo : Shows(allTags'[j], repo[i])
  <2> SUFFICES ASSUME NEW j \in DOMAIN allTags', ~(j <= Len(allTags))
               PROVE  \E i \in DOMAIN repo : Shows(allTags'[j], repo[i])
    BY <1>2, <1>3
  <2>1. j - Len(allTags) \in DOMAIN TagsOnPage(page) /\ allTags'[j] = TagsOnPage(page)[j - Len(allTags)]
    BY <1>2, <1>3
  <2> QED BY <1>1, <2>1, PageTags
<1>7. TypeOK'
  BY <1>0, <1>1, <1>2 DEF TypeOK, Entry
<1>8. StrideInv'
  BY <1>0, <1>1 DEF StrideInv, Ahead
<1>9. ListedInv'
  <2> SUFFICES ASSUME errors = 0, removals = 0, NEW i \in DOMAIN repo, repo[i] \in old,
                      pc' = "list" => i <= page * PageSize
               PROVE  Listed(repo[i])'
    <3>1. (page' - 1) * PageSize = page * PageSize
      BY <1>0, <1>1
    <3> QED BY <1>0, <3>1 DEF ListedInv
  <2>1. i <= page * PageSize
    <3>1. page * PageSize \in Nat /\ Len(repo) \in Nat /\ i \in 1..Len(repo)
      BY <1>1, PageAssumption
    <3> QED BY <1>0, <3>1
  <2>2. CASE i <= (page - 1) * PageSize
    <3>1. Listed(repo[i])
      BY <1>0, <2>2 DEF ListedInv
    <3> QED BY <1>0, <1>4, <3>1 DEF Listed
  <2>3. CASE ~(i <= (page - 1) * PageSize)
    <3>1. (page - 1) * PageSize < i
      <4>1. (page - 1) * PageSize \in Nat /\ i \in Nat
        BY <1>1, PageAssumption
      <4> QED BY <2>3, <4>1
    <3>2. PICK j \in DOMAIN TagsOnPage(page) :
             Shows(TagsOnPage(page)[j], repo[i])
      BY <1>1, <2>1, <3>1, PageTags
    <3>3. allTags'[Len(allTags) + j].name = repo[i] /\ allTags'[Len(allTags) + j].isOld
      BY <1>5, <3>2 DEF Shows
    <3> QED BY <1>0, <1>5, <3>3 DEF Listed
  <2> QED BY <2>2, <2>3
<1>10. ClearedInv'
  BY <1>0, <1>1 DEF ClearedInv
<1>11. AgeInv'
  BY <1>0, <1>6 DEF AgeInv, Shows
<1>12. RepoInv' /\ ResultInv'
  BY <1>0 DEF RepoInv, ResultInv
<1> QED BY <1>7, <1>8, <1>9, <1>10, <1>11, <1>12

\* A page fails: the old tags on it are not listed, but the error is.
LEMMA ListPageErrorIInv ==
    ASSUME IInv, ListPageError
    PROVE  IInv'
<1> USE DEF IInv
<1>0. /\ pc = "list" /\ page' = page + 1 /\ errors' = errors + 1
      /\ UNCHANGED <<repo, old, pc, allTags, idx, workerErrors, result, handled, repushed, pushes, removals>>
  BY DEF ListPageError
<1>1. TypeOK' /\ errors' # 0
  BY <1>0 DEF TypeOK
<1>2. StrideInv' /\ RepoInv' /\ ListedInv' /\ ClearedInv' /\ AgeInv' /\ ResultInv'
  BY <1>0, <1>1 DEF StrideInv, Ahead, RepoInv, ListedInv, ClearedInv, AgeInv, ResultInv
<1> QED BY <1>1, <1>2

\* A worker passes a young tag, deletes an old one, or fails to.
LEMMA HandleTagIInv ==
    ASSUME IInv, NEW w \in W, HandleTag(w)
    PROVE  IInv'
<1> USE DEF IInv
<1> DEFINE e == allTags[idx[w]]
<1>0. /\ pc = "work" /\ idx[w] <= Len(allTags) /\ handled' = handled \cup {idx[w]}
      /\ idx' = [idx EXCEPT ![w] = @ + Workers]
      /\ UNCHANGED <<pc, page, allTags, errors, result, pushes, removals>>
  BY DEF HandleTag
<1>1. /\ idx \in [W -> Nat \ {0}] /\ allTags \in Seq(Entry) /\ idx[w] \in 1..Len(allTags)
      /\ DOMAIN allTags = 1..Len(allTags) /\ e \in Entry
  <2>1. idx \in [W -> Nat \ {0}] /\ allTags \in Seq(Entry)
    BY DEF TypeOK, Entry
  <2>2. idx[w] \in 1..Len(allTags) /\ DOMAIN allTags = 1..Len(allTags)
    BY <1>0, <2>1
  <2> QED BY <2>1, <2>2
<1>2. StrideInv'
  BY <1>0, StepStride
<1>3. idx' \in [W -> Nat \ {0}] /\ handled' \in SUBSET (1..Len(allTags'))
  <2>1. idx[w] + Workers \in Nat \ {0}
    BY <1>1, WorkersAssumption
  <2>2. idx' = [idx EXCEPT ![w] = idx[w] + Workers]
    BY <1>0, <1>1
  <2>3. handled \in SUBSET (1..Len(allTags))
    BY DEF TypeOK
  <2> QED BY <1>0, <1>1, <2>1, <2>2, <2>3
<1>4. ResultInv'
  BY <1>0 DEF ResultInv
<1>5. CASE ~e.isOld /\ UNCHANGED <<repo, old, repushed, workerErrors>>
  <2>1. TypeOK'
    BY <1>0, <1>3, <1>5 DEF TypeOK
  <2>2. RepoInv' /\ ListedInv' /\ AgeInv'
    BY <1>0, <1>5 DEF RepoInv, ListedInv, Listed, AgeInv
  <2>3. ClearedInv'
    BY <1>0, <1>5 DEF ClearedInv
  <2> QED BY <1>2, <1>4, <2>1, <2>2, <2>3
<1>6. CASE e.isOld /\ repo' = Without(e.name) /\ old' = old \ {e.name}
           /\ repushed' = repushed \ {e.name} /\ UNCHANGED workerErrors
  <2>1. /\ repo' \in Seq(Tags) /\ old' \in SUBSET Tags /\ repushed' \in SUBSET Tags
        /\ ToSet(repo') = ToSet(repo) \ {e.name}
        /\ RepoInv' /\ AgeInv'
    BY <1>0, <1>6, DeletedTag
  <2>2. TypeOK'
    BY <1>0, <1>3, <1>6, <2>1 DEF TypeOK
  <2>3. ListedInv'
    <3> SUFFICES ASSUME errors = 0, removals = 0, NEW i \in DOMAIN repo', repo'[i] \in old'
                 PROVE  \E j \in DOMAIN allTags' : allTags'[j].name = repo'[i] /\ allTags'[j].isOld
      BY <1>0 DEF ListedInv, Listed
    <3>1. repo'[i] \in ToSet(repo)
      BY <2>1 DEF ToSet
    <3>2. Listed(repo'[i])
      BY <1>0, <1>6, <3>1 DEF ListedInv, ToSet
    <3> QED BY <1>0, <3>2 DEF Listed
  <2>4. ClearedInv'
    BY <1>0, <1>6 DEF ClearedInv
  <2> QED BY <1>2, <1>4, <2>1, <2>2, <2>3, <2>4
<1>7. CASE e.isOld /\ workerErrors' = [workerErrors EXCEPT ![w] = @ + 1] /\ UNCHANGED <<repo, old, repushed>>
  <2>1. workerErrors' \in [W -> Nat] /\ workerErrors'[w] # 0
    BY <1>7 DEF TypeOK
  <2>2. TypeOK'
    BY <1>0, <1>3, <1>7, <2>1 DEF TypeOK
  <2>3. RepoInv' /\ ListedInv' /\ AgeInv'
    BY <1>0, <1>7 DEF RepoInv, ListedInv, Listed, AgeInv
  <2>4. ClearedInv'
    BY <2>1 DEF ClearedInv
  <2> QED BY <1>2, <1>4, <2>2, <2>3, <2>4
<1> QED BY <1>5, <1>6, <1>7 DEF HandleTag

\* All workers have returned.
LEMMA FinishIInv ==
    ASSUME IInv, Finish
    PROVE  IInv'
<1> USE DEF IInv
<1>0. /\ pc = "work" /\ pc' = "done" /\ (\A w \in W : idx[w] > Len(allTags))
      /\ result' \in {"nil", "error"} /\ (result' = "nil" => errors = 0)
      /\ UNCHANGED <<repo, old, page, allTags, errors, idx, workerErrors, handled, repushed, pushes, removals>>
  BY DEF Finish
<1>1. TypeOK'
  BY <1>0 DEF TypeOK
<1>2. StrideInv'
  BY <1>0 DEF StrideInv, Ahead
<1>3. RepoInv' /\ ListedInv' /\ ClearedInv' /\ AgeInv' /\ ResultInv'
  BY <1>0 DEF RepoInv, ListedInv, Listed, ClearedInv, AgeInv, ResultInv
<1> QED BY <1>1, <1>2, <1>3

\* A push while the pages are read: what was on a page that was read and is old
\* still has been listed, for the push moved it on, if at all.
LEMMA PushTagIInv ==
    ASSUME IInv, NEW t \in Tags, PushTag(t)
    PROVE  IInv'
<1> USE DEF IInv
<1>0. /\ pushes < MaxPushes /\ pushes' = pushes + 1 /\ repo' = <<t>> \o Without(t) /\ old' = old \ {t}
      /\ repushed' = IF \E i \in DOMAIN allTags : allTags[i].name = t THEN repushed \cup {t} ELSE repushed
      /\ UNCHANGED <<pc, page, allTags, errors, idx, workerErrors, result, handled, removals>>
  BY DEF PushTag
<1>1. repo \in Seq(Tags) /\ RepoInv
  BY DEF TypeOK
<1>2. /\ repo' \in Seq(Tags) /\ RepoInv'
      /\ \A i \in DOMAIN repo' :
            repo'[i] = t \/ \E j \in DOMAIN repo : j <= i /\ repo[j] = repo'[i]
      /\ repushed' \in SUBSET Tags
  BY <1>0, <1>1, PushedTag DEF TypeOK
<1>3. pushes' \in 0..MaxPushes /\ pushes' # 0
  BY <1>0, BoundsAssumption DEF TypeOK
<1>4. TypeOK'
  BY <1>0, <1>2, <1>3 DEF TypeOK
<1>5. StrideInv' /\ ClearedInv' /\ ResultInv'
  BY <1>0, <1>3 DEF StrideInv, Ahead, ClearedInv, ResultInv
<1>7. AgeInv'
  <2> SUFFICES ASSUME NEW j \in DOMAIN allTags, allTags[j].isOld, allTags[j].name \in ToSet(repo'),
                      allTags[j].name # t
               PROVE  allTags[j].name \in old' \cup repushed'
    BY <1>0 DEF AgeInv
  <2>1. allTags[j].name \in ToSet(repo)
    BY <1>2 DEF ToSet
  <2> QED BY <1>0, <2>1 DEF AgeInv
<1>6. ListedInv'
  <2> SUFFICES ASSUME errors = 0, removals = 0, NEW i \in DOMAIN repo', repo'[i] \in old',
                      pc = "list" => i <= (page - 1) * PageSize
               PROVE  \E j \in DOMAIN allTags' : allTags'[j].name = repo'[i] /\ allTags'[j].isOld
    BY <1>0 DEF ListedInv, Listed
  <2>1. PICK j \in DOMAIN repo : j <= i /\ repo[j] = repo'[i]
    BY <1>0, <1>2
  <2>2. pc = "list" => j <= (page - 1) * PageSize
    <3>1. i \in Nat /\ j \in Nat /\ (page - 1) * PageSize \in Nat
      BY <1>1, <1>2, PageAssumption DEF TypeOK
    <3> QED BY <2>1, <3>1
  <2>3. Listed(repo'[i])
    BY <1>0, <2>1, <2>2 DEF ListedInv
  <2> QED BY <1>0, <2>3 DEF Listed
<1> QED BY <1>2, <1>4, <1>5, <1>6, <1>7

\* A deletion by somebody else.
LEMMA RemoveTagIInv ==
    ASSUME IInv, NEW t \in Tags, RemoveTag(t)
    PROVE  IInv'
<1> USE DEF IInv
<1>0. /\ removals < MaxRemovals /\ removals' = removals + 1 /\ repo' = Without(t) /\ old' = old \ {t}
      /\ repushed' = repushed \ {t}
      /\ UNCHANGED <<pc, page, allTags, errors, idx, workerErrors, result, handled, pushes>>
  BY DEF RemoveTag
<1>1. repo' \in Seq(Tags) /\ old' \in SUBSET Tags /\ repushed' \in SUBSET Tags /\ RepoInv' /\ AgeInv'
  BY <1>0, DeletedTag
<1>2. removals' \in 0..MaxRemovals /\ removals' # 0
  BY <1>0, BoundsAssumption DEF TypeOK
<1>3. TypeOK'
  BY <1>0, <1>1, <1>2 DEF TypeOK
<1>4. StrideInv' /\ ListedInv' /\ ClearedInv' /\ ResultInv'
  BY <1>0, <1>2 DEF StrideInv, Ahead, ListedInv, ClearedInv, ResultInv
<1> QED BY <1>1, <1>3, <1>4

\* The invariant holds initially.
LEMMA InitIInv ==
    ASSUME Init
    PROVE  IInv
<1>1. TypeOK
  <2>1. idx \in [W -> Nat \ {0}] /\ workerErrors \in [W -> Nat]
    BY WorkersAssumption DEF Init, W
  <2> QED BY <2>1, TagsAssumption, BoundsAssumption DEF Init, TypeOK
<1>2. StrideInv
  BY InitStride DEF Init
<1>3. RepoInv
  BY NamesAssumption DEF Init, RepoInv
<1>4. ListedInv
  <2>1. (page - 1) * PageSize = 0
    BY PageAssumption DEF Init
  <2>2. \A i \in DOMAIN repo : i \in Nat \ {0}
    BY <1>1 DEF TypeOK
  <2> QED BY <2>1, <2>2 DEF Init, ListedInv
<1>5. ClearedInv /\ AgeInv /\ ResultInv
  BY DEF Init, ClearedInv, AgeInv, ResultInv
<1> QED BY <1>1, <1>2, <1>3, <1>4, <1>5 DEF IInv

\* Every step keeps it.
LEMMA NextIInv ==
    ASSUME IInv, [Next]_vars
    PROVE  IInv'
<1>1. CASE UNCHANGED vars
  BY <1>1 DEF vars, IInv, TypeOK, StrideInv, Ahead, RepoInv, ListedInv, Listed, ClearedInv, AgeInv, ResultInv
<1> QED BY <1>1, ListPageIInv, ListPageErrorIInv, HandleTagIInv, FinishIInv, PushTagIInv, RemoveTagIInv
        DEF Next, Cleanup

-----------------------------------------------------------------------------
(* The theorems.                                                           *)

\* The inductive invariant is an invariant of the specification.
THEOREM Invariance == Spec => []IInv
BY InitIInv, NextIInv, PTL DEF Spec

\* The variables of the cleanup and of the repository keep their types.
THEOREM TypeCorrect == Spec => []TypeOK
<1>1. IInv => TypeOK
  BY DEF IInv
<1> QED BY <1>1, Invariance, PTL

\* When cleanupQuayTags has returned, every entry of the list was handled.
LEMMA AllHandled ==
    ASSUME IInv, pc = "done"
    PROVE  handled = 1..Len(allTags)
<1>1. idx \in [W -> Nat \ {0}] /\ Len(allTags) \in Nat /\ handled \subseteq 1..Len(allTags)
  BY DEF IInv, TypeOK
<1>2. ASSUME NEW i \in 1..Len(allTags), NEW w \in W, NEW k \in Nat, i = idx[w] + Workers * k
      PROVE  FALSE
  <2>1. idx[w] > Len(allTags)
    BY DEF IInv, StrideInv
  <2>2. Workers * k \in Nat
    BY WorkersAssumption
  <2> QED BY <1>1, <1>2, <2>1, <2>2
<1>3. \A i \in 1..Len(allTags) : i \in handled
  BY <1>1, <1>2 DEF IInv, StrideInv, Ahead
<1> QED BY <1>1, <1>3

\* No two workers of cleanupQuayTags handle the same entry, and all entries are
\* handled when it returns, for every number of workers and of tags.
THEOREM WorkersShareTheList == Spec => []TagsHandledOnce
<1>1. IInv => TagsHandledOnce
  <2> SUFFICES ASSUME IInv PROVE TagsHandledOnce
    OBVIOUS
  <2>1. ASSUME NEW w \in W
        PROVE  idx[w] \notin handled
    <3>1. idx[w] \in Nat \ {0} /\ idx[w] = idx[w] + Workers * 0
      BY WorkersAssumption DEF IInv, TypeOK
    <3>2. Ahead(w, idx[w])
      BY <3>1 DEF Ahead
    <3> QED BY <3>1, <3>2 DEF IInv, StrideInv
  <2> QED BY <2>1, AllHandled DEF TagsHandledOnce
<1> QED BY <1>1, Invariance, PTL

\* A cleanup that returned nil, with no failed deletion and nobody else deleting,
\* has left no old tag, however pushes shifted the tags over the pages.
THEOREM NilMeansClean == Spec => []OldTagsGone
<1>1. IInv => OldTagsGone
  <2> SUFFICES ASSUME IInv, result = "nil", removals = 0, workerErrors = [w \in W |-> 0],
                      NEW i \in DOMAIN repo, repo[i] \in old
               PROVE  FALSE
    BY DEF OldTagsGone, ToSet
  <2>1. pc = "done" /\ errors = 0
    BY DEF IInv, ResultInv
  <2>2. PICK j \in DOMAIN allTags : allTags[j].name = repo[i] /\ allTags[j].isOld
    BY <2>1 DEF IInv, ListedInv, Listed
  <2>3. j \in handled
    BY <2>1, AllHandled DEF IInv, TypeOK
  <2> QED BY <2>2, <2>3 DEF IInv, ClearedInv
<1> QED BY <1>1, Invariance, PTL

\* A DeleteTag of cleanupQuayTags hits a young tag only if that tag was pushed after
\* it was listed, and once per push, although ages are read from a list made earlier
\* and pushes list some tags twice.
THEOREM OnlyOldTagsGo == Spec => YoungTagsKept
<1> DEFINE Kept == removals' = removals => ToSet(repo) \ ToSet(repo') \subseteq old \cup repushed
<1>1. IInv /\ [Next]_vars => [Kept]_vars
  <2> SUFFICES ASSUME IInv, Next, removals' = removals
               PROVE  ToSet(repo) \ ToSet(repo') \subseteq old \cup repushed
    OBVIOUS
  <2>1. repo \in Seq(Tags) /\ RepoInv
    BY DEF IInv, TypeOK
  <2>2. CASE UNCHANGED repo
    BY <2>2
  <2>3. CASE \E w \in W : HandleTag(w)
    <3>1. PICK w \in W : HandleTag(w)
      BY <2>3
    <3> DEFINE e == allTags[idx[w]]
    <3>2. CASE e.isOld /\ repo' = Without(e.name) /\ idx[w] <= Len(allTags)
      <4>1. idx[w] \in DOMAIN allTags
        BY <3>2 DEF IInv, TypeOK
      <4>2. e.name \in ToSet(repo) => e.name \in old \cup repushed
        BY <3>2, <4>1 DEF IInv, AgeInv
      <4>3. ToSet(repo') = ToSet(repo) \ {e.name}
        BY <2>1, <3>2, WithoutTag
      <4> QED BY <4>2, <4>3
    <3> QED BY <2>2, <3>1, <3>2 DEF HandleTag
  <2>4. CASE \E t \in Tags : PushTag(t)
    <3>1. PICK t \in Tags : repo' = <<t>> \o Without(t)
      BY <2>4 DEF PushTag
    <3> QED BY <2>1, <3>1, PushedTag
  <2>5. CASE \E t \in Tags : RemoveTag(t)
    BY <2>5 DEF RemoveTag, IInv, TypeOK
  <2> QED BY <2>2, <2>3, <2>4, <2>5 DEF Next, Cleanup, ListPage, ListPageError, Finish
<1>2. [][Kept]_vars => YoungTagsKept
  BY DEF YoungTagsKept
<1> QED BY <1>1, <1>2, Invariance, PTL DEF Spec
=============================================================================

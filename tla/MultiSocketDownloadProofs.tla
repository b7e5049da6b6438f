---------------------- MODULE MultiSocketDownloadProofs ---------------------
(***************************************************************************)
(* Theorems about MultiSocketDownload for any requesters, addresses,       *)
(* limits and numbers of stops and clears: the types, and where the        *)
(* requests of the worker are.                                             *)
(*                                                                         *)
(* The model counts the places of a request, and the proofs follow that    *)
(* count through every step. What makes it hard is that a page is not      *)
(* looked for by name: libcurl knows ids, ids lead through redirects to a  *)
(* first id, first ids lead to requesters that may be dead, and pauses and *)
(* resets name addresses that may be used again.                           *)
(***************************************************************************)

EXTENDS MultiSocketDownload, WellFoundedInduction, FiniteSetTheorems,
        SequenceTheorems, TLAPS

(***************************************************************************)
(* Numbers, and the chains of redirects: a request that is redirected is   *)
(* linked to the one before it, down to the request that has a requester.  *)
(***************************************************************************)

(* Some numbers have a least one: what stands in for induction here, as no *)
(* prover instantiates the library's rules.                                *)
LEMMA LeastNumber ==
  ASSUME NEW S \in SUBSET Nat, S # {}
  PROVE  \E n \in S : \A m \in S : n <= m
<1> DEFINE less == {pair \in Nat \X Nat : pair[1] < pair[2]}
<1>1. IsWellFoundedOn(less, Nat)
  BY NatLessThanWellFounded DEF OpToRel
<1>2. \A m, n \in Nat : <<m, n>> \in less <=> m < n
  OBVIOUS
<1> HIDE DEF less
<1>3. PICK n \in S : \A m \in S : <<m, n>> \notin less
  BY <1>1, WFMin
<1>4. ASSUME NEW m \in S PROVE n <= m
  <2>1. m \in Nat /\ n \in Nat /\ ~(m < n)
    BY <1>2, <1>3
  <2> QED
    BY <2>1
<1> QED
  BY <1>4

(* Links that lead from a request to one with a smaller id, as a           *)
(* redirect's do to what it was redirected from.                           *)
Falls(p) == \A i \in DOMAIN p : i \in Nat /\ p[i] \in 0..(i - 1)

(* Ancestry, for any links p.                                              *)
Chain(p, id) ==
  LET up[i \in Nat] == IF i \in DOMAIN p THEN {i} \cup up[p[i]] ELSE {i}
  IN  up[id]

(* The recursion of a chain has the solution it says: links fall, so that  *)
(* it ends.                                                                *)
LEMMA ChainUnfolds ==
  ASSUME NEW p, Falls(p), NEW i \in Nat
  PROVE  Chain(p, i) = IF i \in DOMAIN p THEN {i} \cup Chain(p, p[i]) ELSE {i}
<1> DEFINE Closed(S) == \A k \in S : k \in DOMAIN p => p[k] \in S
           C(j) == {k \in Nat : \A S \in SUBSET Nat : j \in S /\ Closed(S) => k \in S}
           Fits(f) == f = [j \in Nat |-> IF j \in DOMAIN p THEN {j} \cup f[p[j]] ELSE {j}]
           c == [j \in Nat |-> C(j)]
           up == CHOOSE f : Fits(f)
<1>1. \A j \in DOMAIN p : j \in Nat /\ p[j] \in Nat
  BY DEF Falls
<1>2. ASSUME NEW j \in Nat
      PROVE  C(j) = IF j \in DOMAIN p THEN {j} \cup C(p[j]) ELSE {j}
  <2>1. j \in C(j)
    OBVIOUS
  <2>2. CASE j \in DOMAIN p
    <3>1. p[j] \in Nat
      BY <1>1, <2>2
    <3>2. C(p[j]) \subseteq C(j)
      BY <2>2
    <3> DEFINE s == {j} \cup C(p[j])
    <3>3. s \in SUBSET Nat
      OBVIOUS
    <3>4. p[j] \in C(p[j])
      BY <3>1
    <3>5. ASSUME NEW k \in C(p[j]), k \in DOMAIN p PROVE p[k] \in C(p[j])
      BY <1>1, <3>5
    <3>6. Closed(s)
      BY <3>4, <3>5
    <3>7. C(j) \subseteq s
      BY <3>3, <3>6
    <3> QED
      BY <2>1, <2>2, <3>2, <3>7
  <2>3. CASE j \notin DOMAIN p
    <3>1. {j} \in SUBSET Nat /\ Closed({j})
      BY <2>3
    <3>2. C(j) \subseteq {j}
      BY <3>1
    <3> QED
      BY <2>1, <2>3, <3>2
  <2> QED
    BY <2>2, <2>3
<1> HIDE DEF C
<1>3. \A j \in Nat : c[j] = IF j \in DOMAIN p THEN {j} \cup c[p[j]] ELSE {j}
  BY <1>1, <1>2
<1>4. Fits(c)
  <2>1. c = [j \in Nat |-> c[j]]
    OBVIOUS
  <2> QED
    BY <1>3, <2>1
<1> HIDE DEF c
<1>5. Fits(up)
  BY <1>4
<1>6. Chain(p, i) = up[i] /\ (i \in DOMAIN p => Chain(p, p[i]) = up[p[i]])
  BY DEF Chain
<1> HIDE DEF up
<1> QED
  BY <1>5, <1>6

(* The first request of a chain.                                           *)
Root(p, id) ==
  IF id \in DOMAIN p THEN CHOOSE i \in Chain(p, id) : i \notin DOMAIN p ELSE id

(* A redirect has the root of the request it was redirected from.          *)
LEMMA RootUnfolds ==
  ASSUME NEW p, Falls(p), NEW i \in Nat
  PROVE  Root(p, i) = IF i \in DOMAIN p THEN Root(p, p[i]) ELSE i
<1>a. i \notin DOMAIN p => Root(p, i) = i
  BY DEF Root
<1> SUFFICES ASSUME i \in DOMAIN p PROVE Root(p, i) = Root(p, p[i])
  BY <1>a
<1>1. p[i] \in Nat
  BY DEF Falls
<1>2. Chain(p, i) = {i} \cup Chain(p, p[i])
  BY ChainUnfolds
<1>3. CASE p[i] \in DOMAIN p
  <2>1. \A k : (k \in Chain(p, i) /\ k \notin DOMAIN p) <=>
               (k \in Chain(p, p[i]) /\ k \notin DOMAIN p)
    BY <1>2
  <2>2. (CHOOSE k : k \in Chain(p, i) /\ k \notin DOMAIN p)
          = (CHOOSE k : k \in Chain(p, p[i]) /\ k \notin DOMAIN p)
    BY <2>1
  <2> QED
    BY <1>3, <2>2 DEF Root
<1>4. CASE p[i] \notin DOMAIN p
  <2>1. Chain(p, p[i]) = {p[i]}
    BY <1>1, <1>4, ChainUnfolds
  <2>2. Chain(p, i) = {i, p[i]}
    BY <1>2, <2>1
  <2>3. (CHOOSE k \in Chain(p, i) : k \notin DOMAIN p) = p[i]
    BY <1>4, <2>2
  <2> QED
    BY <1>4, <2>3 DEF Root
<1> QED
  BY <1>3, <1>4

(* Roots are where a chain ends, and no later than its requests.           *)
LEMMA RootEnds ==
  ASSUME NEW p, Falls(p), NEW i \in Nat
  PROVE  Root(p, i) \in 0..i /\ Root(p, i) \notin DOMAIN p
<1> DEFINE bad == {j \in Nat : ~(Root(p, j) \in 0..j /\ Root(p, j) \notin DOMAIN p)}
<1>1. CASE bad = {}
  BY <1>1
<1>2. CASE bad # {}
  <2>1. PICK j \in bad : \A k \in bad : j <= k
    BY <1>2, LeastNumber
  <2>2. j \in Nat /\ Root(p, j) = IF j \in DOMAIN p THEN Root(p, p[j]) ELSE j
    BY RootUnfolds
  <2>3. CASE j \in DOMAIN p
    <3>1. p[j] \in Nat /\ p[j] < j
      BY <2>3 DEF Falls
    <3>2. p[j] \notin bad
      BY <2>1, <2>2, <3>1
    <3> QED
      BY <2>1, <2>2, <2>3, <3>1, <3>2
  <2>4. CASE j \notin DOMAIN p
    BY <2>1, <2>2, <2>4
  <2> QED
    BY <2>3, <2>4
<1> QED
  BY <1>1, <1>2

(* All requests of a chain have the same root.                             *)
LEMMA RootShared ==
  ASSUME NEW p, Falls(p), NEW i \in Nat
  PROVE  \A k \in Chain(p, i) : k \in 0..i /\ Root(p, k) = Root(p, i)
<1> DEFINE bad == {j \in Nat : ~\A k \in Chain(p, j) : k \in 0..j /\ Root(p, k) = Root(p, j)}
<1>1. CASE bad = {}
  BY <1>1
<1>2. CASE bad # {}
  <2>1. PICK j \in bad : \A k \in bad : j <= k
    BY <1>2, LeastNumber
  <2>2. j \in Nat /\ Root(p, j) = IF j \in DOMAIN p THEN Root(p, p[j]) ELSE j
    BY RootUnfolds
  <2>3. Chain(p, j) = IF j \in DOMAIN p THEN {j} \cup Chain(p, p[j]) ELSE {j}
    BY <2>2, ChainUnfolds
  <2>4. CASE j \in DOMAIN p
    <3>1. p[j] \in Nat /\ p[j] < j
      BY <2>4 DEF Falls
    <3>2. p[j] \notin bad
      BY <2>1, <2>2, <3>1
    <3>3. \A k \in Chain(p, p[j]) : k \in 0..p[j] /\ Root(p, k) = Root(p, p[j])
      BY <3>1, <3>2
    <3>4. \A k \in Chain(p, j) : k \in 0..j /\ Root(p, k) = Root(p, j)
      BY <2>2, <2>3, <2>4, <3>1, <3>3
    <3> QED
      BY <2>1, <3>4
  <2>5. CASE j \notin DOMAIN p
    BY <2>1, <2>2, <2>3, <2>5
  <2> QED
    BY <2>4, <2>5
<1> QED
  BY <1>1, <1>2

(* A chain that grows by a redirect.                                       *)
LEMMA ExtendedRoots ==
  ASSUME NEW p, Falls(p), NEW c \in Nat, \A i \in DOMAIN p : i < c, NEW x \in 0..(c - 1)
  PROVE  /\ Falls(With(p, c, x))
         /\ \A i \in 0..(c - 1) : Root(With(p, c, x), i) = Root(p, i)
         /\ Root(With(p, c, x), c) = Root(p, x)
<1> DEFINE q == With(p, c, x)
           bad == {j \in Nat : j < c /\ Root(q, j) # Root(p, j)}
<1>1. /\ DOMAIN q = DOMAIN p \cup {c} /\ q[c] = x
      /\ \A i \in DOMAIN p : i # c /\ q[i] = p[i]
  BY DEF With
<1>2. Falls(q)
  BY <1>1 DEF Falls
<1> HIDE DEF q
<1>3. bad = {}
  <2> SUFFICES ASSUME bad # {} PROVE FALSE
    OBVIOUS
  <2>1. PICK j \in bad : \A k \in bad : j <= k
    BY LeastNumber
  <2>2. /\ j \in Nat /\ j < c /\ Root(q, j) # Root(p, j)
        /\ Root(p, j) = IF j \in DOMAIN p THEN Root(p, p[j]) ELSE j
        /\ Root(q, j) = IF j \in DOMAIN q THEN Root(q, q[j]) ELSE j
    BY <1>2, <2>1, RootUnfolds
  <2>3. j \in DOMAIN q <=> j \in DOMAIN p
    BY <1>1, <2>2
  <2>4. CASE j \in DOMAIN p
    <3>1. p[j] \in Nat /\ p[j] < j /\ q[j] = p[j]
      BY <1>1, <2>4 DEF Falls
    <3>2. p[j] \notin bad
      BY <2>1, <2>2, <3>1
    <3> QED
      BY <2>2, <2>3, <2>4, <3>1, <3>2
  <2> QED
    BY <2>2, <2>3, <2>4
<1>4. \A i \in 0..(c - 1) : Root(q, i) = Root(p, i)
  BY <1>3
<1>5. Root(q, c) = Root(q, x)
  BY <1>1, <1>2, RootUnfolds
<1> QED
  BY <1>2, <1>4, <1>5 DEF q

(* Chains from which links are taken: a request keeps its root, or comes   *)
(* to end where a link was taken.                                          *)
LEMMA CutRoots ==
  ASSUME NEW p, Falls(p), NEW S
  PROVE  /\ Falls(Without(p, S))
         /\ \A i \in Nat : \/ Root(Without(p, S), i) = Root(p, i)
                           \/ Root(Without(p, S), i) \in S \cap DOMAIN p
         /\ \A i \in Nat : Chain(p, i) \cap S = {} =>
                             Root(Without(p, S), i) = Root(p, i)
<1> DEFINE q == Without(p, S)
           lost == {j \in Nat : Root(q, j) # Root(p, j) /\ Root(q, j) \notin S \cap DOMAIN p}
           moved == {j \in Nat : Chain(p, j) \cap S = {} /\ Root(q, j) # Root(p, j)}
<1>1. DOMAIN q = DOMAIN p \ S /\ \A i \in DOMAIN q : q[i] = p[i]
  BY DEF Without
<1>2. Falls(q)
  BY <1>1 DEF Falls
<1> HIDE DEF q
<1>a. ASSUME NEW j \in Nat
      PROVE  /\ Root(p, j) = IF j \in DOMAIN p THEN Root(p, p[j]) ELSE j
             /\ Root(q, j) = IF j \in DOMAIN q THEN Root(q, p[j]) ELSE j
             /\ j \in DOMAIN p => p[j] \in Nat /\ p[j] < j
             /\ Chain(p, j) = IF j \in DOMAIN p THEN {j} \cup Chain(p, p[j]) ELSE {j}
  <2>1. /\ Root(p, j) = IF j \in DOMAIN p THEN Root(p, p[j]) ELSE j
        /\ Root(q, j) = IF j \in DOMAIN q THEN Root(q, q[j]) ELSE j
    BY <1>2, RootUnfolds
  <2>2. j \in DOMAIN p => p[j] \in Nat /\ p[j] < j
    BY DEF Falls
  <2>3. Chain(p, j) = IF j \in DOMAIN p THEN {j} \cup Chain(p, p[j]) ELSE {j}
    BY ChainUnfolds
  <2> QED
    BY <1>1, <2>1, <2>2, <2>3
<1>3. lost = {}
  <2> SUFFICES ASSUME lost # {} PROVE FALSE
    OBVIOUS
  <2>1. PICK j \in lost : \A k \in lost : j <= k
    BY LeastNumber
  <2>2. CASE j \in DOMAIN q
    <3>1. j \in DOMAIN p
      BY <1>1, <2>2
    <3>2. p[j] \notin lost
      BY <1>a, <2>1, <3>1
    <3> QED
      BY <1>a, <2>1, <2>2, <3>1, <3>2
  <2>3. CASE j \notin DOMAIN q
    BY <1>1, <1>a, <2>1, <2>3
  <2> QED
    BY <2>2, <2>3
<1>4. moved = {}
  <2> SUFFICES ASSUME moved # {} PROVE FALSE
    OBVIOUS
  <2>1. PICK j \in moved : \A k \in moved : j <= k
    BY LeastNumber
  <2>2. j \notin S
    BY <1>a, <2>1
  <2>3. j \in DOMAIN p /\ j \in DOMAIN q
    BY <1>1, <1>a, <2>1, <2>2
  <2>4. p[j] \notin moved
    BY <1>a, <2>1, <2>3
  <2> QED
    BY <1>a, <2>1, <2>3, <2>4
<1> QED
  BY <1>2, <1>3, <1>4 DEF q

(* Queues                                                                  *)

(***************************************************************************)
(* Queues: how often they hold elements of a kind.                         *)
(***************************************************************************)

(* How often a queue holds elements of a kind is a number, and none where  *)
(* none is.                                                                *)
LEMMA TimesFinite ==
  ASSUME NEW T, NEW q \in Seq(T), NEW kind
  PROVE  /\ IsFiniteSet({i \in DOMAIN q : q[i] \in kind}) /\ Times(q, kind) \in Nat
         /\ Times(q, kind) = 0 <=> \A i \in DOMAIN q : q[i] \notin kind
<1> DEFINE P == {i \in DOMAIN q : q[i] \in kind}
<1>1. Len(q) \in Nat /\ DOMAIN q = 1..Len(q)
  OBVIOUS
<1>2. IsFiniteSet(1..Len(q))
  BY <1>1, FS_Interval
<1>3. P \in SUBSET (1..Len(q))
  BY <1>1
<1>4. IsFiniteSet(P) /\ Cardinality(P) \in Nat /\ (P = {} <=> Cardinality(P) = 0)
  BY <1>2, <1>3, FS_Subset, FS_CardinalityType, FS_EmptySet
<1> QED
  BY <1>4 DEF Times

(* Two queues one after the other hold what both hold.                     *)
LEMMA TimesConcat ==
  ASSUME NEW T, NEW s \in Seq(T), NEW t \in Seq(T), NEW kind
  PROVE  Times(s \o t, kind) = Times(s, kind) + Times(t, kind)
<1> DEFINE c == s \o t
           P == {i \in DOMAIN s : s[i] \in kind}
           Q == {i \in DOMAIN t : t[i] \in kind}
           R == {Len(s) + i : i \in Q}
           W == {i \in DOMAIN c : c[i] \in kind}
           f == [i \in Q |-> Len(s) + i]
<1>1. /\ Len(s) \in Nat /\ DOMAIN s = 1..Len(s)
      /\ Len(t) \in Nat /\ DOMAIN t = 1..Len(t)
      /\ DOMAIN c = 1..(Len(s) + Len(t))
      /\ \A i \in 1..Len(s) : c[i] = s[i]
      /\ \A i \in 1..Len(t) : c[Len(s) + i] = t[i]
  OBVIOUS
<1> HIDE DEF c
<1>2. W = P \cup R
  <2>1. ASSUME NEW k \in W PROVE k \in P \cup R
    <3>1. CASE k <= Len(s)
      BY <1>1, <2>1, <3>1
    <3>2. CASE k > Len(s)
      <4>1. k - Len(s) \in Q /\ k = Len(s) + (k - Len(s))
        BY <1>1, <2>1, <3>2
      <4> QED
        BY <4>1
    <3> QED
      BY <1>1, <3>1, <3>2
  <2>2. P \subseteq W
    BY <1>1
  <2>3. ASSUME NEW i \in Q PROVE Len(s) + i \in W
    BY <1>1, <2>3
  <2> QED
    BY <2>1, <2>2, <2>3
<1>3. /\ IsFiniteSet(P) /\ Cardinality(P) \in Nat
      /\ IsFiniteSet(Q) /\ Cardinality(Q) \in Nat
  BY TimesFinite DEF Times
<1>4. ExistsBijection(Q, R)
  <2>1. f \in [Q -> R] /\ \A a, b \in Q : f[a] = f[b] => a = b
    BY <1>1
  <2>2. \A b \in R : \E a \in Q : f[a] = b
    OBVIOUS
  <2> QED
    BY <2>1, <2>2 DEF ExistsBijection, Bijection, Injection, Surjection, IsInjective
<1>5. IsFiniteSet(R) /\ Cardinality(R) = Cardinality(Q)
  BY <1>3, <1>4, FS_Bijection
<1>6. P \cap R = {}
  BY <1>1
<1> HIDE DEF P, Q, R, W
<1>7. Cardinality(P \cup R) = Cardinality(P) + Cardinality(R) - Cardinality(P \cap R)
  BY <1>3, <1>5, FS_Union, Zenon
<1>8. Cardinality(P \cap R) = 0
  BY <1>6, FS_EmptySet, Zenon
<1>9. Cardinality(W) = Cardinality(P) + Cardinality(Q)
  BY <1>2, <1>3, <1>5, <1>7, <1>8
<1> QED
  BY <1>9 DEF Times, c, P, Q, W

(* A queue of one element holds it once.                                   *)
LEMMA TimesSingle ==
  ASSUME NEW e, NEW kind
  PROVE  Times(<<e>>, kind) = IF e \in kind THEN 1 ELSE 0
<1> DEFINE P == {i \in DOMAIN <<e>> : <<e>>[i] \in kind}
<1>1. P = IF e \in kind THEN {1} ELSE {}
  OBVIOUS
<1>2. Cardinality({1}) = 1 /\ Cardinality({}) = 0
  BY FS_Singleton, FS_EmptySet
<1> HIDE DEF P
<1>3. Cardinality(P) = IF e \in kind THEN 1 ELSE 0
  BY <1>1, <1>2
<1> QED
  BY <1>3 DEF Times, P

(* What is appended counts, when it is of the kind.                        *)
LEMMA TimesAppend ==
  ASSUME NEW T, NEW q \in Seq(T), NEW e \in T, NEW kind
  PROVE  /\ Append(q, e) \in Seq(T) /\ Times(q, kind) \in Nat
         /\ Times(Append(q, e), kind) = Times(q, kind) + (IF e \in kind THEN 1 ELSE 0)
<1>1. Append(q, e) = q \o <<e>> /\ <<e>> \in Seq(T)
  OBVIOUS
<1>2. Times(q \o <<e>>, kind) = Times(q, kind) + Times(<<e>>, kind)
  BY <1>1, TimesConcat
<1>3. Times(<<e>>, kind) = IF e \in kind THEN 1 ELSE 0
  BY TimesSingle
<1>4. Times(q, kind) \in Nat
  BY TimesFinite
<1> QED
  BY <1>1, <1>2, <1>3, <1>4

(* So does what is taken from the front.                                   *)
LEMMA TimesTail ==
  ASSUME NEW T, NEW q \in Seq(T), q # <<>>, NEW kind
  PROVE  /\ Head(q) \in T /\ Tail(q) \in Seq(T) /\ Times(Tail(q), kind) \in Nat
         /\ Times(q, kind) = Times(Tail(q), kind) + (IF Head(q) \in kind THEN 1 ELSE 0)
<1>1. Head(q) \in T /\ Tail(q) \in Seq(T) /\ <<Head(q)>> \in Seq(T)
  OBVIOUS
<1>2. q = <<Head(q)>> \o Tail(q)
  OBVIOUS
<1>3. Times(<<Head(q)>> \o Tail(q), kind) = Times(<<Head(q)>>, kind) + Times(Tail(q), kind)
  BY <1>1, TimesConcat
<1>4. Times(Tail(q), kind) \in Nat
  BY <1>1, TimesFinite
<1>5. Times(<<Head(q)>>, kind) = IF Head(q) \in kind THEN 1 ELSE 0
  BY TimesSingle
<1> DEFINE h == Head(q)
           t == Tail(q)
<1> HIDE DEF h, t
<1>6. /\ Times(q, kind) = Times(<<h>>, kind) + Times(t, kind)
      /\ Times(<<h>>, kind) = IF h \in kind THEN 1 ELSE 0
      /\ Times(t, kind) \in Nat
  BY <1>2, <1>3, <1>4, <1>5 DEF h, t
<1>7. Times(q, kind) = Times(t, kind) + (IF h \in kind THEN 1 ELSE 0)
  BY <1>6
<1> QED
  BY <1>1, <1>4, <1>7 DEF h, t

(* So does what is taken from the end, as the dispatcher does.             *)
LEMMA TimesFront ==
  ASSUME NEW T, NEW q \in Seq(T), q # <<>>, NEW kind
  PROVE  /\ Last(q) \in T /\ Front(q) \in Seq(T) /\ Times(Front(q), kind) \in Nat
         /\ Times(q, kind) = Times(Front(q), kind) + (IF Last(q) \in kind THEN 1 ELSE 0)
<1>1. Len(q) \in Nat /\ Len(q) # 0
  OBVIOUS
<1>2. Last(q) \in T /\ Front(q) \in Seq(T)
  BY <1>1 DEF Last, Front
<1>3. q = Append(Front(q), Last(q))
  BY <1>1 DEF Last, Front
<1> DEFINE l == Last(q)
           f == Front(q)
<1> HIDE DEF l, f
<1>4. l \in T /\ f \in Seq(T) /\ q = Append(f, l)
  BY <1>2, <1>3 DEF l, f
<1>5. /\ Times(f, kind) \in Nat
      /\ Times(Append(f, l), kind) = Times(f, kind) + (IF l \in kind THEN 1 ELSE 0)
  BY <1>4, TimesAppend
<1> QED
  BY <1>4, <1>5 DEF l, f

(* So does what is taken from the middle, as extractFirstUnpausedRequester *)
(* does.                                                                   *)
LEMMA TimesRemoveAt ==
  ASSUME NEW T, NEW q \in Seq(T), NEW i \in DOMAIN q, NEW kind
  PROVE  /\ RemoveAt(q, i) \in Seq(T) /\ Times(RemoveAt(q, i), kind) \in Nat
         /\ Times(q, kind)
              = Times(RemoveAt(q, i), kind) + (IF q[i] \in kind THEN 1 ELSE 0)
<1> DEFINE s == SubSeq(q, 1, i - 1)
           t == SubSeq(q, i + 1, Len(q))
<1>1. Len(q) \in Nat /\ i \in 1..Len(q) /\ q[i] \in T /\ <<q[i]>> \in Seq(T)
  OBVIOUS
<1>2. s \in Seq(T) /\ t \in Seq(T)
  BY <1>1
<1>3. q = (s \o <<q[i]>>) \o t
  <2>1. /\ Len(s) = i - 1 /\ \A j \in 1..(i - 1) : s[j] = q[j]
        /\ Len(t) = Len(q) - i /\ \A j \in 1..(Len(q) - i) : t[j] = q[i + j]
    BY <1>1
  <2> HIDE DEF s, t
  <2> DEFINE a == s \o <<q[i]>>
             c == a \o t
  <2>2. /\ a \in Seq(T) /\ Len(a) = i /\ a[i] = q[i]
        /\ \A j \in 1..(i - 1) : a[j] = s[j]
    <3>1. \A x \in Seq(T), y \in T :
            /\ x \o <<y>> \in Seq(T) /\ Len(x \o <<y>>) = Len(x) + 1
            /\ (x \o <<y>>)[Len(x) + 1] = y
            /\ \A j \in 1..Len(x) : (x \o <<y>>)[j] = x[j]
      OBVIOUS
    <3>2. Len(s) + 1 = i /\ Len(s) = i - 1
      BY <1>1, <2>1
    <3>3. /\ a \in Seq(T) /\ Len(a) = Len(s) + 1 /\ a[Len(s) + 1] = q[i]
          /\ \A j \in 1..Len(s) : a[j] = s[j]
      BY <1>1, <1>2, <3>1
    <3> HIDE DEF a
    <3> QED
      BY <3>2, <3>3
  <2> HIDE DEF a
  <2>3. /\ c \in Seq(T) /\ Len(c) = Len(q)
        /\ \A j \in 1..i : c[j] = a[j]
        /\ \A j \in 1..(Len(q) - i) : c[i + j] = t[j]
    BY <1>1, <1>2, <2>1, <2>2
  <2> HIDE DEF c
  <2>4. ASSUME NEW k \in 1..Len(q) PROVE c[k] = q[k]
    <3>1. CASE k < i
      BY <1>1, <2>1, <2>2, <2>3, <3>1
    <3>2. CASE k = i
      BY <1>1, <2>2, <2>3, <3>2
    <3>3. CASE k > i
      <4>1. k - i \in 1..(Len(q) - i) /\ i + (k - i) = k
        BY <1>1, <3>3
      <4> QED
        BY <2>1, <2>3, <4>1
    <3> QED
      BY <1>1, <3>1, <3>2, <3>3
  <2>5. q = c
    BY <2>3, <2>4, SeqEqual
  <2> QED
    BY <2>5 DEF c, a
<1>4. RemoveAt(q, i) = s \o t /\ s \o t \in Seq(T) /\ s \o <<q[i]>> \in Seq(T)
  BY <1>1, <1>2 DEF RemoveAt
<1> HIDE DEF s, t
<1>5. /\ Times((s \o <<q[i]>>) \o t, kind) = Times(s \o <<q[i]>>, kind) + Times(t, kind)
      /\ Times(s \o <<q[i]>>, kind) = Times(s, kind) + Times(<<q[i]>>, kind)
      /\ Times(s \o t, kind) = Times(s, kind) + Times(t, kind)
  BY <1>1, <1>2, <1>4, TimesConcat
<1>6. Times(s, kind) \in Nat /\ Times(t, kind) \in Nat
  BY <1>2, TimesFinite
<1>7. Times(<<q[i]>>, kind) = IF q[i] \in kind THEN 1 ELSE 0
  BY TimesSingle
<1> DEFINE e == q[i]
           r == RemoveAt(q, i)
<1> HIDE DEF e, r
<1>8. /\ Times(q, kind) = Times(s, kind) + Times(<<e>>, kind) + Times(t, kind)
      /\ Times(<<e>>, kind) = IF e \in kind THEN 1 ELSE 0
      /\ Times(r, kind) = Times(s, kind) + Times(t, kind)
  BY <1>3, <1>4, <1>5, <1>7 DEF e, r
<1>9. /\ Times(q, kind) = Times(r, kind) + (IF e \in kind THEN 1 ELSE 0)
      /\ Times(r, kind) \in Nat
  BY <1>6, <1>8
<1> QED
  BY <1>4, <1>9 DEF e, r

(* What the recursion of Kept asks of a function.                          *)
KeptBy(f, q, S) ==
  f = [i \in 0..Len(q) |->
         IF i = 0 THEN <<>>
         ELSE IF q[i] \in S THEN Append(f[i - 1], q[i]) ELSE f[i - 1]]

(* Kept's recursion has a solution, as far as a queue goes.                *)
LEMMA KeptDefined ==
  ASSUME NEW T, NEW q \in Seq(T), NEW S
  PROVE  \E f : KeptBy(f, q, S)
<1> DEFINE Fits(f, n) == \A i \in 0..n :
             f[i] = IF i = 0 THEN <<>>
                    ELSE IF q[i] \in S THEN Append(f[i - 1], q[i]) ELSE f[i - 1]
           bad == {n \in Nat : n <= Len(q) /\ ~\E f \in [0..n -> Seq(T)] : Fits(f, n)}
<1>1. Len(q) \in Nat /\ \A i \in 1..Len(q) : q[i] \in T
  OBVIOUS
<1>2. bad = {}
  <2> SUFFICES ASSUME bad # {} PROVE FALSE
    OBVIOUS
  <2>1. PICK n \in bad : \A m \in bad : n <= m
    BY LeastNumber
  <2>2. n # 0
    <3>1. [i \in 0..0 |-> <<>>] \in [0..0 -> Seq(T)] /\ Fits([i \in 0..0 |-> <<>>], 0)
      OBVIOUS
    <3> QED
      BY <2>1, <3>1
  <2>3. n - 1 \in Nat /\ n - 1 < n /\ n - 1 <= Len(q) /\ n \in 1..Len(q)
    BY <1>1, <2>1, <2>2
  <2>4. n - 1 \notin bad
    <3> HIDE DEF bad
    <3> QED
      BY <2>1, <2>3
  <2>5. PICK f \in [0..(n - 1) -> Seq(T)] : Fits(f, n - 1)
    BY <2>3, <2>4
  <2> DEFINE e == IF q[n] \in S THEN Append(f[n - 1], q[n]) ELSE f[n - 1]
             g == [i \in 0..n |-> IF i = n THEN e ELSE f[i]]
  <2>6. e \in Seq(T)
    BY <1>1, <2>3, <2>5
  <2> HIDE DEF e
  <2>7. g \in [0..n -> Seq(T)] /\ g[n] = e /\ \A i \in 0..(n - 1) : g[i] = f[i]
    BY <2>3, <2>5, <2>6
  <2> HIDE DEF g
  <2>8. ASSUME NEW i \in 0..n
        PROVE  g[i] = IF i = 0 THEN <<>>
                      ELSE IF q[i] \in S THEN Append(g[i - 1], q[i]) ELSE g[i - 1]
    <3>1. CASE i = n
      <4>1. g[n - 1] = f[n - 1]
        BY <2>3, <2>7
      <4> QED
        BY <2>2, <2>7, <3>1, <4>1 DEF e
    <3>2. CASE i # n
      <4>1. i \in 0..(n - 1) /\ (i # 0 => i - 1 \in 0..(n - 1))
        BY <2>3, <3>2
      <4> QED
        BY <2>5, <2>7, <4>1
    <3> QED
      BY <3>1, <3>2
  <2>9. Fits(g, n)
    BY <2>8
  <2> QED
    BY <2>1, <2>7, <2>9
<1>3. PICK f \in [0..Len(q) -> Seq(T)] : Fits(f, Len(q))
  BY <1>1, <1>2
<1>4. KeptBy(f, q, S)
  BY <1>3 DEF KeptBy
<1> QED
  BY <1>4

(* What is kept of a queue: each element in S as often as it was there.    *)
LEMMA TimesKept ==
  ASSUME NEW T, NEW q \in Seq(T), NEW S
  PROVE  /\ Kept(q, S) \in Seq(T)
         /\ \A x : Times(Kept(q, S), {x}) = IF x \in S THEN Times(q, {x}) ELSE 0
<1> DEFINE f == CHOOSE h : KeptBy(h, q, S)
<1>1. \E h : KeptBy(h, q, S)
  BY KeptDefined
<1>2. Kept(q, S) = f[Len(q)]
  BY DEF Kept, KeptBy
<1>3. KeptBy(f, q, S)
  BY <1>1
<1> HIDE DEF f
<1>4. /\ Len(q) \in Nat /\ \A i \in 1..Len(q) : q[i] \in T
      /\ f[0] = <<>>
      /\ \A i \in 1..Len(q) :
           f[i] = IF q[i] \in S THEN Append(f[i - 1], q[i]) ELSE f[i - 1]
  <2>1. Len(q) \in Nat /\ \A i \in 1..Len(q) : q[i] \in T /\ i \in 0..Len(q) /\ i # 0
    OBVIOUS
  <2>2. 0 \in 0..Len(q)
    BY <2>1
  <2> QED
    BY <1>3, <2>1, <2>2 DEF KeptBy
<1> DEFINE pre(n) == SubSeq(q, 1, n)
           Good(n) ==
             /\ f[n] \in Seq(T)
             /\ \A x : Times(f[n], {x}) = IF x \in S THEN Times(pre(n), {x}) ELSE 0
           bad == {n \in Nat : n <= Len(q) /\ ~Good(n)}
<1>5. Good(0)
  <2>1. pre(0) = <<>> /\ <<>> \in Seq(T)
    BY <1>4
  <2>2. ASSUME NEW x PROVE Times(<<>>, {x}) = 0
    <3>1. \A i \in DOMAIN <<>> : <<>>[i] \notin {x}
      OBVIOUS
    <3> QED
      BY <2>1, <3>1, TimesFinite
  <2> QED
    BY <1>4, <2>1, <2>2
<1>6. ASSUME NEW n \in 1..Len(q), Good(n - 1) PROVE Good(n)
  <2>1. /\ pre(n) = Append(pre(n - 1), q[n]) /\ pre(n - 1) \in Seq(T) /\ q[n] \in T
    BY <1>4, <1>6
  <2>2. f[n] = IF q[n] \in S THEN Append(f[n - 1], q[n]) ELSE f[n - 1]
    BY <1>4
  <2>3. f[n - 1] \in Seq(T)
    BY <1>6
  <2>4. f[n] \in Seq(T)
    BY <2>1, <2>2, <2>3
  <2>5. ASSUME NEW x
        PROVE  Times(f[n], {x}) = IF x \in S THEN Times(pre(n), {x}) ELSE 0
    <3> DEFINE a == pre(n - 1)
               b == f[n - 1]
               e == q[n]
    <3>1. Times(b, {x}) = IF x \in S THEN Times(a, {x}) ELSE 0
      BY <1>6
    <3>2. a \in Seq(T) /\ b \in Seq(T) /\ e \in T
      BY <2>1, <2>3
    <3>3. pre(n) = Append(a, e) /\ f[n] = IF e \in S THEN Append(b, e) ELSE b
      BY <2>1, <2>2
    <3> HIDE DEF a, b, e
    <3>4. /\ Times(a, {x}) \in Nat /\ Times(b, {x}) \in Nat
          /\ Times(Append(a, e), {x}) = Times(a, {x}) + (IF e \in {x} THEN 1 ELSE 0)
          /\ Times(Append(b, e), {x}) = Times(b, {x}) + (IF e \in {x} THEN 1 ELSE 0)
      BY <3>2, TimesAppend
    <3> HIDE DEF pre
    <3>5. CASE e = x
      BY <3>1, <3>3, <3>4, <3>5
    <3>6. CASE e # x
      BY <3>1, <3>3, <3>4, <3>6
    <3> QED
      BY <3>5, <3>6
  <2> QED
    BY <2>4, <2>5
<1> HIDE DEF Good
<1>7. bad = {}
  <2> SUFFICES ASSUME bad # {} PROVE FALSE
    OBVIOUS
  <2>1. PICK n \in bad : \A m \in bad : n <= m
    BY LeastNumber
  <2>2. n # 0
    BY <1>5, <2>1
  <2>3. n \in 1..Len(q) /\ n - 1 \in Nat /\ n - 1 < n /\ n - 1 <= Len(q)
    BY <1>4, <2>1, <2>2
  <2>4. n - 1 \notin bad
    BY <2>1, <2>3
  <2> QED
    BY <1>6, <2>1, <2>3, <2>4
<1>8. Good(Len(q)) /\ pre(Len(q)) = q
  BY <1>4, <1>7
<1> QED
  BY <1>2, <1>8 DEF Good

(* The requester of a request's root, for any maps a of first requests and *)
(* p of links; and the requests a requester has among those that are live. *)
Owns(a, p, r, id) == Root(p, id) \in DOMAIN a /\ a[Root(p, id)] = r
OwnSet(a, p, live, r) == {id \in live : Owns(a, p, r, id)}

(***************************************************************************)
(* Whose requests are whose, through chains that grow and are cut.         *)
(***************************************************************************)

(* A request that is loaded.                                               *)
LEMMA OwnLoaded ==
  ASSUME NEW p, Falls(p), NEW a, NEW c \in Nat, NEW x, NEW r, NEW live \in SUBSET (0..(c - 1)),
         DOMAIN a \subseteq 0..(c - 1), DOMAIN p \subseteq 0..(c - 1)
  PROVE  /\ r = x => OwnSet(With(a, c, x), p, live \cup {c}, r)
                      = OwnSet(a, p, live, r) \cup {c}
         /\ r # x => OwnSet(With(a, c, x), p, live \cup {c}, r) = OwnSet(a, p, live, r)
<1> DEFINE b == With(a, c, x)
<1>1. /\ DOMAIN b = DOMAIN a \cup {c} /\ b[c] = x
      /\ \A i \in DOMAIN a : i # c /\ b[i] = a[i]
  BY DEF With
<1> HIDE DEF b
<1>2. Root(p, c) = c
  BY RootUnfolds
<1>3. \A i \in live : i \in Nat /\ Root(p, i) # c /\ i # c
  BY RootEnds
<1>4. Owns(b, p, r, c) <=> r = x
  BY <1>1, <1>2 DEF Owns
<1>5. \A i \in live : Owns(b, p, r, i) <=> Owns(a, p, r, i)
  BY <1>1, <1>3 DEF Owns
<1> QED
  BY <1>4, <1>5 DEF OwnSet, b

(* A request that is redirected.                                           *)
LEMMA OwnFollowed ==
  ASSUME NEW p, Falls(p), NEW a, NEW c \in Nat, NEW r, NEW live \in SUBSET (0..(c - 1)),
         NEW id \in live, DOMAIN a \subseteq 0..(c - 1), DOMAIN p \subseteq 0..(c - 1)
  PROVE  /\ id \in OwnSet(a, p, live, r) =>
              OwnSet(a, With(p, c, id), (live \ {id}) \cup {c}, r)
                = (OwnSet(a, p, live, r) \ {id}) \cup {c}
         /\ id \notin OwnSet(a, p, live, r) =>
              OwnSet(a, With(p, c, id), (live \ {id}) \cup {c}, r) = OwnSet(a, p, live, r)
<1> DEFINE q == With(p, c, id)
<1>1. /\ \A i \in 0..(c - 1) : Root(q, i) = Root(p, i)
      /\ Root(q, c) = Root(p, id)
  BY ExtendedRoots
<1> HIDE DEF q
<1>2. \A i \in live : Owns(a, q, r, i) <=> Owns(a, p, r, i)
  BY <1>1 DEF Owns
<1>3. Owns(a, q, r, c) <=> Owns(a, p, r, id)
  BY <1>1 DEF Owns
<1> QED
  BY <1>2, <1>3 DEF OwnSet, q

(* Requests that are forgotten, and what is left alone.                    *)
LEMMA OwnCut ==
  ASSUME NEW p, Falls(p), NEW a, NEW S, NEW K, NEW live \in SUBSET Nat,
         NEW rest \in SUBSET live, NEW r, DOMAIN a \cap DOMAIN p = {}
  PROVE  /\ OwnSet(Without(a, K), Without(p, S), rest, r) \subseteq OwnSet(a, p, live, r)
         /\ \A id \in rest : /\ id \in OwnSet(a, p, live, r)
                             /\ Root(p, id) \notin K /\ Chain(p, id) \cap S = {}
                             => id \in OwnSet(Without(a, K), Without(p, S), rest, r)
<1> DEFINE b == Without(a, K)
           q == Without(p, S)
<1>1. DOMAIN b = DOMAIN a \ K /\ \A i \in DOMAIN b : b[i] = a[i]
  BY DEF Without
<1>2. \A i \in rest : /\ Root(q, i) = Root(p, i) \/ Root(q, i) \in DOMAIN p
                      /\ Chain(p, i) \cap S = {} => Root(q, i) = Root(p, i)
  BY CutRoots
<1> HIDE DEF b, q
<1>3. \A i \in rest : Owns(b, q, r, i) => Owns(a, p, r, i)
  BY <1>1, <1>2 DEF Owns
<1>4. ASSUME NEW i \in rest, Owns(a, p, r, i), Root(p, i) \notin K, Chain(p, i) \cap S = {}
      PROVE  Owns(b, q, r, i)
  <2>1. Root(q, i) = Root(p, i)
    BY <1>2, <1>4
  <2> QED
    BY <1>1, <1>4, <2>1 DEF Owns
<1> QED
  BY <1>3, <1>4 DEF OwnSet, b, q

(* What is loading, or loaded and not yet looked at.                       *)
Live == DOMAIN transfers \cup loadedIds

(* Every transfer ends in one signal.                                      *)
LoadedOnce ==
  /\ \A i, j \in DOMAIN handlerQueue :
       /\ handlerQueue[i].type = "loaded" /\ handlerQueue[j].type = "loaded"
       /\ handlerQueue[i].id = handlerQueue[j].id
       => i = j
  /\ DOMAIN transfers \cap loadedIds = {}

(* First requests are no redirects, and the redirect the handler would     *)
(* pause or reset in their place is bound to them.                         *)
Bound ==
  /\ DOMAIN activeIds \cap DOMAIN parentOf = {}
  /\ \A id \in DOMAIN activeIds \cap DOMAIN redirectsOf :
       /\ redirectsOf[id] # <<>>
       /\ Last(redirectsOf[id]) \in DOMAIN parentOf
       /\ parentOf[Last(redirectsOf[id])] = id

(* What was never allocated is nowhere.                                    *)
Unused ==
  \A r \in Requesters :
    address[r] = None =>
      Places(r) = 0 /\ r \notin answered \cup activeRequesters \cup onAboutClearData

(* No two living requesters are at the same address.                       *)
Distinct == \A q, r \in LiveRequesters : address[q] = address[r] => q = r

(* What the type invariant says of ids, as the lemmas on roots need it.    *)
LEMMA TypeFacts ==
  ASSUME DownloadTypeOK
  PROVE  /\ Falls(parentOf) /\ requestCounter \in Nat /\ Ids = 0..(requestCounter - 1)
         /\ DOMAIN parentOf \subseteq Ids /\ DOMAIN activeIds \subseteq Ids
         /\ Live \in SUBSET Ids /\ Ids \subseteq Nat /\ IsFiniteSet(Ids)
         /\ Cardinality(Ids) \in Nat
<1>1. requestCounter \in Nat /\ Ids = 0..(requestCounter - 1)
  BY DEF DownloadTypeOK, Ids
<1>2. Falls(parentOf) /\ DOMAIN parentOf \subseteq Ids
  BY <1>1 DEF DownloadTypeOK, Falls
<1>3. IsFiniteSet(Ids)
  BY <1>1, FS_Interval
<1> QED
  BY <1>1, <1>2, <1>3, FS_CardinalityType DEF DownloadTypeOK, Live

(* Whose a request is, said with roots.                                    *)
LEMMA OwnedNow ==
  ASSUME DownloadTypeOK, DOMAIN activeIds \cap DOMAIN parentOf = {}, NEW id \in Nat, NEW r
  PROVE  /\ ownedBy(r, id) <=> Owns(activeIds, parentOf, r, id)
         /\ id \notin DOMAIN activeIds /\ id \in DOMAIN parentOf =>
              actualRequesterId(id) = Root(parentOf, id)
         /\ (IF id \in DOMAIN parentOf THEN parentIdFor(id) ELSE id) = Root(parentOf, id)
<1>1. -1 \notin DOMAIN activeIds
  BY TypeFacts
<1>2. Ancestry(id) = Chain(parentOf, id)
  BY DEF Ancestry, Chain
<1>3. id \in DOMAIN parentOf => parentIdFor(id) = Root(parentOf, id)
  BY <1>2 DEF parentIdFor, Root
<1>4. id \notin DOMAIN parentOf => parentIdFor(id) = -1 /\ Root(parentOf, id) = id
  BY DEF parentIdFor, Root
<1>5. actualRequesterId(id) = IF id \in DOMAIN activeIds THEN id ELSE parentIdFor(id)
  BY DEF actualRequesterId
<1> QED
  BY <1>1, <1>3, <1>4, <1>5 DEF ownedBy, Owns

(* The same after a step.                                                  *)
LEMMA OwnedNext ==
  ASSUME DownloadTypeOK', DOMAIN activeIds' \cap DOMAIN parentOf' = {}, NEW id \in Nat, NEW r
  PROVE  ownedBy(r, id)' <=> Owns(activeIds', parentOf', r, id)
<1>1. -1 \notin DOMAIN activeIds'
  BY DEF DownloadTypeOK, Ids
<1>2. Ancestry(id)' = Chain(parentOf', id)
  BY DEF Ancestry, Chain
<1>3. id \in DOMAIN parentOf' => parentIdFor(id)' = Root(parentOf', id)
  BY <1>2 DEF parentIdFor, Root
<1>4. id \notin DOMAIN parentOf' => parentIdFor(id)' = -1 /\ Root(parentOf', id) = id
  BY DEF parentIdFor, Root
<1>5. actualRequesterId(id)' = IF id \in DOMAIN activeIds' THEN id ELSE parentIdFor(id)'
  BY DEF actualRequesterId
<1> QED
  BY <1>1, <1>3, <1>4, <1>5 DEF ownedBy, Owns

(* A requester's requests, said with roots; they are finitely many.        *)
LEMMA OwnSetNow ==
  ASSUME DownloadTypeOK, DOMAIN activeIds \cap DOMAIN parentOf = {}, NEW r
  PROVE  /\ ownIds(r) = OwnSet(activeIds, parentOf, Live, r)
         /\ IsFiniteSet(ownIds(r)) /\ Cardinality(ownIds(r)) \in Nat
<1>1. Live \in SUBSET Nat /\ Live \in SUBSET Ids /\ IsFiniteSet(Ids)
  BY TypeFacts
<1>2. \A id \in Live : ownedBy(r, id) <=> Owns(activeIds, parentOf, r, id)
  BY <1>1, OwnedNow
<1>3. ownIds(r) = OwnSet(activeIds, parentOf, Live, r)
  BY <1>2 DEF ownIds, OwnSet, Live
<1>4. ownIds(r) \in SUBSET Ids
  BY <1>1 DEF ownIds, Live
<1> QED
  BY <1>1, <1>3, <1>4, FS_Subset, FS_CardinalityType

(* The same after a step.                                                  *)
LEMMA OwnSetNext ==
  ASSUME DownloadTypeOK', DOMAIN activeIds' \cap DOMAIN parentOf' = {}, NEW r
  PROVE  /\ ownIds(r)' = OwnSet(activeIds', parentOf', Live', r)
         /\ IsFiniteSet(ownIds(r)') /\ Cardinality(ownIds(r)') \in Nat
<1>1. Live' \in SUBSET Nat /\ Live' \in SUBSET Ids' /\ IsFiniteSet(Ids')
  <2>1. requestCounter' \in Nat /\ Ids' = 0..(requestCounter' - 1)
    BY DEF DownloadTypeOK, Ids
  <2> QED
    <3>1. IsFiniteSet(0..(requestCounter' - 1))
      BY <2>1, FS_Interval
    <3> QED
      BY <2>1, <3>1 DEF DownloadTypeOK, Live
<1>2. \A id \in Live' : ownedBy(r, id)' <=> Owns(activeIds', parentOf', r, id)
  BY <1>1, OwnedNext
<1>3. ownIds(r)' = OwnSet(activeIds', parentOf', Live', r)
  BY <1>2 DEF ownIds, OwnSet, Live
<1>4. ownIds(r)' \in SUBSET Ids'
  BY <1>1 DEF ownIds, Live
<1> QED
  BY <1>1, <1>3, <1>4, FS_Subset, FS_CardinalityType

(* What libcurl transfers.                                                 *)
Transfers == [paused : BOOLEAN, hop : 1..maxRedirects]

(* A requester waits, or its request is handed to libcurl.                 *)
Loaded(r, pending, others) ==
  \/ /\ pendingRequesters' = Append(pending, r) /\ transfers' = others
     /\ activeIds' = activeIds /\ requestCounter' = requestCounter
  \/ /\ pendingRequesters' = pending
     /\ activeIds' = With(activeIds, requestCounter, r)
     /\ requestCounter' = requestCounter + 1
     /\ transfers' = With(others, requestCounter, [paused |-> FALSE, hop |-> 1])

(* The first that is not paused is loaded, if there is one.                *)
NextLoaded(others) ==
  LET live == Kept(pendingRequesters, LiveRequesters) IN
  \/ /\ pendingRequesters' = live /\ transfers' = others
     /\ activeIds' = activeIds /\ requestCounter' = requestCounter
  \/ \E i \in DOMAIN live : Loaded(live[i], RemoveAt(live, i), others)

(* libcurl's count is as it was, or counts again.                          *)
Recounted(count) == stillRunning' \in {count, Cardinality(DOMAIN transfers')}

(***************************************************************************)
(* Types, one part of the state at a time. The last fact that types need   *)
(* is Unused: keys are addresses as no active requester is unallocated.    *)
(***************************************************************************)

(* load has one of the outcomes of Loaded, whatever it counts.             *)
LEMMA LoadIs ==
  ASSUME NEW r, NEW pending, NEW paused, NEW others, NEW count,
         load(r, pending, paused, others, count)
  PROVE  Loaded(r, pending, others) /\ Recounted(count)
<1>1. CASE count >= maxParallelConnections \/ address[r] \in paused
  BY <1>1 DEF load, Loaded, Recounted
<1>2. CASE ~(count >= maxParallelConnections \/ address[r] \in paused)
  BY <1>2 DEF load, get, Loaded, Recounted
<1> QED
  BY <1>1, <1>2

(* loadFirstUnpaused has one of the outcomes of NextLoaded.                *)
LEMMA LoadFirstIs ==
  ASSUME pendingRequesters \in Seq(Requesters), NEW paused, NEW others, NEW count,
         loadFirstUnpaused(paused, others, count)
  PROVE  NextLoaded(others) /\ Recounted(count)
<1> DEFINE live == Kept(pendingRequesters, LiveRequesters)
           unpaused == {i \in DOMAIN live : address[live[i]] \notin paused}
<1>1. live \in Seq(Requesters)
  BY TimesKept
<1> HIDE DEF live
<1>2. CASE unpaused = {}
  BY <1>2 DEF loadFirstUnpaused, NextLoaded, Recounted, live
<1>3. CASE unpaused # {}
  <2>1. unpaused \in SUBSET Nat
    BY <1>1
  <2>2. \E n \in unpaused : \A m \in unpaused : n <= m
    BY <1>3, <2>1, LeastNumber
  <2>3. Min(unpaused) \in unpaused
    BY <2>2 DEF Min
  <2>4. load(live[Min(unpaused)], RemoveAt(live, Min(unpaused)), paused, others, count)
    BY <1>3 DEF loadFirstUnpaused, live
  <2>5. PICK i \in DOMAIN live : i = Min(unpaused)
    BY <2>3
  <2>6. Loaded(live[i], RemoveAt(live, i), others) /\ Recounted(count)
    BY <2>4, <2>5, LoadIs
  <2> QED
    BY <2>6 DEF NextLoaded, live
<1> QED
  BY <1>2, <1>3

(* The parts of the type invariant.                                        *)
WorkerOK ==
  /\ running \in BOOLEAN /\ dispatching \in BOOLEAN
  /\ activeRequesters \subseteq Requesters /\ onAboutClearData \subseteq Requesters
  /\ messages \in Seq(Messages) /\ (dispatching => messages # <<>>)
  /\ address \in [Requesters -> Addresses \cup {None}]
  /\ answered \subseteq Requesters
  /\ stops \in 0..MaxStops /\ clears \in 0..MaxClears
QueueOK == handlerQueue \in Seq(Events) /\ loadedIds \subseteq Ids
WaitOK ==
  /\ pauseRange \in BOOLEAN
  /\ requesterQueue \in Seq(Requesters) /\ pendingRequesters \in Seq(Requesters)
  /\ pausedRequesters \subseteq Addresses
MapsOK ==
  /\ requestCounter \in Nat
  /\ activeIds \in [DOMAIN activeIds -> Requesters] /\ DOMAIN activeIds \subseteq Ids
  /\ \A id \in DOMAIN parentOf : id \in Ids /\ parentOf[id] \in 0..(id - 1)
  /\ \A id \in DOMAIN redirectsOf : id \in Ids /\ redirectsOf[id] \in Seq(Ids)
CurlOK ==
  /\ transfers \in [DOMAIN transfers -> Transfers] /\ DOMAIN transfers \subseteq Ids
  /\ stillRunning \in 0..Cardinality(Ids) /\ actionDue \in BOOLEAN

(* The type invariant is the conjunction of its parts.                     *)
LEMMA TypeParts ==
  /\ DownloadTypeOK <=> WorkerOK /\ QueueOK /\ WaitOK /\ MapsOK /\ CurlOK
  /\ DownloadTypeOK' <=> WorkerOK' /\ QueueOK' /\ WaitOK' /\ MapsOK' /\ CurlOK'
BY DEF DownloadTypeOK, WorkerOK, QueueOK, WaitOK, MapsOK, CurlOK, Transfers

(* Ids as requests are made.                                               *)
LEMMA IdsGrow ==
  ASSUME requestCounter \in Nat,
         requestCounter' = requestCounter \/ requestCounter' = requestCounter + 1
  PROVE  /\ requestCounter' \in Nat /\ Ids \subseteq Ids' /\ Ids' \subseteq Nat
         /\ requestCounter' = requestCounter + 1 => requestCounter \in Ids' \ Ids
         /\ Cardinality(Ids) \in Nat /\ Cardinality(Ids') \in Nat
         /\ Cardinality(Ids) <= Cardinality(Ids')
         /\ \A S \in SUBSET Ids' : Cardinality(S) \in 0..Cardinality(Ids')
<1>1. /\ requestCounter' \in Nat /\ Ids = 0..(requestCounter - 1)
      /\ Ids' = 0..(requestCounter' - 1) /\ Ids \in SUBSET Ids' /\ Ids' \subseteq Nat
      /\ requestCounter' = requestCounter + 1 => requestCounter \in Ids' \ Ids
  BY DEF Ids
<1>2. IsFiniteSet(Ids')
  <2>1. IsFiniteSet(0..(requestCounter' - 1))
    BY <1>1, FS_Interval
  <2> QED
    BY <1>1, <2>1
<1>3. \A S \in SUBSET Ids' : IsFiniteSet(S) /\ Cardinality(S) \in Nat
                             /\ Cardinality(S) <= Cardinality(Ids') /\ Cardinality(Ids') \in Nat
  BY <1>2, FS_Subset, FS_CardinalityType
<1>4. Cardinality(Ids) \in Nat /\ Cardinality(Ids') \in Nat /\ Cardinality(Ids) <= Cardinality(Ids')
  BY <1>1, <1>3
<1>5. ASSUME NEW S \in SUBSET Ids' PROVE Cardinality(S) \in 0..Cardinality(Ids')
  BY <1>3, <1>4
<1> QED
  BY <1>1, <1>4, <1>5

(* A requester that waits or loads leaves the handler well typed.          *)
LEMMA LoadedTyped ==
  ASSUME MapsOK, NEW r \in Requesters, NEW pending \in Seq(Requesters),
         NEW others, others \in [DOMAIN others -> Transfers], DOMAIN others \subseteq Ids,
         NEW count \in 0..Cardinality(Ids),
         Loaded(r, pending, others), Recounted(count),
         parentOf' = parentOf, redirectsOf' = redirectsOf
  PROVE  /\ pendingRequesters' \in Seq(Requesters) /\ MapsOK' /\ Ids \subseteq Ids'
         /\ transfers' \in [DOMAIN transfers' -> Transfers] /\ DOMAIN transfers' \subseteq Ids'
         /\ stillRunning' \in 0..Cardinality(Ids')
<1>1. 1 \in 1..maxRedirects
  BY DownloadAssumption
<1>2. requestCounter \in Nat
  BY DEF MapsOK
<1>3. /\ requestCounter' = requestCounter \/ requestCounter' = requestCounter + 1
      /\ pendingRequesters' \in Seq(Requesters)
  BY DEF Loaded
<1>4. /\ requestCounter' \in Nat /\ Ids \subseteq Ids'
      /\ requestCounter' = requestCounter + 1 => requestCounter \in Ids' \ Ids
      /\ Cardinality(Ids) \in Nat /\ Cardinality(Ids') \in Nat
      /\ Cardinality(Ids) <= Cardinality(Ids')
      /\ \A S \in SUBSET Ids' : Cardinality(S) \in 0..Cardinality(Ids')
  BY <1>2, <1>3, IdsGrow
<1>5. transfers' \in [DOMAIN transfers' -> Transfers] /\ DOMAIN transfers' \subseteq Ids'
  <2>1. CASE transfers' = others
    BY <1>4, <2>1
  <2>2. CASE /\ requestCounter' = requestCounter + 1
             /\ transfers' = With(others, requestCounter, [paused |-> FALSE, hop |-> 1])
    <3>1. [paused |-> FALSE, hop |-> 1] \in Transfers
      BY <1>1 DEF Transfers
    <3> QED
      BY <1>4, <2>2, <3>1 DEF With
  <2> QED
    BY <2>1, <2>2 DEF Loaded
<1>6. activeIds' \in [DOMAIN activeIds' -> Requesters] /\ DOMAIN activeIds' \subseteq Ids'
  BY <1>4 DEF Loaded, With, MapsOK
<1>7. stillRunning' \in 0..Cardinality(Ids')
  BY <1>4, <1>5 DEF Recounted
<1>8. \A id \in DOMAIN redirectsOf : id \in Ids' /\ redirectsOf[id] \in Seq(Ids')
  BY <1>4, SeqMonotonic DEF MapsOK
<1>9. \A id \in DOMAIN parentOf : id \in Ids' /\ parentOf[id] \in 0..(id - 1)
  BY <1>4 DEF MapsOK
<1> QED
  BY <1>3, <1>4, <1>5, <1>6, <1>7, <1>8, <1>9 DEF MapsOK

(* The handler loads somebody pending, or nobody.                          *)
LEMMA NextLoadedTyped ==
  ASSUME MapsOK, pendingRequesters \in Seq(Requesters),
         NEW others, others \in [DOMAIN others -> Transfers], DOMAIN others \subseteq Ids,
         NEW count \in 0..Cardinality(Ids),
         NextLoaded(others), Recounted(count),
         parentOf' = parentOf, redirectsOf' = redirectsOf
  PROVE  /\ pendingRequesters' \in Seq(Requesters) /\ MapsOK' /\ Ids \subseteq Ids'
         /\ transfers' \in [DOMAIN transfers' -> Transfers] /\ DOMAIN transfers' \subseteq Ids'
         /\ stillRunning' \in 0..Cardinality(Ids')
<1> DEFINE live == Kept(pendingRequesters, LiveRequesters)
<1>1. live \in Seq(Requesters)
  BY TimesKept
<1> HIDE DEF live
<1>2. CASE /\ pendingRequesters' = live /\ transfers' = others
           /\ activeIds' = activeIds /\ requestCounter' = requestCounter
  <2>1. Ids' = Ids
    BY <1>2 DEF Ids
  <2>2. requestCounter \in Nat
    BY DEF MapsOK
  <2>3. \A S \in SUBSET Ids' : Cardinality(S) \in 0..Cardinality(Ids')
    BY <1>2, <2>2, IdsGrow
  <2>4. stillRunning' \in 0..Cardinality(Ids')
    BY <1>2, <2>1, <2>3 DEF Recounted
  <2>5. MapsOK'
    BY <1>2, <2>1 DEF MapsOK
  <2> QED
    BY <1>1, <1>2, <2>1, <2>4, <2>5
<1>3. ASSUME NEW i \in DOMAIN live, Loaded(live[i], RemoveAt(live, i), others)
      PROVE  /\ pendingRequesters' \in Seq(Requesters) /\ MapsOK' /\ Ids \subseteq Ids'
             /\ transfers' \in [DOMAIN transfers' -> Transfers]
             /\ DOMAIN transfers' \subseteq Ids'
             /\ stillRunning' \in 0..Cardinality(Ids')
  <2>1. live[i] \in Requesters /\ RemoveAt(live, i) \in Seq(Requesters)
    BY <1>1, TimesRemoveAt
  <2> QED
    BY <1>3, <2>1, LoadedTyped
<1> QED
  BY <1>2, <1>3 DEF NextLoaded, live

(* m_activeRequesters holds requesters that were allocated, at addresses.  *)
LEMMA KeysTyped == ASSUME WorkerOK, Unused PROVE keys \subseteq Addresses
BY DEF WorkerOK, Unused, keys

(* The worker's own steps.                                                 *)
LEMMA WorkerTyped ==
  ASSUME DownloadTypeOK, Unused, Worker
  PROVE  DownloadTypeOK'
<1>1. WorkerOK /\ QueueOK /\ WaitOK /\ MapsOK /\ CurlOK /\ keys \subseteq Addresses
  BY TypeParts, KeysTyped
<1>2. UNCHANGED <<handlerQueue, waitVars, mapVars, curlVars>> => QueueOK' /\ WaitOK' /\ MapsOK' /\ CurlOK'
  BY <1>1 DEF QueueOK, WaitOK, MapsOK, CurlOK, Ids, loadedIds, waitVars, mapVars, curlVars
<1>3. /\ [type |-> "pause", requesters |-> keys] \in Messages
      /\ [type |-> "unpause", requesters |-> keys] \in Messages
      /\ [type |-> "reset", requesters |-> keys] \in Messages
      /\ \A r \in Requesters : [type |-> "download", requester |-> r] \in Messages
  BY <1>1 DEF Messages
<1>4. /\ pauseAllActiveDownloads \in Seq(Messages) /\ pauseAllActiveDownloads # <<>>
      /\ unpauseAllPausedDownloads \in Seq(Messages) /\ unpauseAllPausedDownloads # <<>>
  BY <1>1, <1>3 DEF WorkerOK, pauseAllActiveDownloads, unpauseAllPausedDownloads
<1>5. ASSUME NEW posted \in Seq(Messages), performLoadingAfter(posted)
      PROVE  /\ address' \in [Requesters -> Addresses \cup {None}]
             /\ activeRequesters' \subseteq Requesters
             /\ messages' \in Seq(Messages) /\ messages' # <<>>
  <2>1. PICK r \in Requesters, a \in FreeAddresses :
               /\ address' = [address EXCEPT ![r] = a]
               /\ activeRequesters' = activeRequesters \cup {r}
               /\ messages' = Append(posted, [type |-> "download", requester |-> r])
    BY <1>5 DEF performLoadingAfter
  <2>2. a \in Addresses
    BY DEF FreeAddresses
  <2>3. [type |-> "download", requester |-> r] \in Messages
    BY <1>3
  <2> QED
    BY <1>1, <1>5, <2>1, <2>2, <2>3 DEF WorkerOK
<1>6. CASE start
  <2>1. \/ messages' = unpauseAllPausedDownloads /\ UNCHANGED <<activeRequesters, address>>
        \/ performLoadingAfter(unpauseAllPausedDownloads)
    BY <1>6 DEF start
  <2>2. /\ address' \in [Requesters -> Addresses \cup {None}]
        /\ activeRequesters' \subseteq Requesters
        /\ messages' \in Seq(Messages) /\ messages' # <<>>
    BY <1>1, <1>4, <1>5, <2>1 DEF WorkerOK
  <2>3. WorkerOK'
    BY <1>1, <1>6, <2>2 DEF start, WorkerOK
  <2> QED
    BY <1>2, <1>6, <2>3, TypeParts DEF start
<1>7. CASE performLoading
  <2>1. performLoadingAfter(messages) /\ messages \in Seq(Messages)
    BY <1>1, <1>7 DEF performLoading, WorkerOK
  <2>2. /\ address' \in [Requesters -> Addresses \cup {None}]
        /\ activeRequesters' \subseteq Requesters
        /\ messages' \in Seq(Messages) /\ messages' # <<>>
    BY <1>5, <2>1
  <2>3. WorkerOK'
    BY <1>1, <1>7, <2>2 DEF performLoading, WorkerOK
  <2> QED
    BY <1>2, <1>7, <2>3, TypeParts DEF performLoading
<1>8. CASE stop
  <2>1. stops' \in 0..MaxStops
    BY <1>1, <1>8, DownloadAssumption DEF stop, WorkerOK
  <2>2. WorkerOK'
    BY <1>1, <1>4, <1>8, <2>1 DEF stop, WorkerOK
  <2> QED
    BY <1>2, <1>8, <2>2, TypeParts DEF stop
<1>9. CASE clear
  <2>1. clears' \in 0..MaxClears
    BY <1>1, <1>9, DownloadAssumption DEF clear, WorkerOK
  <2>2. messages' \in Seq(Messages) /\ messages' # <<>>
    BY <1>1, <1>3, <1>9 DEF clear, WorkerOK
  <2>3. WorkerOK'
    BY <1>1, <1>9, <2>1, <2>2 DEF clear, WorkerOK
  <2> QED
    BY <1>2, <1>9, <2>3, TypeParts DEF clear
<1> QED
  BY <1>6, <1>7, <1>8, <1>9 DEF Worker

(* The signals of a queue.                                                 *)
LEMMA SignalIds ==
  /\ loadedIds = {handlerQueue[i].id : i \in {j \in DOMAIN handlerQueue : handlerQueue[j].type = "loaded"}}
  /\ loadedIds' = {handlerQueue'[i].id : i \in {j \in DOMAIN handlerQueue' : handlerQueue'[j].type = "loaded"}}
BY DEF loadedIds, ToSet

(* The dispatcher of the worker posts calls, never signals.                *)
LEMMA DispatcherTyped ==
  ASSUME DownloadTypeOK, Dispatcher
  PROVE  DownloadTypeOK' /\ loadedIds' = loadedIds
<1>1. WorkerOK /\ QueueOK /\ WaitOK /\ MapsOK /\ CurlOK
  BY TypeParts
<1>2. UNCHANGED <<waitVars, mapVars, curlVars>> => WaitOK' /\ MapsOK' /\ CurlOK'
  BY <1>1 DEF WaitOK, MapsOK, CurlOK, Ids, waitVars, mapVars, curlVars
<1>3. CASE timerEvent
  <2>1. WorkerOK' /\ QueueOK' /\ loadedIds' = loadedIds
    BY <1>1, <1>3 DEF timerEvent, WorkerOK, QueueOK, Ids, loadedIds, curlVars
  <2> QED
    BY <1>2, <1>3, <2>1, TypeParts DEF timerEvent
<1>4. CASE extractMessage
  <2> DEFINE m == Last(messages)
  <2>1. messages \in Seq(Messages) /\ messages # <<>>
    BY <1>1, <1>4 DEF extractMessage, WorkerOK
  <2>2. m \in Messages /\ Front(messages) \in Seq(Messages)
    BY <2>1, TimesFront
  <2>3. WorkerOK'
    <3>1. /\ activeRequesters' \subseteq activeRequesters
          /\ onAboutClearData' \subseteq onAboutClearData
          /\ answered' \subseteq Requesters
      BY <1>1, <1>4, <2>2 DEF extractMessage, WorkerOK, Messages
    <3>2. messages' = Front(messages) /\ dispatching' = (messages' # <<>>)
      BY <1>4 DEF extractMessage
    <3> QED
      BY <1>1, <1>4, <2>2, <3>1, <3>2 DEF extractMessage, WorkerOK
  <2>4. QueueOK' /\ loadedIds' = loadedIds
    <3>1. Ids' = Ids
      BY <1>4 DEF extractMessage, curlVars, Ids
    <3>2. CASE handlerQueue' = handlerQueue
      BY <1>1, <3>1, <3>2 DEF QueueOK, loadedIds
    <3>3. CASE handlerQueue' = Append(handlerQueue, m) /\ m.type \notin {"answer", "resetDone"}
      <4>1. m \in Events /\ m.type # "loaded" /\ handlerQueue \in Seq(Events)
        BY <1>1, <2>2, <3>3 DEF Events, Messages, QueueOK
      <4> DEFINE l == Len(handlerQueue)
      <4>2. /\ handlerQueue' \in Seq(Events) /\ l \in Nat
            /\ DOMAIN handlerQueue = 1..l /\ DOMAIN handlerQueue' = 1..(l + 1)
            /\ \A i \in 1..l : handlerQueue'[i] = handlerQueue[i]
            /\ handlerQueue'[l + 1] = m
        BY <3>3, <4>1
      <4> HIDE DEF l, m
      <4>3. loadedIds' = loadedIds
        BY <4>1, <4>2, SignalIds
      <4> QED
        BY <1>1, <3>1, <4>2, <4>3 DEF QueueOK
    <3> QED
      BY <1>4, <3>2, <3>3 DEF extractMessage
  <2> QED
    BY <1>2, <1>4, <2>3, <2>4, TypeParts DEF extractMessage
<1> QED
  BY <1>3, <1>4 DEF Dispatcher

(* Each signal of a queue has an id of its own.                            *)
OneSignal(q) ==
  \A i, j \in DOMAIN q : /\ q[i].type = "loaded" /\ q[j].type = "loaded"
                         /\ q[i].id = q[j].id
                         => i = j

(* The call of a requester is no signal of libcurl.                        *)
LEMMA QueuedFor ==
  ASSUME NEW r
  PROVE  \A e : e \in [type : {"download"}, requester : {r}]
                => e = [type |-> "download", requester |-> r] /\ e.type = "download"
OBVIOUS

(* The signals of checkMultiInfo are appended, one for each transfer that  *)
(* is done; nothing else of the queue changes.                             *)
LEMMA Emitted ==
  ASSUME DownloadTypeOK, NEW done \in SUBSET DOMAIN transfers, emitLoaded(done)
  PROVE  /\ handlerQueue' \in Seq(Events) /\ loadedIds' = loadedIds \cup done
         /\ LoadedOnce => OneSignal(handlerQueue')
         /\ \A r : Times(handlerQueue', [type : {"download"}, requester : {r}])
                     = Times(handlerQueue, [type : {"download"}, requester : {r}])
         /\ \A kind : (\A e \in kind : e.type # "loaded")
              => Times(handlerQueue', kind) = Times(handlerQueue, kind)
         /\ \A e \in ToSet(handlerQueue') : e.type # "loaded" => e \in ToSet(handlerQueue)
         /\ ToSet(handlerQueue) \subseteq ToSet(handlerQueue')
<1>1. PICK ids \in SetToSeqs(done) : handlerQueue' = handlerQueue \o loadedSignals(ids)
  BY DEF emitLoaded
<1> DEFINE n == Cardinality(done)
<1>2. IsFiniteSet(done) /\ n \in Nat /\ done \in SUBSET Nat /\ done \in SUBSET Ids
  <2>1. done \in SUBSET Ids /\ IsFiniteSet(Ids) /\ Ids \subseteq Nat
    BY TypeFacts DEF Live
  <2> QED
    BY <2>1, FS_Subset, FS_CardinalityType
<1>3. ids \in [1..n -> done] /\ \A i, j \in 1..n : i # j => ids[i] # ids[j]
  BY DEF SetToSeqs
<1>4. \A id \in done : \E i \in 1..n : ids[i] = id
  <2>1. IsFiniteSet(1..n) /\ Cardinality(1..n) = n
    BY <1>2, FS_Interval
  <2>2. ids \in Injection(1..n, done)
    BY <1>3 DEF Injection, IsInjective
  <2>3. ids \in Surjection(1..n, done)
    BY <1>2, <2>1, <2>2, FS_Injection
  <2> QED
    BY <2>3 DEF Surjection
<1> HIDE DEF n
<1> DEFINE s == loadedSignals(ids)
<1>5. /\ s \in Seq(Events) /\ Len(s) = n
      /\ \A i \in 1..n : s[i].type = "loaded" /\ s[i].id = ids[i] /\ s[i] \in Events
  <2>1. ASSUME NEW i \in 1..n
        PROVE  /\ [type |-> "loaded", id |-> ids[i], hop |-> transfers[ids[i]].hop] \in Events
    <3>1. ids[i] \in DOMAIN transfers /\ ids[i] \in Nat
      BY <1>2, <1>3
    <3>2. transfers[ids[i]] \in [paused : BOOLEAN, hop : 1..maxRedirects]
      BY <3>1 DEF DownloadTypeOK
    <3> QED
      BY <3>1, <3>2 DEF Events
  <2>2. s = [i \in 1..n |-> [type |-> "loaded", id |-> ids[i], hop |-> transfers[ids[i]].hop]]
    BY <1>3 DEF loadedSignals
  <2>3. s \in [1..n -> Events]
    BY <2>1, <2>2
  <2> QED
    BY <1>2, <2>1, <2>2, <2>3
<1> HIDE DEF s
<1> DEFINE l == Len(handlerQueue)
<1>6. handlerQueue \in Seq(Events)
  BY DEF DownloadTypeOK
<1>7. /\ handlerQueue' \in Seq(Events) /\ l \in Nat
      /\ DOMAIN handlerQueue = 1..l /\ DOMAIN handlerQueue' = 1..(l + n)
      /\ \A i \in 1..l : handlerQueue'[i] = handlerQueue[i]
      /\ \A i \in 1..n : handlerQueue'[l + i] = s[i]
  <2>1. handlerQueue' = handlerQueue \o s
    BY <1>1 DEF s
  <2> QED
    BY <1>2, <1>5, <1>6, <2>1
<1> HIDE DEF l
<1>8. \A i \in 1..(l + n) : i \in 1..l \/ (i - l \in 1..n /\ i = l + (i - l))
  BY <1>2, <1>7
<1>a. \A i \in 1..n : l + i \in 1..(l + n) /\ i <= l + n
  BY <1>2, <1>7
<1>b. 1..l \subseteq 1..(l + n)
  BY <1>2, <1>7
<1>c. \A i \in 1..(l + n) : \/ i \in 1..l /\ handlerQueue'[i] = handlerQueue[i]
                            \/ \E k \in 1..n : i = l + k /\ handlerQueue'[i] = s[k]
  BY <1>7, <1>8
<1>d. loadedIds' = loadedIds \cup done
  <2>1. ASSUME NEW id \in loadedIds' PROVE id \in loadedIds \cup done
    <3>1. PICK i \in DOMAIN handlerQueue' : handlerQueue'[i].type = "loaded" /\ id = handlerQueue'[i].id
      BY <2>1, SignalIds
    <3>2. CASE i \in 1..l /\ handlerQueue'[i] = handlerQueue[i]
      BY <1>7, <3>1, <3>2, SignalIds
    <3>3. CASE \E k \in 1..n : i = l + k /\ handlerQueue'[i] = s[k]
      BY <1>3, <1>5, <3>1, <3>3
    <3> QED
      BY <1>7, <1>c, <3>1, <3>2, <3>3
  <2>2. ASSUME NEW id \in loadedIds PROVE id \in loadedIds'
    <3>1. PICK i \in DOMAIN handlerQueue : handlerQueue[i].type = "loaded" /\ id = handlerQueue[i].id
      BY <2>2, SignalIds
    <3>2. i \in DOMAIN handlerQueue' /\ handlerQueue'[i] = handlerQueue[i]
      BY <1>7, <1>b, <3>1
    <3> QED
      BY <3>1, <3>2, SignalIds
  <2>3. ASSUME NEW id \in done PROVE id \in loadedIds'
    <3>1. PICK k \in 1..n : ids[k] = id
      BY <1>4
    <3>2. l + k \in DOMAIN handlerQueue' /\ handlerQueue'[l + k].type = "loaded"
          /\ handlerQueue'[l + k].id = id
      BY <1>5, <1>7, <1>a, <3>1
    <3> QED
      BY <3>2, SignalIds
  <2> QED
    BY <2>1, <2>2, <2>3
<1>9. ASSUME LoadedOnce PROVE OneSignal(handlerQueue')
  <2>0. DOMAIN transfers \cap loadedIds = {} /\ OneSignal(handlerQueue)
    BY <1>9 DEF LoadedOnce, OneSignal
  <2>1. ASSUME NEW i \in 1..(l + n), NEW j \in 1..(l + n),
               handlerQueue'[i].type = "loaded", handlerQueue'[j].type = "loaded",
               handlerQueue'[i].id = handlerQueue'[j].id
        PROVE  i = j
    <3>a. \A k \in 1..l : handlerQueue[k].type = "loaded" => handlerQueue[k].id \in loadedIds
      BY <1>7, SignalIds
    <3>b. \A k \in 1..n : s[k].id \in done /\ s[k].id \notin loadedIds
      BY <1>3, <1>5, <2>0
    <3>1. CASE i \in 1..l /\ j \in 1..l
      BY <1>7, <2>0, <2>1, <3>1 DEF OneSignal
    <3>2. CASE i \in 1..l /\ j \notin 1..l
      BY <1>7, <1>c, <2>1, <3>2, <3>a, <3>b
    <3>3. CASE i \notin 1..l /\ j \in 1..l
      BY <1>7, <1>c, <2>1, <3>3, <3>a, <3>b
    <3>4. CASE i \notin 1..l /\ j \notin 1..l
      <4>1. PICK k \in 1..n : i = l + k /\ handlerQueue'[i] = s[k]
        BY <1>c, <3>4
      <4>2. PICK m \in 1..n : j = l + m /\ handlerQueue'[j] = s[m]
        BY <1>c, <3>4
      <4>3. ids[k] = ids[m]
        BY <1>5, <2>1, <4>1, <4>2
      <4> QED
        BY <1>3, <4>1, <4>2, <4>3
    <3> QED
      BY <3>1, <3>2, <3>3, <3>4
  <2> QED
    BY <1>7, <2>1 DEF OneSignal
<1>10. ASSUME NEW kind, \A e \in kind : e.type # "loaded"
       PROVE  Times(handlerQueue', kind) = Times(handlerQueue, kind)
  <2>1. \A i \in DOMAIN s : s[i] \notin kind
    BY <1>2, <1>5, <1>10
  <2>2. Times(s, kind) = 0 /\ Times(handlerQueue, kind) \in Nat
    BY <1>5, <1>6, <2>1, TimesFinite
  <2>3. Times(handlerQueue \o s, kind) = Times(handlerQueue, kind) + Times(s, kind)
    BY <1>5, <1>6, TimesConcat
  <2>4. handlerQueue' = handlerQueue \o s
    BY <1>1 DEF s
  <2> QED
    BY <2>2, <2>3, <2>4
<1>a0. ASSUME NEW r
       PROVE  Times(handlerQueue', [type : {"download"}, requester : {r}])
                = Times(handlerQueue, [type : {"download"}, requester : {r}])
  <2> DEFINE kind == [type : {"download"}, requester : {r}]
  <2>1. \A e \in kind : e.type # "loaded"
    BY QueuedFor
  <2> HIDE DEF kind
  <2>2. Times(handlerQueue', kind) = Times(handlerQueue, kind)
    BY <1>10, <2>1
  <2> QED
    BY <2>2 DEF kind
<1>11. \A e \in ToSet(handlerQueue') : e.type # "loaded" => e \in ToSet(handlerQueue)
  BY <1>5, <1>7, <1>c DEF ToSet
<1>12. ToSet(handlerQueue) \subseteq ToSet(handlerQueue')
  BY <1>7, <1>b DEF ToSet
<1> QED
  BY <1>7, <1>d, <1>9, <1>10, <1>a0, <1>11, <1>12

(* What libcurl still transfers is of the same kind.                       *)
LEMMA RestTyped ==
  ASSUME DownloadTypeOK, NEW S
  PROVE  /\ Without(transfers, S) \in [DOMAIN Without(transfers, S) -> Transfers]
         /\ DOMAIN Without(transfers, S) \subseteq Ids
         /\ Cardinality(DOMAIN Without(transfers, S)) \in 0..Cardinality(Ids)
         /\ DOMAIN Without(transfers, S) = DOMAIN transfers \ S
<1>1. /\ transfers \in [DOMAIN transfers -> Transfers] /\ DOMAIN transfers \subseteq Ids
      /\ DOMAIN Without(transfers, S) = DOMAIN transfers \ S
      /\ \A i \in DOMAIN Without(transfers, S) : Without(transfers, S)[i] = transfers[i]
  BY DEF DownloadTypeOK, Without, Transfers
<1>2. IsFiniteSet(Ids) /\ DOMAIN transfers \ S \in SUBSET Ids /\ Cardinality(Ids) \in Nat
  BY <1>1, TypeFacts
<1>3. Cardinality(DOMAIN transfers \ S) \in Nat
      /\ Cardinality(DOMAIN transfers \ S) <= Cardinality(Ids)
  BY <1>2, FS_Subset, FS_CardinalityType
<1>4. Without(transfers, S) \in [DOMAIN Without(transfers, S) -> Transfers]
  <2>1. \A i \in DOMAIN Without(transfers, S) : Without(transfers, S)[i] \in Transfers
    BY <1>1
  <2>2. Without(transfers, S) = [i \in DOMAIN Without(transfers, S) |-> Without(transfers, S)[i]]
    BY DEF Without
  <2> QED
    BY <2>1, <2>2
<1> QED
  BY <1>1, <1>2, <1>3, <1>4

(* The handler turns to whoever is pending.                                *)
LEMMA CountChangedTyped ==
  ASSUME DownloadTypeOK, NEW done, NEW count,
         count = Cardinality(DOMAIN Without(transfers, done)),
         onCountChanged(Without(transfers, done), count),
         parentOf' = parentOf, redirectsOf' = redirectsOf
  PROVE  /\ NextLoaded(Without(transfers, done)) \/
              (/\ transfers' = Without(transfers, done) /\ activeIds' = activeIds
               /\ pendingRequesters' = pendingRequesters
               /\ requestCounter' = requestCounter)
         /\ pendingRequesters' \in Seq(Requesters) /\ MapsOK' /\ Ids \subseteq Ids'
         /\ transfers' \in [DOMAIN transfers' -> Transfers] /\ DOMAIN transfers' \subseteq Ids'
         /\ stillRunning' \in 0..Cardinality(Ids')
<1> DEFINE others == Without(transfers, done)
<1>1. /\ others \in [DOMAIN others -> Transfers] /\ DOMAIN others \subseteq Ids
      /\ count \in 0..Cardinality(Ids)
  BY RestTyped
<1>2. MapsOK /\ WaitOK
  BY TypeParts
<1> HIDE DEF others
<1>3. CASE count >= maxParallelConnections
  <2>1. /\ transfers' = others /\ stillRunning' = count /\ activeIds' = activeIds
        /\ pendingRequesters' = pendingRequesters /\ requestCounter' = requestCounter
    BY <1>3 DEF onCountChanged, others
  <2>2. Ids' = Ids
    BY <2>1 DEF Ids
  <2>3. MapsOK' /\ pendingRequesters' \in Seq(Requesters)
    BY <1>2, <2>1, <2>2 DEF MapsOK, WaitOK
  <2> QED
    BY <1>1, <2>1, <2>2, <2>3 DEF others
<1>4. CASE ~(count >= maxParallelConnections)
  <2>1. loadFirstUnpaused(pausedRequesters, others, count)
    BY <1>4 DEF onCountChanged, others
  <2>2. pendingRequesters \in Seq(Requesters)
    BY <1>2 DEF WaitOK
  <2>3. NextLoaded(others) /\ Recounted(count)
    BY <2>1, <2>2, LoadFirstIs
  <2>4. /\ pendingRequesters' \in Seq(Requesters) /\ MapsOK' /\ Ids \subseteq Ids'
        /\ transfers' \in [DOMAIN transfers' -> Transfers] /\ DOMAIN transfers' \subseteq Ids'
        /\ stillRunning' \in 0..Cardinality(Ids')
    BY <1>1, <1>2, <2>2, <2>3, NextLoadedTyped
  <2> QED
    BY <2>3, <2>4 DEF others
<1> QED
  BY <1>3, <1>4

(* doAction turns to whoever is pending or leaves everybody alone.         *)
LEMMA ActionTyped ==
  ASSUME DownloadTypeOK, NEW done \in SUBSET DOMAIN transfers, doAction(done)
  PROVE  /\ NextLoaded(Without(transfers, done)) \/
              (/\ transfers' = Without(transfers, done) /\ activeIds' = activeIds
               /\ pendingRequesters' = pendingRequesters
               /\ requestCounter' = requestCounter)
         /\ DownloadTypeOK'
<1>1. WorkerOK /\ QueueOK /\ WaitOK /\ MapsOK /\ CurlOK
  BY TypeParts
<1> DEFINE others == Without(transfers, done)
           count == Cardinality(DOMAIN others)
<1>2. /\ parentOf' = parentOf /\ redirectsOf' = redirectsOf /\ emitLoaded(done)
      /\ UNCHANGED <<workerVars, messages, pauseRange, requesterQueue, pausedRequesters>>
      /\ actionDue' \in BOOLEAN
  BY DEF doAction
<1>3. /\ NextLoaded(others) \/
           (/\ transfers' = others /\ activeIds' = activeIds
            /\ pendingRequesters' = pendingRequesters
            /\ requestCounter' = requestCounter)
      /\ pendingRequesters' \in Seq(Requesters) /\ MapsOK' /\ Ids \subseteq Ids'
      /\ transfers' \in [DOMAIN transfers' -> Transfers] /\ DOMAIN transfers' \subseteq Ids'
      /\ stillRunning' \in 0..Cardinality(Ids')
  <2>1. CASE count # stillRunning
    <3>1. onCountChanged(others, count)
      BY <2>1 DEF doAction
    <3> QED
      BY <1>2, <3>1, CountChangedTyped
  <2>2. CASE count = stillRunning
    <3>1. /\ transfers' = others /\ stillRunning' = stillRunning /\ activeIds' = activeIds
          /\ pendingRequesters' = pendingRequesters /\ requestCounter' = requestCounter
      BY <2>2 DEF doAction
    <3>2. /\ others \in [DOMAIN others -> Transfers] /\ DOMAIN others \subseteq Ids
      BY RestTyped
    <3>3. Ids' = Ids
      BY <3>1 DEF Ids
    <3> HIDE DEF others, count
    <3>4. MapsOK' /\ pendingRequesters' \in Seq(Requesters) /\ stillRunning' \in 0..Cardinality(Ids')
      BY <1>1, <1>2, <3>1, <3>3 DEF MapsOK, WaitOK, CurlOK
    <3> QED
      BY <3>1, <3>2, <3>3, <3>4
  <2> QED
    BY <2>1, <2>2
<1> HIDE DEF others, count
<1>4. handlerQueue' \in Seq(Events) /\ loadedIds' = loadedIds \cup done
  BY <1>2, Emitted
<1>5. done \subseteq Ids
  BY <1>1 DEF CurlOK
<1>6. QueueOK'
  BY <1>1, <1>3, <1>4, <1>5 DEF QueueOK
<1>7. WorkerOK' /\ WaitOK' /\ CurlOK'
  <2>1. WorkerOK'
    BY <1>1, <1>2 DEF WorkerOK, workerVars
  <2> QED
    BY <1>1, <1>2, <1>3, <2>1 DEF WaitOK, CurlOK
<1> QED
  BY <1>3, <1>6, <1>7, TypeParts DEF others

(* timeoutAction tells nobody.                                             *)
LEMMA TimeoutTyped ==
  ASSUME DownloadTypeOK, NEW done \in SUBSET DOMAIN transfers, timeoutAction(done)
  PROVE  DownloadTypeOK'
<1>1. WorkerOK /\ QueueOK /\ WaitOK /\ MapsOK /\ CurlOK
  BY TypeParts
<1>2. /\ UNCHANGED <<workerVars, messages, waitVars, mapVars, requestCounter, actionDue>>
      /\ emitLoaded(done) /\ transfers' = Without(transfers, done)
      /\ stillRunning' = Cardinality(DOMAIN Without(transfers, done))
  BY DEF timeoutAction
<1>3. Ids' = Ids
  BY <1>2 DEF Ids
<1>4. handlerQueue' \in Seq(Events) /\ loadedIds' = loadedIds \cup done
  BY <1>2, Emitted
<1>5. QueueOK'
  <2>1. done \subseteq Ids
    BY <1>1 DEF CurlOK
  <2> QED
    BY <1>1, <1>3, <1>4, <2>1 DEF QueueOK
<1>6. CurlOK'
  BY <1>1, <1>2, <1>3, RestTyped DEF CurlOK
<1>7. WorkerOK' /\ WaitOK' /\ MapsOK'
  <2>1. WorkerOK' /\ WaitOK'
    BY <1>1, <1>2 DEF WorkerOK, workerVars, WaitOK, waitVars
  <2> QED
    BY <1>1, <1>2, <1>3, <2>1 DEF MapsOK, mapVars
<1> QED
  BY <1>5, <1>6, <1>7, TypeParts

(* The steps of libcurl keep the types.                                    *)
LEMMA CurlTyped ==
  ASSUME DownloadTypeOK, Curl
  PROVE  DownloadTypeOK'
<1>1. CASE socketFunctionCallback
  <2>1. WorkerOK /\ QueueOK /\ WaitOK /\ MapsOK /\ CurlOK
    BY TypeParts
  <2>2. /\ UNCHANGED <<workerVars, messages, handlerQueue, waitVars, mapVars, transfers,
                       stillRunning, requestCounter>>
        /\ actionDue' = TRUE /\ Ids' = Ids /\ loadedIds' = loadedIds
    BY <1>1 DEF socketFunctionCallback, Ids, loadedIds
  <2>3. WorkerOK' /\ WaitOK'
    BY <2>1, <2>2 DEF WorkerOK, workerVars, WaitOK, waitVars
  <2>4. QueueOK' /\ MapsOK' /\ CurlOK'
    BY <2>1, <2>2 DEF QueueOK, MapsOK, CurlOK, mapVars
  <2> QED
    BY <2>3, <2>4, TypeParts
<1> QED
  BY <1>1, ActionTyped, TimeoutTyped DEF Curl

(* What each call or signal carries.                                       *)
LEMMA EventTyped ==
  ASSUME NEW e \in Events
  PROVE  /\ e.type \in {"download", "pause", "unpause", "reset", "loaded"}
         /\ e.type = "download" => /\ e.requester \in Requesters
                                   /\ e = [type |-> "download", requester |-> e.requester]
         /\ e.type \in {"pause", "unpause", "reset"} => e.requesters \in SUBSET Addresses
         /\ e.type = "loaded" => e.id \in Nat /\ e.hop \in 1..maxRedirects
BY DEF Events, Messages

(* The oldest call is taken from the handler's queue.                      *)
LEMMA Taken ==
  ASSUME DownloadTypeOK, handlerQueue # <<>>, handlerQueue' = Tail(handlerQueue)
  PROVE  /\ Head(handlerQueue) \in Events /\ handlerQueue' \in Seq(Events)
         /\ loadedIds' \subseteq loadedIds
         /\ Head(handlerQueue).type # "loaded" => loadedIds' = loadedIds
         /\ Head(handlerQueue).type = "loaded" => Head(handlerQueue).id \in loadedIds
         /\ Head(handlerQueue).type = "loaded" /\ LoadedOnce
              => loadedIds' = loadedIds \ {Head(handlerQueue).id}
         /\ LoadedOnce => OneSignal(handlerQueue')
         /\ \A r : Times(handlerQueue, [type : {"download"}, requester : {r}])
                     = Times(handlerQueue', [type : {"download"}, requester : {r}])
                       + (IF Head(handlerQueue) = [type |-> "download", requester |-> r]
                          THEN 1 ELSE 0)
         /\ ToSet(handlerQueue) = ToSet(handlerQueue') \cup {Head(handlerQueue)}
<1> DEFINE h == Head(handlerQueue)
           l == Len(handlerQueue)
<1>1. handlerQueue \in Seq(Events)
  BY DEF DownloadTypeOK
<1>2. /\ handlerQueue' \in Seq(Events) /\ h \in Events
      /\ l \in Nat /\ l # 0 /\ DOMAIN handlerQueue = 1..l /\ DOMAIN handlerQueue' = 1..(l - 1)
      /\ handlerQueue[1] = h
      /\ \A i \in 1..(l - 1) : handlerQueue'[i] = handlerQueue[i + 1]
  BY <1>1
<1> HIDE DEF h, l
<1>3. /\ 1 \in 1..l
      /\ \A i \in 1..(l - 1) : i + 1 \in 1..l
      /\ \A i \in 1..l : i = 1 \/ (i - 1 \in 1..(l - 1) /\ i = (i - 1) + 1)
  BY <1>2
<1>4. \A i \in 1..l : \/ handlerQueue[i] = h
                      \/ \E k \in 1..(l - 1) : i = k + 1 /\ handlerQueue[i] = handlerQueue'[k]
  BY <1>2, <1>3
<1>5. ToSet(handlerQueue) = ToSet(handlerQueue') \cup {h}
  <2>1. ASSUME NEW e \in ToSet(handlerQueue) PROVE e \in ToSet(handlerQueue') \cup {h}
    <3>1. PICK i \in 1..l : e = handlerQueue[i]
      BY <1>2 DEF ToSet
    <3>2. CASE \E k \in 1..(l - 1) : i = k + 1 /\ handlerQueue[i] = handlerQueue'[k]
      BY <1>2, <3>1, <3>2 DEF ToSet
    <3> QED
      BY <1>4, <3>1, <3>2
  <2>2. h \in ToSet(handlerQueue)
    BY <1>2, <1>3 DEF ToSet
  <2>3. \A e \in ToSet(handlerQueue') : e \in ToSet(handlerQueue)
    BY <1>2, <1>3 DEF ToSet
  <2> QED
    BY <2>1, <2>2, <2>3
<1>6. /\ loadedIds' \subseteq loadedIds
      /\ h.type # "loaded" => loadedIds' = loadedIds
      /\ h.type = "loaded" => h.id \in loadedIds
  BY <1>5 DEF loadedIds
<1>7. ASSUME LoadedOnce PROVE OneSignal(handlerQueue')
  <2>1. OneSignal(handlerQueue)
    BY <1>7 DEF LoadedOnce, OneSignal
  <2>2. ASSUME NEW i \in 1..(l - 1), NEW j \in 1..(l - 1),
               handlerQueue'[i].type = "loaded", handlerQueue'[j].type = "loaded",
               handlerQueue'[i].id = handlerQueue'[j].id
        PROVE  i = j
    <3>1. i + 1 = j + 1
      BY <1>2, <1>3, <2>1, <2>2 DEF OneSignal
    <3> QED
      BY <1>2, <3>1
  <2> QED
    BY <1>2, <2>2 DEF OneSignal
<1>8. ASSUME h.type = "loaded", LoadedOnce PROVE loadedIds' = loadedIds \ {h.id}
  <2>1. OneSignal(handlerQueue)
    BY <1>8 DEF LoadedOnce, OneSignal
  <2>2. ASSUME NEW i \in 1..(l - 1), handlerQueue'[i].type = "loaded"
        PROVE  handlerQueue'[i].id # h.id
    <3>1. i + 1 # 1
      BY <1>2
    <3> QED
      BY <1>2, <1>3, <1>8, <2>1, <2>2, <3>1 DEF OneSignal
  <2>3. h.id \notin loadedIds'
    BY <1>2, <2>2, SignalIds
  <2>4. \A id \in loadedIds : id = h.id \/ id \in loadedIds'
    BY <1>5 DEF loadedIds
  <2> QED
    BY <1>6, <2>3, <2>4
<1>9. ASSUME NEW r
      PROVE  Times(handlerQueue, [type : {"download"}, requester : {r}])
                     = Times(handlerQueue', [type : {"download"}, requester : {r}])
                       + (IF h = [type |-> "download", requester |-> r] THEN 1 ELSE 0)
  <2> DEFINE kind == [type : {"download"}, requester : {r}]
  <2>1. h \in kind <=> h = [type |-> "download", requester |-> r]
    OBVIOUS
  <2> HIDE DEF kind
  <2>2. Times(handlerQueue, kind)
          = Times(Tail(handlerQueue), kind) + (IF Head(handlerQueue) \in kind THEN 1 ELSE 0)
    BY <1>1, TimesTail
  <2>3. Times(handlerQueue, kind) = Times(handlerQueue', kind) + (IF h \in kind THEN 1 ELSE 0)
    BY <2>2 DEF h
  <2> QED
    BY <2>1, <2>3 DEF kind
<1> QED
  BY <1>2, <1>5, <1>6, <1>7, <1>8, <1>9 DEF h

(* A request to download is queued behind the others or handed to libcurl. *)
LEMMA DownloadTyped ==
  ASSUME DownloadTypeOK, NEW r \in Requesters, NEW pending \in Seq(Requesters),
         load(r, pending, pausedRequesters, transfers, stillRunning),
         parentOf' = parentOf, redirectsOf' = redirectsOf
  PROVE  /\ Loaded(r, pending, transfers)
         /\ pendingRequesters' \in Seq(Requesters) /\ MapsOK' /\ Ids \subseteq Ids'
         /\ transfers' \in [DOMAIN transfers' -> Transfers] /\ DOMAIN transfers' \subseteq Ids'
         /\ stillRunning' \in 0..Cardinality(Ids')
<1>1. MapsOK /\ CurlOK
  BY TypeParts
<1>2. Loaded(r, pending, transfers) /\ Recounted(stillRunning)
  BY LoadIs
<1> QED
  BY <1>1, <1>2, LoadedTyped DEF CurlOK

(* The timer of the pause between requests keeps the types.                *)
LEMMA TickTyped ==
  ASSUME DownloadTypeOK, onTimerTicked
  PROVE  DownloadTypeOK'
<1>1. WorkerOK /\ QueueOK /\ WaitOK /\ MapsOK /\ CurlOK
  BY TypeParts
<1> DEFINE r == Head(requesterQueue)
<1>2. r \in Requesters /\ Tail(requesterQueue) \in Seq(Requesters)
  BY <1>1 DEF onTimerTicked, WaitOK
<1>3. /\ UNCHANGED <<workerVars, messages, handlerQueue, pauseRange, pausedRequesters,
                     parentOf, redirectsOf, actionDue>>
      /\ requesterQueue' = Tail(requesterQueue)
      /\ load(r, pendingRequesters, pausedRequesters, transfers, stillRunning)
  BY DEF onTimerTicked
<1> HIDE DEF r
<1>4. /\ pendingRequesters' \in Seq(Requesters) /\ MapsOK' /\ Ids \subseteq Ids'
      /\ transfers' \in [DOMAIN transfers' -> Transfers] /\ DOMAIN transfers' \subseteq Ids'
      /\ stillRunning' \in 0..Cardinality(Ids')
  BY <1>1, <1>2, <1>3, DownloadTyped DEF WaitOK
<1>5. WorkerOK' /\ QueueOK'
  BY <1>1, <1>3, <1>4 DEF WorkerOK, workerVars, QueueOK, loadedIds
<1>6. WaitOK' /\ CurlOK'
  BY <1>1, <1>2, <1>3, <1>4 DEF WaitOK, CurlOK
<1> QED
  BY <1>4, <1>5, <1>6, TypeParts

(* So does a new range for that pause.                                     *)
LEMMA RangeTyped ==
  ASSUME DownloadTypeOK, setPauseRange
  PROVE  DownloadTypeOK'
<1>1. WorkerOK /\ QueueOK /\ WaitOK /\ MapsOK /\ CurlOK
  BY TypeParts
<1>2. /\ UNCHANGED <<workerVars, messages, handlerQueue, requesterQueue,
                     pendingRequesters, pausedRequesters, mapVars, curlVars>>
      /\ pauseRange' \in BOOLEAN
  BY DownloadAssumption DEF setPauseRange
<1>3. Ids' = Ids /\ loadedIds' = loadedIds
  BY <1>2 DEF Ids, loadedIds, curlVars
<1>4. WorkerOK' /\ WaitOK'
  BY <1>1, <1>2 DEF WorkerOK, workerVars, WaitOK
<1>5. QueueOK' /\ MapsOK' /\ CurlOK'
  BY <1>1, <1>2, <1>3 DEF QueueOK, MapsOK, CurlOK, mapVars, curlVars
<1> QED
  BY <1>4, <1>5, TypeParts

(* What a call of the handler leaves, as far as types go.                  *)
Handled ==
  /\ messages' \in Seq(Messages) /\ (dispatching => messages' # <<>>)
  /\ requesterQueue' \in Seq(Requesters) /\ pendingRequesters' \in Seq(Requesters)
  /\ pausedRequesters' \subseteq Addresses
  /\ MapsOK' /\ Ids \subseteq Ids'
  /\ transfers' \in [DOMAIN transfers' -> Transfers] /\ DOMAIN transfers' \subseteq Ids'
  /\ stillRunning' \in 0..Cardinality(Ids')

(* Maps from which ids are taken are well typed.                           *)
LEMMA MapsCut ==
  ASSUME MapsOK, requestCounter' = requestCounter, NEW K, NEW S, NEW R,
         activeIds' = Without(activeIds, K), parentOf' = Without(parentOf, S),
         redirectsOf' = Without(redirectsOf, R)
  PROVE  MapsOK' /\ Ids' = Ids
<1>1. Ids' = Ids
  BY DEF Ids
<1>2. /\ DOMAIN activeIds' = DOMAIN activeIds \ K
      /\ \A i \in DOMAIN activeIds' : activeIds'[i] = activeIds[i]
      /\ activeIds' = [i \in DOMAIN activeIds' |-> activeIds'[i]]
  BY DEF Without
<1>3. activeIds' \in [DOMAIN activeIds' -> Requesters] /\ DOMAIN activeIds' \subseteq Ids
  BY <1>2 DEF MapsOK
<1>4. \A id \in DOMAIN parentOf' : id \in DOMAIN parentOf /\ parentOf'[id] = parentOf[id]
  BY DEF Without
<1>5. \A id \in DOMAIN redirectsOf' : id \in DOMAIN redirectsOf
                                      /\ redirectsOf'[id] = redirectsOf[id]
  BY DEF Without
<1> QED
  BY <1>1, <1>3, <1>4, <1>5 DEF MapsOK

(* Pausing or unpausing transfers leaves them what they are.               *)
LEMMA PausedTyped ==
  ASSUME CurlOK, NEW ids, NEW flag \in BOOLEAN, SetPaused(ids, flag)
  PROVE  transfers' \in [DOMAIN transfers -> Transfers] /\ DOMAIN transfers' = DOMAIN transfers
<1>1. ASSUME NEW id \in DOMAIN transfers
      PROVE  transfers[id] \in Transfers /\ [transfers[id] EXCEPT !.paused = flag] \in Transfers
  <2>1. transfers[id] \in Transfers
    BY DEF CurlOK
  <2> QED
    BY <2>1 DEF Transfers
<1> QED
  BY <1>1 DEF SetPaused

(* The handler posts to a worker that may be dispatching.                  *)
LEMMA AnswerPosted ==
  ASSUME messages \in Seq(Messages), NEW m \in Messages, messages' = Append(messages, m)
  PROVE  messages' \in Seq(Messages) /\ messages' # <<>>
OBVIOUS

(* A request to download keeps the types.                                  *)
LEMMA HandleDownloadTyped ==
  ASSUME DownloadTypeOK, NEW r \in Requesters, handleDownload(r)
  PROVE  Handled
<1>1. WorkerOK /\ QueueOK /\ WaitOK /\ MapsOK /\ CurlOK
  BY TypeParts
<1>2. CASE pauseRange
  <2>1. /\ requesterQueue' = Append(requesterQueue, r)
        /\ UNCHANGED <<messages, pausedRequesters, pendingRequesters, mapVars, transfers,
                       stillRunning, requestCounter>>
    BY <1>2 DEF handleDownload, mapVars
  <2>2. Ids' = Ids
    BY <2>1 DEF Ids
  <2>3. MapsOK'
    BY <1>1, <2>1, <2>2 DEF MapsOK, mapVars
  <2> QED
    BY <1>1, <2>1, <2>2, <2>3 DEF Handled, WorkerOK, WaitOK, CurlOK
<1>3. CASE ~pauseRange
  <2>1. /\ load(r, pendingRequesters, pausedRequesters, transfers, stillRunning)
        /\ UNCHANGED <<messages, requesterQueue, pausedRequesters, parentOf, redirectsOf>>
    BY <1>3 DEF handleDownload
  <2>2. /\ pendingRequesters' \in Seq(Requesters) /\ MapsOK' /\ Ids \subseteq Ids'
        /\ transfers' \in [DOMAIN transfers' -> Transfers] /\ DOMAIN transfers' \subseteq Ids'
        /\ stillRunning' \in 0..Cardinality(Ids')
    BY <1>1, <2>1, DownloadTyped DEF WaitOK
  <2> QED
    BY <1>1, <2>1, <2>2 DEF Handled, WorkerOK, WaitOK
<1> QED
  BY <1>2, <1>3

(* So does pauseRequesters, which neither adds nor takes transfers.        *)
LEMMA PauseTyped ==
  ASSUME DownloadTypeOK, NEW A \in SUBSET Addresses, pauseRequesters(A)
  PROVE  Handled /\ DOMAIN transfers' = DOMAIN transfers
<1>1. WorkerOK /\ QueueOK /\ WaitOK /\ MapsOK /\ CurlOK
  BY TypeParts
<1>2. /\ SetPaused(requestIndexes(pausedRequesters'), TRUE)
      /\ pausedRequesters' = pausedRequesters \cup A
      /\ UNCHANGED <<messages, requesterQueue, pendingRequesters, mapVars,
                     stillRunning, requestCounter>>
  BY DEF pauseRequesters
<1>3. transfers' \in [DOMAIN transfers -> Transfers] /\ DOMAIN transfers' = DOMAIN transfers
  BY <1>1, <1>2, PausedTyped
<1>4. Ids' = Ids
  BY <1>2 DEF Ids
<1>5. MapsOK'
  BY <1>1, <1>2, <1>4 DEF MapsOK, mapVars
<1> QED
  BY <1>1, <1>2, <1>3, <1>4, <1>5 DEF Handled, WorkerOK, WaitOK, CurlOK

(* Unpaused requests go on, or somebody pending is loaded.                 *)
LEMMA UnpauseTyped ==
  ASSUME DownloadTypeOK, NEW A \in SUBSET Addresses, unpauseRequesters(A)
  PROVE  /\ Handled
         /\ NextLoaded(transfers) \/ (/\ DOMAIN transfers' = DOMAIN transfers
                                      /\ activeIds' = activeIds
                                      /\ pendingRequesters' = pendingRequesters
                                      /\ requestCounter' = requestCounter)
<1>1. WorkerOK /\ QueueOK /\ WaitOK /\ MapsOK /\ CurlOK
  BY TypeParts
<1>2. /\ pausedRequesters' \subseteq Addresses
      /\ UNCHANGED <<messages, requesterQueue, parentOf, redirectsOf>>
  BY <1>1 DEF unpauseRequesters, WaitOK
<1> DEFINE ids == requestIndexes(A)
<1>3. CASE ids = {}
  <2>1. loadFirstUnpaused(pausedRequesters', transfers, stillRunning)
    BY <1>3 DEF unpauseRequesters
  <2>2. NextLoaded(transfers) /\ Recounted(stillRunning)
    BY <1>1, <2>1, LoadFirstIs DEF WaitOK
  <2>3. /\ pendingRequesters' \in Seq(Requesters) /\ MapsOK' /\ Ids \subseteq Ids'
        /\ transfers' \in [DOMAIN transfers' -> Transfers] /\ DOMAIN transfers' \subseteq Ids'
        /\ stillRunning' \in 0..Cardinality(Ids')
    BY <1>1, <1>2, <2>2, NextLoadedTyped DEF WaitOK, CurlOK
  <2> QED
    BY <1>1, <1>2, <2>2, <2>3 DEF Handled, WorkerOK, WaitOK
<1>4. CASE ids # {}
  <2>1. /\ SetPaused(ids, FALSE)
        /\ stillRunning' = IF ids \cap DOMAIN transfers = {} THEN stillRunning
                           ELSE Cardinality(DOMAIN transfers)
        /\ UNCHANGED <<pendingRequesters, activeIds, requestCounter>>
    BY <1>4 DEF unpauseRequesters
  <2> HIDE DEF ids
  <2>2. transfers' \in [DOMAIN transfers -> Transfers] /\ DOMAIN transfers' = DOMAIN transfers
    BY <1>1, <2>1, PausedTyped
  <2>3. Ids' = Ids
    BY <2>1 DEF Ids
  <2>4. Cardinality(DOMAIN transfers) \in 0..Cardinality(Ids)
    <3>1. DOMAIN transfers \in SUBSET Ids /\ IsFiniteSet(Ids) /\ Cardinality(Ids) \in Nat
      BY <1>1, TypeFacts DEF CurlOK
    <3>2. Cardinality(DOMAIN transfers) \in Nat
          /\ Cardinality(DOMAIN transfers) <= Cardinality(Ids)
      BY <3>1, FS_Subset, FS_CardinalityType
    <3> QED
      BY <3>1, <3>2
  <2>5. stillRunning' \in 0..Cardinality(Ids)
    BY <1>1, <2>1, <2>4 DEF CurlOK
  <2>6. MapsOK'
    BY <1>1, <1>2, <2>1, <2>3 DEF MapsOK
  <2>7. Handled
    BY <1>1, <1>2, <2>1, <2>2, <2>3, <2>5, <2>6 DEF Handled, WorkerOK, WaitOK, CurlOK
  <2> QED
    BY <2>1, <2>2, <2>7
<1> QED
  BY <1>3, <1>4

(* So does resetRequesters.                                                *)
LEMMA ResetTyped ==
  ASSUME DownloadTypeOK, NEW A \in SUBSET Addresses, resetRequesters(A)
  PROVE  Handled
<1>1. WorkerOK /\ QueueOK /\ WaitOK /\ MapsOK /\ CurlOK
  BY TypeParts
<1> DEFINE ids == requestIndexes(A)
<1>2. /\ pausedRequesters' = pausedRequesters \ A
      /\ pendingRequesters' =
           Kept(pendingRequesters, {r \in LiveRequesters : address[r] \notin A})
      /\ transfers' = Without(transfers, ids)
      /\ activeIds' = Without(activeIds, ids)
      /\ removeRequestIndexesChain(ids)
      /\ messages' = Append(messages, [type |-> "resetDone", requesters |-> {}])
      /\ UNCHANGED <<requesterQueue, stillRunning, requestCounter>>
  BY DEF resetRequesters
<1> HIDE DEF ids
<1>3. MapsOK' /\ Ids' = Ids
  BY <1>1, <1>2, MapsCut DEF removeRequestIndexesChain
<1>4. messages' \in Seq(Messages) /\ messages' # <<>>
  <2>1. [type |-> "resetDone", requesters |-> {}] \in Messages
    BY DEF Messages
  <2>2. messages \in Seq(Messages)
    BY <1>1 DEF WorkerOK
  <2> QED
    BY <1>2, <2>1, <2>2, AnswerPosted
<1>5. pendingRequesters' \in Seq(Requesters)
  BY <1>1, <1>2, TimesKept DEF WaitOK
<1>6. transfers' \in [DOMAIN transfers' -> Transfers] /\ DOMAIN transfers' \subseteq Ids
  BY <1>2, RestTyped
<1>7. requesterQueue' \in Seq(Requesters) /\ pausedRequesters' \subseteq Addresses
      /\ stillRunning' \in 0..Cardinality(Ids)
  BY <1>1, <1>2 DEF WaitOK, CurlOK
<1> QED
  BY <1>3, <1>4, <1>5, <1>6, <1>7 DEF Handled

(* So does a redirect, whose id is new.                                    *)
LEMMA FollowTyped ==
  ASSUME DownloadTypeOK, NEW id \in Ids, NEW hop \in 1..maxRedirects, hop # maxRedirects,
         followLocation(id, hop), UNCHANGED <<requesterQueue, pendingRequesters>>
  PROVE  Handled
<1>1. WorkerOK /\ QueueOK /\ WaitOK /\ MapsOK /\ CurlOK
  BY TypeParts
<1> DEFINE c == requestCounter
           t == [paused |-> FALSE, hop |-> hop + 1]
<1>2. /\ requestCounter' = c + 1
      /\ transfers' = With(transfers, c, t)
      /\ stillRunning' \in {stillRunning, Cardinality(DOMAIN transfers')}
      /\ parentOf' = With(parentOf, c, id)
      /\ redirectsOf' = With(redirectsOf, id, <<c>>)
      /\ UNCHANGED <<messages, pausedRequesters, activeIds>>
  BY DEF followLocation, get
<1>3. c \in Nat
  BY <1>1 DEF MapsOK
<1>4. /\ Ids \subseteq Ids' /\ c \in Ids' \ Ids
      /\ Cardinality(Ids) \in Nat /\ Cardinality(Ids') \in Nat
      /\ Cardinality(Ids) <= Cardinality(Ids')
      /\ \A S \in SUBSET Ids' : Cardinality(S) \in 0..Cardinality(Ids')
  BY <1>2, <1>3, IdsGrow
<1>5. t \in Transfers
  BY DownloadAssumption DEF Transfers
<1> HIDE DEF t
<1>6. transfers' \in [DOMAIN transfers' -> Transfers] /\ DOMAIN transfers' \subseteq Ids'
  BY <1>1, <1>2, <1>4, <1>5 DEF With, CurlOK
<1>7. stillRunning' \in 0..Cardinality(Ids')
  <2>1. stillRunning \in 0..Cardinality(Ids')
    BY <1>1, <1>4 DEF CurlOK
  <2> QED
    BY <1>2, <1>4, <1>6, <2>1
<1>8. \A i \in DOMAIN parentOf' : i \in Ids' /\ parentOf'[i] \in 0..(i - 1)
  <2>1. id \in 0..(c - 1)
    BY DEF Ids
  <2> QED
    BY <1>1, <1>2, <1>4, <2>1 DEF With, MapsOK
<1>9. \A i \in DOMAIN redirectsOf' : i \in Ids' /\ redirectsOf'[i] \in Seq(Ids')
  <2>1. \A i \in DOMAIN redirectsOf : i \in Ids' /\ redirectsOf[i] \in Seq(Ids')
    BY <1>1, <1>4, SeqMonotonic DEF MapsOK
  <2>2. <<c>> \in Seq(Ids') /\ id \in Ids'
    BY <1>4
  <2> QED
    BY <1>2, <2>1, <2>2 DEF With
<1>10. MapsOK'
  <2>1. activeIds' \in [DOMAIN activeIds' -> Requesters] /\ DOMAIN activeIds' \subseteq Ids'
    BY <1>1, <1>2, <1>4 DEF MapsOK
  <2>2. requestCounter' \in Nat
    BY <1>2, <1>3
  <2> QED
    BY <1>8, <1>9, <2>1, <2>2 DEF MapsOK
<1> QED
  BY <1>1, <1>2, <1>4, <1>6, <1>7, <1>10 DEF Handled, WorkerOK, WaitOK

(* So does forgetting a request that was looked at for the last time.      *)
LEMMA RemovedTyped ==
  ASSUME DownloadTypeOK, NEW id, removeLoadedResourceAssociatedData(id),
         messages' \in Seq(Messages), messages' = messages \/ messages' # <<>>,
         pausedRequesters' \subseteq Addresses,
         UNCHANGED <<transfers, stillRunning, requestCounter, requesterQueue, pendingRequesters>>
  PROVE  Handled
<1>1. WorkerOK /\ QueueOK /\ WaitOK /\ MapsOK /\ CurlOK
  BY TypeParts
<1>2. MapsOK' /\ Ids' = Ids
  BY <1>1, MapsCut DEF removeLoadedResourceAssociatedData, removeRequestIndexesChain
<1> QED
  BY <1>1, <1>2 DEF Handled, WorkerOK, WaitOK, CurlOK

(* So does a signal, in each of its outcomes.                              *)
LEMMA UrlLoadedTyped ==
  ASSUME DownloadTypeOK, NEW id \in Ids, NEW hop \in 1..maxRedirects, onUrlLoaded(id, hop)
  PROVE  Handled
<1>1. WorkerOK /\ QueueOK /\ WaitOK /\ MapsOK /\ CurlOK
  BY TypeParts
<1>2. UNCHANGED <<requesterQueue, pendingRequesters>>
  BY DEF onUrlLoaded
<1>3. ASSUME NEW r \in Requesters,
             messages' = Append(messages, [type |-> "answer", requester |-> r]),
             pausedRequesters' = pausedRequesters \ {address[r]},
             removeLoadedResourceAssociatedData(id),
             UNCHANGED <<transfers, stillRunning, requestCounter>>
      PROVE  Handled
  <2>1. [type |-> "answer", requester |-> r] \in Messages
    BY DEF Messages
  <2>2. messages' \in Seq(Messages) /\ messages' # <<>>
    BY <1>1, <1>3, <2>1, AnswerPosted DEF WorkerOK
  <2>3. pausedRequesters' \subseteq Addresses
    BY <1>1, <1>3 DEF WaitOK
  <2> QED
    BY <1>2, <1>3, <2>2, <2>3, RemovedTyped
<1>4. ASSUME removeLoadedResourceAssociatedData(id),
             UNCHANGED <<messages, pausedRequesters, transfers, stillRunning, requestCounter>>
      PROVE  Handled
  BY <1>1, <1>2, <1>4, RemovedTyped DEF WorkerOK, WaitOK
<1>5. ASSUME hop # maxRedirects, followLocation(id, hop) PROVE Handled
  BY <1>2, <1>5, FollowTyped
<1> QED
  BY <1>3, <1>4, <1>5 DEF onUrlLoaded, requesterById

(* Whatever the handler takes from its queue, the types hold afterwards.   *)
LEMMA HandlerTyped ==
  ASSUME DownloadTypeOK, handleRequest
  PROVE  DownloadTypeOK'
<1>1. WorkerOK /\ QueueOK /\ WaitOK /\ MapsOK /\ CurlOK
  BY TypeParts
<1> DEFINE e == Head(handlerQueue)
<1>2. /\ handlerQueue # <<>> /\ handlerQueue' = Tail(handlerQueue)
      /\ UNCHANGED <<workerVars, pauseRange, actionDue>>
  BY DEF handleRequest
<1>3. /\ e \in Events /\ handlerQueue' \in Seq(Events) /\ loadedIds' \subseteq loadedIds
      /\ e.type = "loaded" => e.id \in loadedIds
  BY <1>2, Taken
<1>4. Handled
  <2>1. \/ e.type = "download" /\ handleDownload(e.requester)
        \/ e.type = "pause" /\ pauseRequesters(e.requesters)
        \/ e.type = "unpause" /\ unpauseRequesters(e.requesters)
        \/ e.type = "reset" /\ resetRequesters(e.requesters)
        \/ e.type = "loaded" /\ onUrlLoaded(e.id, e.hop)
    BY DEF handleRequest
  <2> HIDE DEF e
  <2>2. /\ e.type = "download" => e.requester \in Requesters
        /\ e.type \in {"pause", "unpause", "reset"} => e.requesters \in SUBSET Addresses
        /\ e.type = "loaded" => e.id \in Ids /\ e.hop \in 1..maxRedirects
    BY <1>1, <1>3, EventTyped DEF QueueOK
  <2> QED
    BY <2>1, <2>2, HandleDownloadTyped, PauseTyped, UnpauseTyped, ResetTyped, UrlLoadedTyped
<1> HIDE DEF e
<1>5. WorkerOK'
  BY <1>1, <1>2, <1>4 DEF WorkerOK, workerVars, Handled
<1>6. QueueOK'
  BY <1>1, <1>3, <1>4 DEF QueueOK, Handled
<1>7. WaitOK' /\ MapsOK' /\ CurlOK'
  BY <1>1, <1>2, <1>4 DEF WaitOK, CurlOK, Handled
<1> QED
  BY <1>5, <1>6, <1>7, TypeParts

(* A step that changes nothing keeps the types.                            *)
LEMMA StutterTyped ==
  ASSUME DownloadTypeOK, UNCHANGED vars
  PROVE  DownloadTypeOK'
<1>1. WorkerOK /\ QueueOK /\ WaitOK /\ MapsOK /\ CurlOK
  BY TypeParts
<1>2. /\ UNCHANGED <<workerVars, messages, handlerQueue, waitVars, mapVars, curlVars>>
      /\ Ids' = Ids /\ loadedIds' = loadedIds
  BY DEF vars, curlVars, Ids, loadedIds
<1>3. WorkerOK' /\ WaitOK'
  BY <1>1, <1>2 DEF WorkerOK, workerVars, WaitOK, waitVars
<1>4. QueueOK' /\ MapsOK' /\ CurlOK'
  BY <1>1, <1>2 DEF QueueOK, MapsOK, CurlOK, mapVars, curlVars
<1> QED
  BY <1>3, <1>4, TypeParts

(* Every step keeps the types.                                             *)
LEMMA DownloadTyping ==
  ASSUME DownloadTypeOK, Unused, [Next]_vars
  PROVE  DownloadTypeOK'
BY WorkerTyped, DispatcherTyped, CurlTyped, HandlerTyped, TickTyped, RangeTyped,
   StutterTyped DEF Next

(* They hold at first, and nothing is loading.                             *)
LEMMA DownloadInit ==
  ASSUME Init
  PROVE  DownloadTypeOK /\ loadedIds = {} /\ Live = {}
<1>1. WorkerOK
  <2>1. 0 \in 0..MaxStops /\ 0 \in 0..MaxClears
    BY DownloadAssumption
  <2>2. <<>> \in Seq(Messages)
    OBVIOUS
  <2>3. [r \in Requesters |-> None] \in [Requesters -> Addresses \cup {None}]
    OBVIOUS
  <2> QED
    BY <2>1, <2>2, <2>3 DEF Init, WorkerOK
<1>2. loadedIds = {} /\ Live = {} /\ handlerQueue \in Seq(Events)
  <2>1. DOMAIN handlerQueue = {} /\ DOMAIN transfers = {}
    BY DEF Init
  <2> QED
    BY <2>1, SignalIds DEF Live, Init
<1>3. WaitOK /\ QueueOK
  <2>1. <<>> \in Seq(Requesters)
    OBVIOUS
  <2> QED
    BY <1>2, <2>1 DEF Init, WaitOK, QueueOK
<1>4. MapsOK
  BY DEF Init, MapsOK, Ids
<1>5. CurlOK
  <2>1. 0 \in 0..Cardinality(Ids)
    BY <1>4, TypeFacts, FS_EmptySet DEF Ids, Init
  <2>2. transfers \in [DOMAIN transfers -> Transfers] /\ DOMAIN transfers \subseteq Ids
    BY DEF Init
  <2> QED
    BY <2>1, <2>2 DEF Init, CurlOK
<1> QED
  BY <1>1, <1>2, <1>3, <1>4, <1>5, TypeParts

(* The places of a request, one by one.                                    *)
Asked(r) == Times(messages, [type : {"download", "answer"}, requester : {r}])
Called(r) == Times(handlerQueue, [type : {"download"}, requester : {r}])
Delayed(r) == Times(requesterQueue, {r})
Pending(r) == Times(pendingRequesters, {r})
Loading(r) == Cardinality(ownIds(r))

(***************************************************************************)
(* Places: what every step does to the number of places of a request.      *)
(***************************************************************************)

(* Places is the sum of the five, each of them a number.                   *)
LEMMA PlacesNow ==
  ASSUME DownloadTypeOK, Bound, NEW r
  PROVE  /\ Places(r) = Asked(r) + Called(r) + Delayed(r) + Pending(r) + Loading(r)
         /\ Asked(r) \in Nat /\ Called(r) \in Nat /\ Delayed(r) \in Nat
         /\ Pending(r) \in Nat /\ Loading(r) \in Nat /\ Places(r) \in Nat
<1>1. /\ messages \in Seq(Messages) /\ handlerQueue \in Seq(Events)
      /\ requesterQueue \in Seq(Requesters) /\ pendingRequesters \in Seq(Requesters)
      /\ DOMAIN activeIds \cap DOMAIN parentOf = {}
  BY DEF DownloadTypeOK, Bound
<1>2. /\ Asked(r) \in Nat /\ Called(r) \in Nat /\ Delayed(r) \in Nat /\ Pending(r) \in Nat
  BY <1>1, TimesFinite DEF Asked, Called, Delayed, Pending
<1>3. Loading(r) \in Nat
  BY <1>1, OwnSetNow DEF Loading
<1>4. Places(r) = Asked(r) + Called(r) + Delayed(r) + Pending(r) + Loading(r)
  BY DEF Places, Asked, Called, Delayed, Pending, Loading
<1> QED
  BY <1>2, <1>3, <1>4

(* The same after a step.                                                  *)
LEMMA PlacesNext ==
  ASSUME DownloadTypeOK', Bound', NEW r
  PROVE  /\ Places(r)' = Asked(r)' + Called(r)' + Delayed(r)' + Pending(r)' + Loading(r)'
         /\ Asked(r)' \in Nat /\ Called(r)' \in Nat /\ Delayed(r)' \in Nat
         /\ Pending(r)' \in Nat /\ Loading(r)' \in Nat /\ Places(r)' \in Nat
<1>1. /\ messages' \in Seq(Messages) /\ handlerQueue' \in Seq(Events)
      /\ requesterQueue' \in Seq(Requesters) /\ pendingRequesters' \in Seq(Requesters)
      /\ DOMAIN activeIds' \cap DOMAIN parentOf' = {}
  BY DEF DownloadTypeOK, Bound
<1>2. /\ Asked(r)' \in Nat /\ Called(r)' \in Nat /\ Delayed(r)' \in Nat /\ Pending(r)' \in Nat
  BY <1>1, TimesFinite DEF Asked, Called, Delayed, Pending
<1>3. Loading(r)' \in Nat
  BY <1>1, OwnSetNext DEF Loading
<1>4. Places(r)' = Asked(r)' + Called(r)' + Delayed(r)' + Pending(r)' + Loading(r)'
  BY DEF Places, Asked, Called, Delayed, Pending, Loading
<1> QED
  BY <1>2, <1>3, <1>4

(* Nobody's requests change.                                               *)
LEMMA SameLoading ==
  ASSUME Live' = Live, activeIds' = activeIds, parentOf' = parentOf, NEW r
  PROVE  Loading(r)' = Loading(r)
<1>1. \A id : ownedBy(r, id)' <=> ownedBy(r, id)
  BY DEF ownedBy, actualRequesterId, parentIdFor, Ancestry
<1>2. ownIds(r)' = ownIds(r)
  BY <1>1 DEF ownIds, Live
<1> QED
  BY <1>2 DEF Loading

(* A request that is loaded is in one place more; the others are where     *)
(* they were.                                                              *)
LEMMA LoadedFlow ==
  ASSUME DownloadTypeOK, Bound, DownloadTypeOK', Bound',
         NEW x, x \in Requesters, NEW pending \in Seq(Requesters), NEW others,
         Loaded(x, pending, others), parentOf' = parentOf,
         DOMAIN others \cup loadedIds' = Live, NEW r
  PROVE  /\ Pending(r)' + Loading(r)'
              = Times(pending, {r}) + Loading(r) + (IF r = x THEN 1 ELSE 0)
         /\ Times(pending, {r}) \in Nat
<1>1. Times(pending, {r}) \in Nat /\ Loading(r) \in Nat
  BY TimesFinite, PlacesNow
<1>2. CASE /\ pendingRequesters' = Append(pending, x) /\ transfers' = others
           /\ activeIds' = activeIds /\ requestCounter' = requestCounter
  <2>1. Live' = Live
    BY <1>2 DEF Live
  <2>2. Loading(r)' = Loading(r)
    BY <1>2, <2>1, SameLoading
  <2>3. Pending(r)' = Times(pending, {r}) + (IF x \in {r} THEN 1 ELSE 0)
    BY <1>2, TimesAppend DEF Pending
  <2> DEFINE t == Times(pending, {r})
             w == Pending(r)'
  <2> HIDE DEF t, w
  <2>4. t \in Nat /\ w = t + (IF x \in {r} THEN 1 ELSE 0)
    BY <1>1, <2>3 DEF t, w
  <2>5. w + Loading(r)' = t + Loading(r) + (IF r = x THEN 1 ELSE 0)
    BY <1>1, <2>2, <2>4
  <2> QED
    BY <1>1, <2>5 DEF t, w
<1>3. CASE /\ pendingRequesters' = pending
           /\ activeIds' = With(activeIds, requestCounter, x)
           /\ requestCounter' = requestCounter + 1
           /\ transfers' = With(others, requestCounter, [paused |-> FALSE, hop |-> 1])
  <2>1. /\ Falls(parentOf) /\ requestCounter \in Nat /\ Ids = 0..(requestCounter - 1)
        /\ DOMAIN parentOf \subseteq Ids /\ DOMAIN activeIds \subseteq Ids
        /\ Live \in SUBSET Ids
    BY TypeFacts
  <2>2. Live' = Live \cup {requestCounter}
    <3>1. DOMAIN transfers' = DOMAIN others \cup {requestCounter}
      BY <1>3 DEF With
    <3> QED
      BY <3>1 DEF Live
  <2>3. /\ ownIds(r) = OwnSet(activeIds, parentOf, Live, r) /\ IsFiniteSet(ownIds(r))
        /\ Cardinality(ownIds(r)) \in Nat
    BY OwnSetNow DEF Bound
  <2>4. ownIds(r)' = OwnSet(activeIds', parentOf', Live', r)
    BY OwnSetNext DEF Bound
  <2>5. /\ r = x => OwnSet(With(activeIds, requestCounter, x), parentOf,
                           Live \cup {requestCounter}, r)
                      = OwnSet(activeIds, parentOf, Live, r) \cup {requestCounter}
        /\ r # x => OwnSet(With(activeIds, requestCounter, x), parentOf,
                           Live \cup {requestCounter}, r)
                      = OwnSet(activeIds, parentOf, Live, r)
    BY <2>1, OwnLoaded
  <2>6. /\ r = x => ownIds(r)' = ownIds(r) \cup {requestCounter}
        /\ r # x => ownIds(r)' = ownIds(r)
    BY <1>3, <2>2, <2>3, <2>4, <2>5
  <2>7. requestCounter \notin ownIds(r)
    <3>1. ownIds(r) \subseteq Live
      BY <2>3 DEF OwnSet
    <3> QED
      BY <2>1, <3>1
  <2>8. Loading(r)' = Loading(r) + (IF r = x THEN 1 ELSE 0)
    <3>1. CASE r = x
      <4>1. ownIds(r)' = ownIds(r) \cup {requestCounter}
        BY <2>6, <3>1
      <4>2. Cardinality(ownIds(r) \cup {requestCounter}) = Cardinality(ownIds(r)) + 1
        BY <2>3, <2>7, FS_AddElement
      <4> QED
        BY <3>1, <4>1, <4>2 DEF Loading
    <3>2. CASE r # x
      BY <1>1, <2>6, <3>2 DEF Loading
    <3> QED
      BY <3>1, <3>2
  <2>9. Pending(r)' = Times(pending, {r})
    BY <1>3 DEF Pending
  <2> DEFINE t == Times(pending, {r})
             w == Pending(r)'
             n == Loading(r)'
  <2> HIDE DEF t, w, n
  <2>10. t \in Nat /\ w = t /\ n = Loading(r) + (IF r = x THEN 1 ELSE 0)
    BY <1>1, <2>8, <2>9 DEF t, w, n
  <2>11. w + n = t + Loading(r) + (IF r = x THEN 1 ELSE 0)
    BY <1>1, <2>10
  <2> QED
    BY <1>1, <2>11 DEF t, w, n
<1> QED
  BY <1>2, <1>3 DEF Loaded

(* So it is when the handler chooses who is loaded: the dead ones leave    *)
(* the queue, the others stay or load.                                     *)
LEMMA NextLoadedFlow ==
  ASSUME DownloadTypeOK, Bound, DownloadTypeOK', Bound',
         NEW others, NextLoaded(others), parentOf' = parentOf,
         DOMAIN others \cup loadedIds' = Live, NEW r \in Requesters
  PROVE  Pending(r)' + Loading(r)' = (IF Alive(r) THEN Pending(r) ELSE 0) + Loading(r)
<1> DEFINE live == Kept(pendingRequesters, LiveRequesters)
           n == IF Alive(r) THEN Pending(r) ELSE 0
<1>1. pendingRequesters \in Seq(Requesters)
  BY DEF DownloadTypeOK
<1>2. live \in Seq(Requesters)
      /\ Times(live, {r}) = IF r \in LiveRequesters THEN Times(pendingRequesters, {r}) ELSE 0
  BY <1>1, TimesKept
<1>3. Times(live, {r}) = n
  BY <1>2 DEF LiveRequesters, Pending
<1>4. Loading(r) \in Nat /\ n \in Nat
  BY PlacesNow
<1> HIDE DEF live, n
<1>5. CASE /\ pendingRequesters' = live /\ transfers' = others
           /\ activeIds' = activeIds /\ requestCounter' = requestCounter
  <2>1. Live' = Live
    BY <1>5 DEF Live
  <2>2. Loading(r)' = Loading(r)
    BY <1>5, <2>1, SameLoading
  <2>3. Pending(r)' = n
    BY <1>3, <1>5 DEF Pending
  <2> QED
    BY <1>4, <2>2, <2>3 DEF n
<1>6. ASSUME NEW i \in DOMAIN live, Loaded(live[i], RemoveAt(live, i), others)
      PROVE  Pending(r)' + Loading(r)' = n + Loading(r)
  <2>1. /\ RemoveAt(live, i) \in Seq(Requesters) /\ live[i] \in Requesters
        /\ Times(RemoveAt(live, i), {r}) \in Nat
        /\ Times(live, {r}) = Times(RemoveAt(live, i), {r})
                                + (IF live[i] \in {r} THEN 1 ELSE 0)
    BY <1>2, TimesRemoveAt
  <2> DEFINE x == live[i]
             rest == RemoveAt(live, i)
             p == Pending(r)'
             o == Loading(r)'
  <2>2. x \in Requesters /\ rest \in Seq(Requesters) /\ Loaded(x, rest, others)
    BY <1>6, <2>1
  <2> HIDE DEF x, rest, p, o
  <2>3. p + o = Times(rest, {r}) + Loading(r) + (IF r = x THEN 1 ELSE 0)
    BY <2>2, LoadedFlow DEF p, o
  <2>4. /\ Times(rest, {r}) \in Nat
        /\ Times(live, {r}) = Times(rest, {r}) + (IF x \in {r} THEN 1 ELSE 0)
    BY <2>1 DEF x, rest
  <2>5. p + o = n + Loading(r)
    BY <1>3, <1>4, <2>3, <2>4
  <2> QED
    BY <2>5 DEF p, o
<1>7. Pending(r)' + Loading(r)' = n + Loading(r)
  <2>1. CASE /\ pendingRequesters' = live /\ transfers' = others
             /\ activeIds' = activeIds /\ requestCounter' = requestCounter
    BY <1>5, <2>1 DEF n
  <2> QED
    BY <1>6, <2>1 DEF NextLoaded, live
<1> QED
  BY <1>7 DEF n

(* Bound depends on the three maps only.                                   *)
LEMMA BoundSame ==
  ASSUME Bound, activeIds' = activeIds, parentOf' = parentOf, redirectsOf' = redirectsOf
  PROVE  Bound'
BY DEF Bound

(* A request that is loaded has a new id, which no map knows.              *)
LEMMA BoundLoaded ==
  ASSUME DownloadTypeOK, Bound, parentOf' = parentOf, redirectsOf' = redirectsOf,
         NEW x, \/ activeIds' = activeIds
                \/ activeIds' = With(activeIds, requestCounter, x)
  PROVE  Bound'
<1>1. requestCounter \notin DOMAIN parentOf /\ requestCounter \notin DOMAIN redirectsOf
  BY DEF DownloadTypeOK, Ids
<1>2. DOMAIN activeIds' \subseteq DOMAIN activeIds \cup {requestCounter}
  BY DEF With
<1> QED
  BY <1>1, <1>2 DEF Bound

(* A redirect is bound both ways.                                          *)
LEMMA BoundFollow ==
  ASSUME DownloadTypeOK, Bound, NEW id, activeIds' = activeIds,
         parentOf' = With(parentOf, requestCounter, id),
         redirectsOf' = With(redirectsOf, id, <<requestCounter>>)
  PROVE  Bound'
<1> DEFINE c == requestCounter
<1>1. c \notin DOMAIN parentOf /\ c \notin DOMAIN activeIds
  BY DEF DownloadTypeOK, Ids
<1>2. /\ DOMAIN parentOf' = DOMAIN parentOf \cup {c} /\ parentOf'[c] = id
      /\ \A i \in DOMAIN parentOf : i # c => parentOf'[i] = parentOf[i]
  BY DEF With
<1>3. /\ DOMAIN redirectsOf' = DOMAIN redirectsOf \cup {id} /\ redirectsOf'[id] = <<c>>
      /\ \A i \in DOMAIN redirectsOf : i # id => redirectsOf'[i] = redirectsOf[i]
  BY DEF With
<1>4. Last(<<c>>) = c /\ <<c>> # <<>>
  BY DEF Last
<1> HIDE DEF c
<1>5. ASSUME NEW a \in DOMAIN activeIds, a \in DOMAIN redirectsOf'
      PROVE  /\ redirectsOf'[a] # <<>>
             /\ Last(redirectsOf'[a]) \in DOMAIN parentOf'
             /\ parentOf'[Last(redirectsOf'[a])] = a
  <2>1. CASE a = id
    BY <1>2, <1>3, <1>4, <2>1
  <2>2. CASE a # id
    <3>1. a \in DOMAIN redirectsOf /\ redirectsOf'[a] = redirectsOf[a]
      BY <1>3, <1>5, <2>2
    <3>2. /\ redirectsOf[a] # <<>> /\ Last(redirectsOf[a]) \in DOMAIN parentOf
          /\ parentOf[Last(redirectsOf[a])] = a
      BY <3>1 DEF Bound
    <3>3. Last(redirectsOf[a]) # c
      BY <1>1, <3>2
    <3> QED
      BY <1>2, <3>1, <3>2, <3>3
  <2> QED
    BY <2>1, <2>2
<1>6. DOMAIN activeIds' \cap DOMAIN parentOf' = {}
  BY <1>1, <1>2 DEF Bound
<1> QED
  BY <1>5, <1>6 DEF Bound

(* What removing the chains of requests removes.                           *)
LEMMA ChainCut ==
  ASSUME DownloadTypeOK, Bound, NEW ids \in SUBSET Nat, removeRequestIndexesChain(ids)
  PROVE  \E S : /\ parentOf' = Without(parentOf, S)
                /\ S \subseteq DOMAIN parentOf
                /\ \A k \in S : \E i \in ids : /\ k \in Chain(parentOf, i)
                                               /\ Root(parentOf, k) = Root(parentOf, i)
                                               /\ i \in DOMAIN parentOf
                /\ \A i \in ids : i \in DOMAIN parentOf =>
                                    Root(parentOf, i) \notin DOMAIN redirectsOf'
                /\ DOMAIN redirectsOf' \subseteq DOMAIN redirectsOf
                /\ \A i \in DOMAIN redirectsOf' : redirectsOf'[i] = redirectsOf[i]
<1> DEFINE S == (UNION {Ancestry(id) : id \in ids}) \cap DOMAIN parentOf
           R == {parentIdFor(id) : id \in ids}
<1>1. parentOf' = Without(parentOf, S) /\ redirectsOf' = Without(redirectsOf, R)
  BY DEF removeRequestIndexesChain
<1>2. Falls(parentOf)
  BY TypeFacts
<1>3. ASSUME NEW k \in S
      PROVE  \E i \in ids : /\ k \in Chain(parentOf, i)
                            /\ Root(parentOf, k) = Root(parentOf, i)
                            /\ i \in DOMAIN parentOf
  <2>1. PICK i \in ids : k \in Ancestry(i)
    OBVIOUS
  <2>2. k \in Chain(parentOf, i) /\ k \in DOMAIN parentOf /\ i \in Nat
    <3>1. Ancestry(i) = Chain(parentOf, i)
      BY DEF Ancestry, Chain
    <3> QED
      BY <2>1, <3>1
  <2>3. Root(parentOf, k) = Root(parentOf, i)
    BY <1>2, <2>2, RootShared
  <2>4. i \in DOMAIN parentOf
    <3>1. i \notin DOMAIN parentOf => Chain(parentOf, i) = {i}
      BY <1>2, <2>2, ChainUnfolds
    <3> QED
      BY <2>2, <3>1
  <2> QED
    BY <2>2, <2>3, <2>4
<1>4. ASSUME NEW i \in ids, i \in DOMAIN parentOf
      PROVE  Root(parentOf, i) \notin DOMAIN redirectsOf'
  <2>1. (IF i \in DOMAIN parentOf THEN parentIdFor(i) ELSE i) = Root(parentOf, i)
    BY OwnedNow DEF Bound
  <2>2. Root(parentOf, i) \in R
    BY <1>4, <2>1
  <2> HIDE DEF R
  <2> QED
    BY <1>1, <2>2 DEF Without
<1>5. /\ DOMAIN redirectsOf' \subseteq DOMAIN redirectsOf
      /\ \A i \in DOMAIN redirectsOf' : redirectsOf'[i] = redirectsOf[i]
  BY <1>1 DEF Without
<1>6. S \subseteq DOMAIN parentOf
  OBVIOUS
<1> HIDE DEF S
<1> QED
  BY <1>1, <1>3, <1>4, <1>5, <1>6

(* A chain is removed as a whole, with what its root was bound to.         *)
LEMMA BoundCut ==
  ASSUME DownloadTypeOK, Bound, NEW ids \in SUBSET Nat, NEW K,
         activeIds' = Without(activeIds, K), removeRequestIndexesChain(ids)
  PROVE  Bound'
<1>1. PICK S : /\ parentOf' = Without(parentOf, S)
               /\ S \subseteq DOMAIN parentOf
               /\ \A k \in S : \E i \in ids : /\ k \in Chain(parentOf, i)
                                              /\ Root(parentOf, k) = Root(parentOf, i)
                                              /\ i \in DOMAIN parentOf
               /\ \A i \in ids : i \in DOMAIN parentOf =>
                                   Root(parentOf, i) \notin DOMAIN redirectsOf'
               /\ DOMAIN redirectsOf' \subseteq DOMAIN redirectsOf
               /\ \A i \in DOMAIN redirectsOf' : redirectsOf'[i] = redirectsOf[i]
  BY ChainCut
<1>2. DOMAIN activeIds' \subseteq DOMAIN activeIds
  BY DEF Without
<1>3. DOMAIN parentOf' = DOMAIN parentOf \ S /\ \A i \in DOMAIN parentOf' : parentOf'[i] = parentOf[i]
  BY <1>1 DEF Without
<1>4. ASSUME NEW a \in DOMAIN activeIds', a \in DOMAIN redirectsOf'
      PROVE  /\ redirectsOf'[a] # <<>>
             /\ Last(redirectsOf'[a]) \in DOMAIN parentOf'
             /\ parentOf'[Last(redirectsOf'[a])] = a
  <2> DEFINE k == Last(redirectsOf[a])
  <2>1. /\ a \in DOMAIN activeIds /\ a \in DOMAIN redirectsOf
        /\ redirectsOf'[a] = redirectsOf[a]
    BY <1>1, <1>2, <1>4
  <2>2. /\ redirectsOf[a] # <<>> /\ k \in DOMAIN parentOf
        /\ parentOf[k] = a /\ a \notin DOMAIN parentOf
    BY <2>1 DEF Bound
  <2> HIDE DEF k
  <2>3. Root(parentOf, k) = a
    <3>1. k \in Nat /\ a \in Nat /\ Falls(parentOf)
      BY <2>1, <2>2, TypeFacts
    <3> QED
      BY <2>2, <3>1, RootUnfolds
  <2>4. k \notin S
    BY <1>1, <1>4, <2>3
  <2> QED
    BY <1>3, <2>1, <2>2, <2>4 DEF k
<1>5. DOMAIN activeIds' \cap DOMAIN parentOf' = {}
  BY <1>2, <1>3 DEF Bound
<1> QED
  BY <1>4, <1>5 DEF Bound

(* removeLoadedResourceAssociatedData takes the root of the request.       *)
LEMMA RemoveIs ==
  ASSUME DownloadTypeOK, Bound, NEW id \in Nat, removeLoadedResourceAssociatedData(id)
  PROVE  /\ activeIds' = Without(activeIds, {Root(parentOf, id)})
         /\ removeRequestIndexesChain({id})
<1>1. (IF id \in DOMAIN parentOf THEN parentIdFor(id) ELSE id) = Root(parentOf, id)
  BY OwnedNow DEF Bound
<1> QED
  BY <1>1 DEF removeLoadedResourceAssociatedData

(* The ids that a reset takes: requests whose root is a first request of a *)
(* requester at one of the addresses.                                      *)
LEMMA IndexesAre ==
  ASSUME DownloadTypeOK, Bound, NEW A
  PROVE  /\ requestIndexes(A) \in SUBSET Nat
         /\ \A i \in requestIndexes(A) :
              \E j \in DOMAIN activeIds :
                /\ Root(parentOf, i) = j /\ Alive(activeIds[j])
                /\ address[activeIds[j]] \in A
<1>1. ASSUME NEW i \in requestIndexes(A)
      PROVE  i \in Nat /\ \E j \in DOMAIN activeIds :
                            /\ Root(parentOf, i) = j /\ Alive(activeIds[j])
                            /\ address[activeIds[j]] \in A
  <2>1. PICK j \in DOMAIN activeIds : /\ i = currentIdOf(j) /\ Alive(activeIds[j])
                                      /\ address[activeIds[j]] \in A
    BY DEF requestIndexes
  <2>2. j \in Nat /\ j \notin DOMAIN parentOf /\ Falls(parentOf)
    BY TypeFacts DEF Bound
  <2>3. Root(parentOf, j) = j
    BY <2>2, RootUnfolds
  <2>4. CASE j \notin DOMAIN redirectsOf
    BY <2>1, <2>2, <2>3, <2>4 DEF currentIdOf
  <2>5. CASE j \in DOMAIN redirectsOf
    <3>1. i = Last(redirectsOf[j])
      BY <2>1, <2>5 DEF currentIdOf
    <3>2. i \in DOMAIN parentOf /\ parentOf[i] = j
      BY <2>5, <3>1 DEF Bound
    <3>3. i \in Nat
      BY <3>2, TypeFacts
    <3>4. Root(parentOf, i) = j
      BY <2>2, <2>3, <3>2, <3>3, RootUnfolds
    <3> QED
      BY <2>1, <3>3, <3>4
  <2> QED
    BY <2>4, <2>5
<1> QED
  BY <1>1

(* A message that is posted.                                               *)
LEMMA Posted ==
  ASSUME messages \in Seq(Messages), NEW m \in Messages, messages' = Append(messages, m), NEW r
  PROVE  /\ m \in [type : {"download", "answer"}, requester : {r}] => Asked(r)' = Asked(r) + 1
         /\ m \notin [type : {"download", "answer"}, requester : {r}] => Asked(r)' = Asked(r)
         /\ Asked(r) \in Nat
<1> DEFINE kind == [type : {"download", "answer"}, requester : {r}]
<1> HIDE DEF kind
<1>1. /\ Times(messages, kind) \in Nat
      /\ Times(Append(messages, m), kind) = Times(messages, kind) + (IF m \in kind THEN 1 ELSE 0)
  BY TimesAppend
<1>2. Times(messages', kind) = Times(messages, kind) + (IF m \in kind THEN 1 ELSE 0)
  BY <1>1
<1>3. Asked(r) = Times(messages, kind) /\ Asked(r)' = Times(messages', kind)
  BY DEF Asked, kind
<1> QED
  BY <1>1, <1>2, <1>3 DEF kind

(* Commands and what answers them ask for no page.                         *)
LEMMA CommandsUncounted ==
  ASSUME NEW m, m.type \notin {"download", "answer"}, NEW r
  PROVE  m \notin [type : {"download", "answer"}, requester : {r}]
OBVIOUS

(* Requests of which some are forgotten.                                   *)
LEMMA CutFlow ==
  ASSUME DownloadTypeOK, Bound, DownloadTypeOK', Bound', NEW ids \in SUBSET Nat, NEW K,
         activeIds' = Without(activeIds, K), removeRequestIndexesChain(ids),
         Live' \subseteq Live, NEW r
  PROVE  /\ ownIds(r)' \subseteq ownIds(r) /\ ownIds(r)' \subseteq Live'
         /\ Loading(r)' <= Loading(r)
         /\ (\A id \in ownIds(r) : /\ id \in Live' /\ Root(parentOf, id) \notin K
                                   /\ \A i \in ids : Root(parentOf, i) # Root(parentOf, id))
              => Loading(r)' = Loading(r)
<1>1. PICK S : /\ parentOf' = Without(parentOf, S)
               /\ \A k \in S : \E i \in ids : /\ k \in Chain(parentOf, i)
                                              /\ Root(parentOf, k) = Root(parentOf, i)
  BY ChainCut
<1>2. /\ Falls(parentOf) /\ Live \in SUBSET Nat /\ Live' \in SUBSET Live
      /\ DOMAIN activeIds \cap DOMAIN parentOf = {}
  BY TypeFacts DEF Bound
<1>3. /\ ownIds(r) = OwnSet(activeIds, parentOf, Live, r) /\ IsFiniteSet(ownIds(r))
      /\ ownIds(r)' = OwnSet(activeIds', parentOf', Live', r)
  BY OwnSetNow, OwnSetNext DEF Bound
<1> DEFINE a == activeIds
           p == parentOf
           live == Live
           rest == Live'
<1>4. /\ OwnSet(Without(a, K), Without(p, S), rest, r) \subseteq OwnSet(a, p, live, r)
      /\ \A id \in rest : /\ id \in OwnSet(a, p, live, r)
                          /\ Root(p, id) \notin K /\ Chain(p, id) \cap S = {}
                          => id \in OwnSet(Without(a, K), Without(p, S), rest, r)
  <2>1. Falls(p) /\ live \in SUBSET Nat /\ rest \in SUBSET live /\ DOMAIN a \cap DOMAIN p = {}
    BY <1>2
  <2> HIDE DEF a, p, live, rest
  <2> QED
    BY <2>1, OwnCut
<1>5. ownIds(r)' \subseteq ownIds(r)
  BY <1>1, <1>3, <1>4
<1>6. ownIds(r)' \subseteq Live'
  BY <1>3 DEF OwnSet
<1>7. Loading(r)' <= Loading(r)
  BY <1>3, <1>5, FS_Subset DEF Loading
<1>8. ASSUME \A id \in ownIds(r) : /\ id \in Live' /\ Root(parentOf, id) \notin K
                                   /\ \A i \in ids : Root(parentOf, i) # Root(parentOf, id)
      PROVE  Loading(r)' = Loading(r)
  <2>1. ASSUME NEW id \in ownIds(r) PROVE id \in ownIds(r)'
    <3>1. id \in Live' /\ id \in Nat
      BY <1>2, <1>8
    <3>2. ASSUME NEW k \in Chain(parentOf, id), k \in S PROVE FALSE
      <4>1. Root(parentOf, k) = Root(parentOf, id)
        BY <1>2, <3>1, RootShared
      <4>2. PICK i \in ids : Root(parentOf, k) = Root(parentOf, i)
        BY <1>1, <3>2
      <4> QED
        BY <1>8, <4>1, <4>2
    <3> QED
      BY <1>1, <1>3, <1>4, <1>8, <3>1, <3>2
  <2>2. ownIds(r)' = ownIds(r)
    BY <1>5, <2>1
  <2> QED
    BY <2>2 DEF Loading
<1> QED
  BY <1>5, <1>6, <1>7, <1>8

(* The handler takes a reset that names the requester's address.           *)
ResetNow(r) ==
  /\ handlerQueue # <<>> /\ Head(handlerQueue).type = "reset"
  /\ address[r] \in Head(handlerQueue).requesters
  /\ handlerQueue' = Tail(handlerQueue)

(* A request is not multiplied, and one that somebody holds and nobody     *)
(* resets is not lost.                                                     *)
Moves(r) ==
  /\ Places(r)' <= Places(r)
  /\ Alive(r) /\ ~ResetNow(r) => Places(r)' = Places(r)

(* A call that asks for nothing is taken from the handler's queue.         *)
LEMMA CommandTaken ==
  ASSUME DownloadTypeOK, handlerQueue # <<>>, handlerQueue' = Tail(handlerQueue),
         Head(handlerQueue).type # "download", NEW r
  PROVE  Called(r)' = Called(r)
<1>1. Head(handlerQueue) # [type |-> "download", requester |-> r]
  OBVIOUS
<1>2. /\ Times(handlerQueue, [type : {"download"}, requester : {r}])
           = Times(handlerQueue', [type : {"download"}, requester : {r}])
             + (IF Head(handlerQueue) = [type |-> "download", requester |-> r] THEN 1 ELSE 0)
      /\ handlerQueue' \in Seq(Events)
  BY Taken
<1>3. Called(r) = Called(r)' + 0 /\ handlerQueue' \in Seq(Events)
  BY <1>1, <1>2 DEF Called
<1>4. Called(r)' \in Nat
  BY <1>3, TimesFinite DEF Called
<1> QED
  BY <1>3, <1>4

(* resetRequesters loses requests of requesters at the addresses it is     *)
(* given, and of dead ones.                                                *)
LEMMA ResetMoves ==
  ASSUME DownloadTypeOK, Bound, DownloadTypeOK', Bound', NEW A,
         handlerQueue # <<>>, handlerQueue' = Tail(handlerQueue),
         Head(handlerQueue).type = "reset", Head(handlerQueue).requesters = A,
         resetRequesters(A), NEW r \in Requesters
  PROVE  Moves(r)
<1> DEFINE ids == requestIndexes(A)
           spared == Alive(r) /\ address[r] \notin A
<1>1. /\ pendingRequesters' =
           Kept(pendingRequesters, {q \in LiveRequesters : address[q] \notin A})
      /\ transfers' = Without(transfers, ids)
      /\ activeIds' = Without(activeIds, ids)
      /\ removeRequestIndexesChain(ids)
      /\ messages' = Append(messages, [type |-> "resetDone", requesters |-> {}])
      /\ requesterQueue' = requesterQueue
  BY DEF resetRequesters
<1>2. /\ ids \in SUBSET Nat
      /\ \A i \in ids : \E j \in DOMAIN activeIds :
                /\ Root(parentOf, i) = j /\ Alive(activeIds[j])
                /\ address[activeIds[j]] \in A
  BY IndexesAre
<1> HIDE DEF ids
<1>3. Called(r)' = Called(r)
  BY CommandTaken
<1>4. Asked(r)' = Asked(r)
  <2> DEFINE m == [type |-> "resetDone", requesters |-> {}]
  <2>1. m \in Messages /\ m.type \notin {"download", "answer"}
    BY DEF Messages
  <2>2. messages \in Seq(Messages)
    BY DEF DownloadTypeOK
  <2> HIDE DEF m
  <2>3. m \notin [type : {"download", "answer"}, requester : {r}]
    BY <2>1, CommandsUncounted
  <2> QED
    BY <1>1, <2>1, <2>2, <2>3, Posted DEF m
<1>5. Delayed(r)' = Delayed(r)
  BY <1>1 DEF Delayed
<1>6. Pending(r)' = IF spared THEN Pending(r) ELSE 0
  <2>1. pendingRequesters \in Seq(Requesters)
    BY DEF DownloadTypeOK
  <2> DEFINE left == {q \in LiveRequesters : address[q] \notin A}
  <2>2. r \in left <=> spared
    BY DEF LiveRequesters
  <2> HIDE DEF left
  <2>3. Times(Kept(pendingRequesters, left), {r})
          = IF r \in left THEN Times(pendingRequesters, {r}) ELSE 0
    BY <2>1, TimesKept
  <2>4. pendingRequesters' = Kept(pendingRequesters, left)
    BY <1>1 DEF left
  <2> HIDE DEF spared
  <2> QED
    BY <2>2, <2>3, <2>4 DEF Pending
<1>7. Live' = (DOMAIN transfers \ ids) \cup loadedIds
  <2>1. loadedIds' = loadedIds
    BY Taken
  <2> QED
    BY <1>1, <2>1 DEF Live, Without
<1>8. /\ Loading(r)' <= Loading(r)
      /\ (\A id \in ownIds(r) : /\ id \in Live' /\ Root(parentOf, id) \notin ids
                                /\ \A i \in ids : Root(parentOf, i) # Root(parentOf, id))
              => Loading(r)' = Loading(r)
  <2>1. Live' \subseteq Live
    BY <1>7 DEF Live
  <2> QED
    BY <1>1, <1>2, <2>1, CutFlow
<1>9. ASSUME spared PROVE Loading(r)' = Loading(r)
  <2>1. ASSUME NEW id \in ownIds(r)
        PROVE  /\ id \in Live' /\ Root(parentOf, id) \notin ids
               /\ \A i \in ids : Root(parentOf, i) # Root(parentOf, id)
    <3>1. /\ id \in Live /\ id \in Nat /\ Falls(parentOf)
          /\ Root(parentOf, id) \in DOMAIN activeIds /\ activeIds[Root(parentOf, id)] = r
      <4>1. id \in OwnSet(activeIds, parentOf, Live, r) /\ Live \in SUBSET Nat
            /\ Falls(parentOf)
        BY OwnSetNow, TypeFacts DEF Bound
      <4> QED
        BY <4>1 DEF OwnSet, Owns
    <3>2. ASSUME NEW i \in ids PROVE Root(parentOf, i) # Root(parentOf, id)
      BY <1>2, <1>9, <3>1
    <3>3. Root(parentOf, Root(parentOf, id)) = Root(parentOf, id)
      <4>1. Root(parentOf, id) \in Nat /\ Root(parentOf, id) \notin DOMAIN parentOf
        BY <3>1, RootEnds
      <4> QED
        BY <3>1, <4>1, RootUnfolds
    <3>4. id \notin ids /\ Root(parentOf, id) \notin ids
      BY <3>2, <3>3
    <3> QED
      BY <1>7, <3>1, <3>2, <3>4 DEF Live
  <2> QED
    BY <1>8, <2>1
<1>10. /\ Places(r) = Asked(r) + Called(r) + Delayed(r) + Pending(r) + Loading(r)
       /\ Asked(r) \in Nat /\ Called(r) \in Nat /\ Delayed(r) \in Nat
       /\ Pending(r) \in Nat /\ Loading(r) \in Nat
       /\ Places(r)' = Asked(r)' + Called(r)' + Delayed(r)' + Pending(r)' + Loading(r)'
       /\ Loading(r)' \in Nat
  BY PlacesNow, PlacesNext
<1>11. spared => Places(r)' = Places(r)
  BY <1>3, <1>4, <1>5, <1>6, <1>9, <1>10
<1>12. Places(r)' <= Places(r)
  BY <1>3, <1>4, <1>5, <1>6, <1>8, <1>10
<1>13. Alive(r) /\ ~ResetNow(r) => spared
  BY DEF ResetNow
<1> QED
  BY <1>11, <1>12, <1>13 DEF Moves

(* A redirect takes the place of the request it follows.                   *)
LEMMA FollowMoves ==
  ASSUME DownloadTypeOK, Bound, LoadedOnce, DownloadTypeOK', Bound', NEW id, NEW hop,
         handlerQueue # <<>>, handlerQueue' = Tail(handlerQueue),
         Head(handlerQueue).type = "loaded", Head(handlerQueue).id = id,
         followLocation(id, hop), UNCHANGED <<requesterQueue, pendingRequesters>>,
         NEW r \in Requesters
  PROVE  Moves(r)
<1> DEFINE c == requestCounter
           p == parentOf
           a == activeIds
           live == Live
<1>1. /\ parentOf' = With(p, c, id) /\ activeIds' = a /\ messages' = messages
      /\ \E t : transfers' = With(transfers, c, t)
  BY DEF followLocation, get
<1>2. id \in loadedIds /\ loadedIds' = loadedIds \ {id}
  BY Taken
<1>3. /\ Falls(p) /\ c \in Nat /\ live \in SUBSET (0..(c - 1))
      /\ DOMAIN a \subseteq 0..(c - 1) /\ DOMAIN p \subseteq 0..(c - 1)
  BY TypeFacts
<1>4. id \in live /\ Live' = (live \ {id}) \cup {c} /\ c \notin live
  <2>1. DOMAIN transfers' = DOMAIN transfers \cup {c}
    BY <1>1 DEF With
  <2>2. id \notin DOMAIN transfers
    BY <1>2 DEF LoadedOnce
  <2>3. c \notin live
    BY <1>3
  <2> QED
    BY <1>2, <2>1, <2>2, <2>3 DEF Live
<1>5. /\ ownIds(r) = OwnSet(a, p, live, r) /\ IsFiniteSet(ownIds(r))
      /\ Cardinality(ownIds(r)) \in Nat
      /\ ownIds(r)' = OwnSet(activeIds', parentOf', Live', r)
  BY OwnSetNow, OwnSetNext DEF Bound
<1> HIDE DEF c, p, a, live
<1>6. /\ id \in OwnSet(a, p, live, r) =>
           OwnSet(a, With(p, c, id), (live \ {id}) \cup {c}, r)
             = (OwnSet(a, p, live, r) \ {id}) \cup {c}
      /\ id \notin OwnSet(a, p, live, r) =>
           OwnSet(a, With(p, c, id), (live \ {id}) \cup {c}, r) = OwnSet(a, p, live, r)
  BY <1>3, <1>4, OwnFollowed
<1>7. /\ id \in ownIds(r) => ownIds(r)' = (ownIds(r) \ {id}) \cup {c}
      /\ id \notin ownIds(r) => ownIds(r)' = ownIds(r)
  BY <1>1, <1>4, <1>5, <1>6
<1>8. Loading(r)' = Loading(r)
  <2>1. CASE id \in ownIds(r)
    <3> DEFINE o == ownIds(r)
    <3>1. c \notin o
      BY <1>4, <1>5 DEF OwnSet
    <3>2. IsFiniteSet(o) /\ Cardinality(o) \in Nat /\ id \in o
      BY <1>5, <2>1
    <3>3. ownIds(r)' = (o \ {id}) \cup {c}
      BY <1>7, <2>1
    <3> HIDE DEF o
    <3>4. IsFiniteSet(o \ {id}) /\ Cardinality(o \ {id}) = Cardinality(o) - 1
      BY <3>2, FS_RemoveElement
    <3>5. c \notin o \ {id}
      BY <3>1
    <3>6. Cardinality((o \ {id}) \cup {c}) = Cardinality(o \ {id}) + 1
      BY <3>4, <3>5, FS_AddElement
    <3>7. Cardinality((o \ {id}) \cup {c}) = Cardinality(o)
      BY <3>2, <3>4, <3>6
    <3> QED
      BY <3>3, <3>7 DEF Loading, o
  <2>2. CASE id \notin ownIds(r)
    BY <1>7, <2>2 DEF Loading
  <2> QED
    BY <2>1, <2>2
<1>9. Called(r)' = Called(r)
  BY CommandTaken
<1>10. Asked(r)' = Asked(r) /\ Delayed(r)' = Delayed(r) /\ Pending(r)' = Pending(r)
  BY <1>1 DEF Asked, Delayed, Pending
<1>11. /\ Places(r) = Asked(r) + Called(r) + Delayed(r) + Pending(r) + Loading(r)
       /\ Places(r)' = Asked(r)' + Called(r)' + Delayed(r)' + Pending(r)' + Loading(r)'
       /\ Places(r) \in Nat
  BY PlacesNow, PlacesNext
<1>12. Places(r)' = Places(r)
  BY <1>8, <1>9, <1>10, <1>11
<1> QED
  BY <1>11, <1>12 DEF Moves

(* A resource is looked at for the last time.                              *)
LEMMA RemovedLoading ==
  ASSUME DownloadTypeOK, Bound, LoadedOnce, DownloadTypeOK', Bound', NEW id,
         handlerQueue # <<>>, handlerQueue' = Tail(handlerQueue),
         Head(handlerQueue).type = "loaded", Head(handlerQueue).id = id,
         removeLoadedResourceAssociatedData(id), transfers' = transfers,
         NEW r
  PROVE  /\ Loading(r)' <= Loading(r)
         /\ id \in ownIds(r) => Loading(r)' <= Loading(r) - 1
         /\ id \notin ownIds(r) => Loading(r)' = Loading(r)
         /\ id \in Live
<1>1. id \in loadedIds /\ loadedIds' = loadedIds \ {id}
  BY Taken
<1>2. id \in Live /\ id \in Nat /\ Live \in SUBSET Nat /\ Falls(parentOf)
  BY <1>1, TypeFacts DEF Live
<1>3. Live' = Live \ {id}
  BY <1>1 DEF Live, LoadedOnce
<1>4. /\ activeIds' = Without(activeIds, {Root(parentOf, id)})
      /\ removeRequestIndexesChain({id})
  BY <1>2, RemoveIs
<1>5. /\ ownIds(r)' \subseteq ownIds(r) /\ ownIds(r)' \subseteq Live'
      /\ Loading(r)' <= Loading(r)
      /\ (\A x \in ownIds(r) : /\ x \in Live' /\ Root(parentOf, x) \notin {Root(parentOf, id)}
                               /\ \A i \in {id} : Root(parentOf, i) # Root(parentOf, x))
              => Loading(r)' = Loading(r)
  <2>1. {id} \in SUBSET Nat /\ Live' \subseteq Live
    BY <1>2, <1>3
  <2> QED
    BY <1>4, <2>1, CutFlow
<1>6. /\ ownIds(r) = OwnSet(activeIds, parentOf, Live, r) /\ IsFiniteSet(ownIds(r))
      /\ Cardinality(ownIds(r)) \in Nat
  BY OwnSetNow DEF Bound
<1>7. ASSUME id \in ownIds(r) PROVE Loading(r)' <= Loading(r) - 1
  <2>1. ownIds(r)' \in SUBSET (ownIds(r) \ {id})
    BY <1>3, <1>5
  <2>2. /\ IsFiniteSet(ownIds(r) \ {id})
        /\ Cardinality(ownIds(r) \ {id}) = Cardinality(ownIds(r)) - 1
    BY <1>6, <1>7, FS_RemoveElement
  <2>3. Cardinality(ownIds(r)') <= Cardinality(ownIds(r) \ {id})
    BY <2>1, <2>2, FS_Subset
  <2> QED
    BY <2>2, <2>3 DEF Loading
<1>8. ASSUME id \notin ownIds(r) PROVE Loading(r)' = Loading(r)
  <2>1. ASSUME NEW x \in ownIds(r)
        PROVE  x \in Live' /\ Root(parentOf, id) # Root(parentOf, x)
    <3>1. x \in Live /\ Owns(activeIds, parentOf, r, x)
      BY <1>6 DEF OwnSet
    <3>2. ~Owns(activeIds, parentOf, r, id)
      BY <1>2, <1>6, <1>8 DEF OwnSet
    <3> QED
      BY <1>3, <1>8, <3>1, <3>2 DEF Owns
  <2> QED
    BY <1>5, <2>1
<1> QED
  BY <1>2, <1>5, <1>7, <1>8

(* A page that is loaded moves from libcurl to the messages, unless its    *)
(* requester is dead.                                                      *)
LEMMA UrlMoves ==
  ASSUME DownloadTypeOK, Bound, LoadedOnce, NothingTwice, DownloadTypeOK', Bound',
         NEW id, NEW hop, handlerQueue # <<>>, handlerQueue' = Tail(handlerQueue),
         Head(handlerQueue).type = "loaded", Head(handlerQueue).id = id,
         onUrlLoaded(id, hop), NEW r \in Requesters
  PROVE  Moves(r)
<1>1. UNCHANGED <<requesterQueue, pendingRequesters>>
  BY DEF onUrlLoaded
<1>2. Called(r)' = Called(r)
  BY CommandTaken
<1>3. Delayed(r)' = Delayed(r) /\ Pending(r)' = Pending(r)
  BY <1>1 DEF Delayed, Pending
<1>4. /\ Places(r) = Asked(r) + Called(r) + Delayed(r) + Pending(r) + Loading(r)
      /\ Asked(r) \in Nat /\ Called(r) \in Nat /\ Delayed(r) \in Nat
      /\ Pending(r) \in Nat /\ Loading(r) \in Nat /\ Places(r) \in Nat
      /\ Places(r)' = Asked(r)' + Called(r)' + Delayed(r)' + Pending(r)' + Loading(r)'
      /\ Loading(r)' \in Nat
  BY PlacesNow, PlacesNext
<1>5. Places(r) <= 1
  <2>1. Places(r) + (IF r \in answered THEN 1 ELSE 0) <= 1
    BY DEF NothingTwice
  <2> QED
    BY <1>4, <2>1
<1>6. id \in Live /\ id \in Nat
  <2>1. id \in loadedIds /\ Live \in SUBSET Ids /\ Ids \subseteq Nat
    BY Taken, TypeFacts
  <2> QED
    BY <2>1 DEF Live
<1>7. id \in ownIds(r) <=> Owns(activeIds, parentOf, r, id)
  <2>1. ownIds(r) = OwnSet(activeIds, parentOf, Live, r)
    BY OwnSetNow DEF Bound
  <2> QED
    BY <1>6, <2>1 DEF OwnSet
<1>8. ownedBy(r, id) <=> id \in ownIds(r)
  BY <1>6, <1>7, OwnedNow DEF Bound
<1>9. CASE hop # maxRedirects /\ followLocation(id, hop)
  BY <1>1, <1>9, FollowMoves
<1>10. ASSUME NEW q \in requesterById(id),
              messages' = Append(messages, [type |-> "answer", requester |-> q]),
              removeLoadedResourceAssociatedData(id), transfers' = transfers
       PROVE  Moves(r)
  <2> DEFINE m == [type |-> "answer", requester |-> q]
  <2>1. q \in Requesters /\ ownedBy(q, id)
    BY DEF requesterById, ownedBy
  <2>2. m \in Messages /\ messages \in Seq(Messages)
    BY <2>1 DEF Messages, DownloadTypeOK
  <2>3. /\ m \in [type : {"download", "answer"}, requester : {r}] <=> q = r
    OBVIOUS
  <2>4. messages' = Append(messages, m)
    BY <1>10
  <2> HIDE DEF m
  <2>5. (q = r => Asked(r)' = Asked(r) + 1) /\ (q # r => Asked(r)' = Asked(r))
    BY <2>2, <2>3, <2>4, Posted
  <2>6. /\ id \in ownIds(r) => Loading(r)' <= Loading(r) - 1
        /\ id \notin ownIds(r) => Loading(r)' = Loading(r)
    BY <1>10, RemovedLoading
  <2>7. id \in ownIds(r) <=> q = r
    BY <1>8, <2>1 DEF ownedBy
  <2>8. Places(r)' <= Places(r)
    BY <1>2, <1>3, <1>4, <2>5, <2>6, <2>7
  <2>9. Places(r)' = Places(r)
    <3>1. CASE q = r
      BY <1>2, <1>3, <1>4, <1>5, <2>5, <2>8, <3>1
    <3>2. CASE q # r
      BY <1>2, <1>3, <1>4, <2>5, <2>6, <2>7, <3>2
    <3> QED
      BY <3>1, <3>2
  <2> QED
    BY <2>8, <2>9 DEF Moves
<1>11. ASSUME requesterById(id) = {}, removeLoadedResourceAssociatedData(id),
              messages' = messages, transfers' = transfers
       PROVE  Moves(r)
  <2>1. Asked(r)' = Asked(r)
    BY <1>11 DEF Asked
  <2>2. /\ Loading(r)' <= Loading(r)
        /\ id \notin ownIds(r) => Loading(r)' = Loading(r)
    BY <1>11, RemovedLoading
  <2>3. Alive(r) => id \notin ownIds(r)
    BY <1>8, <1>11 DEF requesterById, ownedBy
  <2>4. Places(r)' <= Places(r)
    BY <1>2, <1>3, <1>4, <2>1, <2>2
  <2>5. Alive(r) => Places(r)' = Places(r)
    BY <1>2, <1>3, <1>4, <2>1, <2>2, <2>3
  <2> QED
    BY <2>4, <2>5 DEF Moves
<1> QED
  BY <1>9, <1>10, <1>11 DEF onUrlLoaded

(* A requester is taken from its queue, and waits or loads.                *)
LEMMA LoadMoves ==
  ASSUME DownloadTypeOK, Bound, DownloadTypeOK', Bound', NEW x \in Requesters,
         load(x, pendingRequesters, pausedRequesters, transfers, stillRunning),
         parentOf' = parentOf, messages' = messages, loadedIds' = loadedIds,
         NEW r \in Requesters,
         Called(r) + Delayed(r) = Called(r)' + Delayed(r)' + (IF r = x THEN 1 ELSE 0)
  PROVE  Moves(r)
<1>1. Loaded(x, pendingRequesters, transfers)
  BY LoadIs
<1>2. pendingRequesters \in Seq(Requesters) /\ DOMAIN transfers \cup loadedIds' = Live
  BY DEF DownloadTypeOK, Live
<1>3. Pending(r)' + Loading(r)'
        = Times(pendingRequesters, {r}) + Loading(r) + (IF r = x THEN 1 ELSE 0)
  BY <1>1, <1>2, LoadedFlow
<1>4. Asked(r)' = Asked(r)
  BY DEF Asked
<1>5. /\ Places(r) = Asked(r) + Called(r) + Delayed(r) + Pending(r) + Loading(r)
      /\ Asked(r) \in Nat /\ Called(r) \in Nat /\ Delayed(r) \in Nat
      /\ Pending(r) \in Nat /\ Loading(r) \in Nat /\ Places(r) \in Nat
      /\ Places(r)' = Asked(r)' + Called(r)' + Delayed(r)' + Pending(r)' + Loading(r)'
      /\ Called(r)' \in Nat /\ Delayed(r)' \in Nat
      /\ Pending(r)' \in Nat /\ Loading(r)' \in Nat
  BY PlacesNow, PlacesNext
<1>6. Pending(r)' + Loading(r)' = Pending(r) + Loading(r) + (IF r = x THEN 1 ELSE 0)
  BY <1>3 DEF Pending
<1>7. Places(r)' = Places(r)
  BY <1>4, <1>5, <1>6
<1> QED
  BY <1>5, <1>7 DEF Moves

(* A call to download moves to the pause queue, the pending ones or        *)
(* libcurl.                                                                *)
LEMMA DownloadMoves ==
  ASSUME DownloadTypeOK, Bound, DownloadTypeOK', Bound', NEW x \in Requesters,
         handlerQueue # <<>>, handlerQueue' = Tail(handlerQueue),
         Head(handlerQueue) = [type |-> "download", requester |-> x],
         handleDownload(x), NEW r \in Requesters
  PROVE  Moves(r)
<1> DEFINE one == IF r = x THEN 1 ELSE 0
<1>1. loadedIds' = loadedIds /\ messages' = messages /\ parentOf' = parentOf
  BY Taken DEF handleDownload
<1>2. Called(r) = Called(r)' + one
  <2>1. Head(handlerQueue) = [type |-> "download", requester |-> r] <=> r = x
    OBVIOUS
  <2>2. Called(r) = Called(r)' + (IF Head(handlerQueue) = [type |-> "download", requester |-> r]
                                  THEN 1 ELSE 0)
    BY Taken DEF Called
  <2> QED
    BY <2>1, <2>2
<1>3. /\ Places(r) = Asked(r) + Called(r) + Delayed(r) + Pending(r) + Loading(r)
      /\ Asked(r) \in Nat /\ Called(r) \in Nat /\ Delayed(r) \in Nat
      /\ Pending(r) \in Nat /\ Loading(r) \in Nat /\ Places(r) \in Nat
      /\ Places(r)' = Asked(r)' + Called(r)' + Delayed(r)' + Pending(r)' + Loading(r)'
      /\ Called(r)' \in Nat /\ Delayed(r)' \in Nat
  BY PlacesNow, PlacesNext
<1>4. CASE pauseRange
  <2>1. /\ requesterQueue' = Append(requesterQueue, x)
        /\ UNCHANGED <<pendingRequesters, activeIds, transfers>>
    BY <1>4 DEF handleDownload
  <2>2. Delayed(r)' = Delayed(r) + one
    <3>1. requesterQueue \in Seq(Requesters)
      BY DEF DownloadTypeOK
    <3>2. /\ Times(requesterQueue, {r}) \in Nat
          /\ Times(Append(requesterQueue, x), {r})
               = Times(requesterQueue, {r}) + (IF x \in {r} THEN 1 ELSE 0)
      BY <3>1, TimesAppend
    <3>3. Times(requesterQueue', {r}) = Times(requesterQueue, {r}) + (IF x \in {r} THEN 1 ELSE 0)
      BY <2>1, <3>2
    <3>4. Delayed(r)' = Delayed(r) + (IF x \in {r} THEN 1 ELSE 0)
      BY <3>3 DEF Delayed
    <3> QED
      BY <3>4
  <2>3. Asked(r)' = Asked(r) /\ Pending(r)' = Pending(r)
    BY <1>1, <2>1 DEF Asked, Pending
  <2>4. Loading(r)' = Loading(r)
    BY <1>1, <2>1, SameLoading DEF Live
  <2> HIDE DEF one
  <2>5. one \in {0, 1}
    BY DEF one
  <2>6. Places(r)' = Places(r)
    BY <1>2, <1>3, <2>2, <2>3, <2>4, <2>5
  <2> QED
    BY <1>3, <2>6 DEF Moves
<1>5. CASE ~pauseRange
  <2>1. /\ load(x, pendingRequesters, pausedRequesters, transfers, stillRunning)
        /\ requesterQueue' = requesterQueue
    BY <1>5 DEF handleDownload
  <2>2. Delayed(r)' = Delayed(r)
    BY <2>1 DEF Delayed
  <2>3. Called(r) + Delayed(r) = Called(r)' + Delayed(r)' + one
    <3> HIDE DEF one
    <3>1. one \in {0, 1}
      BY DEF one
    <3> QED
      BY <1>2, <1>3, <2>2, <3>1
  <2> QED
    BY <1>1, <2>1, <2>3, LoadMoves
<1> QED
  BY <1>4, <1>5

(* A request moves from the pause queue on.                                *)
LEMMA TickMoves ==
  ASSUME DownloadTypeOK, Bound, DownloadTypeOK', Bound', onTimerTicked, NEW r \in Requesters
  PROVE  Moves(r)
<1> DEFINE x == Head(requesterQueue)
<1>1. /\ requesterQueue # <<>> /\ requesterQueue' = Tail(requesterQueue)
      /\ load(x, pendingRequesters, pausedRequesters, transfers, stillRunning)
      /\ UNCHANGED <<messages, handlerQueue, parentOf>>
  BY DEF onTimerTicked
<1>2. requesterQueue \in Seq(Requesters)
  BY DEF DownloadTypeOK
<1>3. /\ x \in Requesters
      /\ Times(requesterQueue, {r}) = Times(Tail(requesterQueue), {r}) + (IF x \in {r} THEN 1 ELSE 0)
  BY <1>1, <1>2, TimesTail
<1> HIDE DEF x
<1>4. Delayed(r) = Delayed(r)' + (IF r = x THEN 1 ELSE 0)
  <2>1. Times(requesterQueue, {r}) = Times(requesterQueue', {r}) + (IF x \in {r} THEN 1 ELSE 0)
    BY <1>1, <1>3
  <2>2. Delayed(r) = Delayed(r)' + (IF x \in {r} THEN 1 ELSE 0)
    BY <2>1 DEF Delayed
  <2> QED
    BY <2>2
<1>5. Called(r)' = Called(r) /\ loadedIds' = loadedIds
  BY <1>1 DEF Called, loadedIds
<1>6. Called(r) \in Nat /\ Delayed(r)' \in Nat
  BY PlacesNow, PlacesNext
<1>7. Called(r) + Delayed(r) = Called(r)' + Delayed(r)' + (IF r = x THEN 1 ELSE 0)
  BY <1>4, <1>5, <1>6
<1> QED
  BY <1>1, <1>3, <1>5, <1>7, LoadMoves

(* Somebody pending is loaded, or nobody.                                  *)
LEMMA NextMoves ==
  ASSUME DownloadTypeOK, Bound, DownloadTypeOK', Bound', NEW others,
         \/ NextLoaded(others)
         \/ /\ DOMAIN transfers' = DOMAIN others /\ activeIds' = activeIds
            /\ pendingRequesters' = pendingRequesters,
         DOMAIN others \cup loadedIds' = Live, parentOf' = parentOf,
         messages' = messages, requesterQueue' = requesterQueue,
         NEW r \in Requesters, Called(r)' = Called(r)
  PROVE  Moves(r)
<1>1. Asked(r)' = Asked(r) /\ Delayed(r)' = Delayed(r)
  BY DEF Asked, Delayed
<1>2. /\ Places(r) = Asked(r) + Called(r) + Delayed(r) + Pending(r) + Loading(r)
      /\ Asked(r) \in Nat /\ Called(r) \in Nat /\ Delayed(r) \in Nat
      /\ Pending(r) \in Nat /\ Loading(r) \in Nat /\ Places(r) \in Nat
      /\ Places(r)' = Asked(r)' + Called(r)' + Delayed(r)' + Pending(r)' + Loading(r)'
      /\ Pending(r)' \in Nat /\ Loading(r)' \in Nat
  BY PlacesNow, PlacesNext
<1>3. CASE NextLoaded(others)
  <2>1. Pending(r)' + Loading(r)' = (IF Alive(r) THEN Pending(r) ELSE 0) + Loading(r)
    BY <1>3, NextLoadedFlow
  <2>2. Places(r)' <= Places(r) /\ (Alive(r) => Places(r)' = Places(r))
    BY <1>1, <1>2, <2>1
  <2> QED
    BY <2>2 DEF Moves
<1>4. CASE /\ DOMAIN transfers' = DOMAIN others /\ activeIds' = activeIds
           /\ pendingRequesters' = pendingRequesters
  <2>1. Live' = Live
    BY <1>4 DEF Live
  <2>2. Loading(r)' = Loading(r) /\ Pending(r)' = Pending(r)
    BY <1>4, <2>1, SameLoading DEF Pending
  <2>3. Places(r)' = Places(r)
    BY <1>1, <1>2, <2>2
  <2> QED
    BY <1>2, <2>3 DEF Moves
<1> QED
  BY <1>3, <1>4

(* Pausing and unpausing lose nothing.                                     *)
LEMMA PauseMoves ==
  ASSUME DownloadTypeOK, Bound, DownloadTypeOK', Bound', NEW A \in SUBSET Addresses,
         handlerQueue # <<>>, handlerQueue' = Tail(handlerQueue),
         \/ Head(handlerQueue).type = "pause" /\ pauseRequesters(A)
         \/ Head(handlerQueue).type = "unpause" /\ unpauseRequesters(A),
         NEW r \in Requesters
  PROVE  Moves(r)
<1>1. Called(r)' = Called(r) /\ loadedIds' = loadedIds
  BY CommandTaken, Taken
<1>2. DOMAIN transfers \cup loadedIds' = Live
  BY <1>1 DEF Live
<1>3. CASE pauseRequesters(A)
  <2>1. DOMAIN transfers' = DOMAIN transfers
    BY <1>3, PauseTyped
  <2>2. UNCHANGED <<messages, requesterQueue, pendingRequesters, activeIds, parentOf>>
    BY <1>3 DEF pauseRequesters, mapVars
  <2> QED
    BY <1>1, <1>2, <2>1, <2>2, NextMoves
<1>4. CASE unpauseRequesters(A)
  <2>1. NextLoaded(transfers) \/ (/\ DOMAIN transfers' = DOMAIN transfers
                                  /\ activeIds' = activeIds
                                  /\ pendingRequesters' = pendingRequesters)
    BY <1>4, UnpauseTyped
  <2>2. UNCHANGED <<messages, requesterQueue, parentOf>>
    BY <1>4 DEF unpauseRequesters
  <2> QED
    BY <1>1, <1>2, <2>1, <2>2, NextMoves
<1> QED
  BY <1>3, <1>4

(* A transfer that is done becomes a signal; somebody pending may be       *)
(* loaded.                                                                 *)
LEMMA CurlMoves ==
  ASSUME DownloadTypeOK, Bound, DownloadTypeOK', Bound', Curl, NEW r \in Requesters
  PROVE  Moves(r)
<1>1. CASE socketFunctionCallback
  <2>1. UNCHANGED <<messages, handlerQueue, requesterQueue, pendingRequesters, transfers,
                    activeIds, parentOf>>
    BY <1>1 DEF socketFunctionCallback, waitVars, mapVars
  <2>2. Called(r)' = Called(r) /\ DOMAIN transfers \cup loadedIds' = Live
    BY <2>1 DEF Called, Live, loadedIds
  <2> QED
    BY <2>1, <2>2, NextMoves
<1>2. ASSUME NEW done \in SUBSET DOMAIN transfers, doAction(done)
      PROVE  Moves(r)
  <2>1. emitLoaded(done) /\ UNCHANGED <<messages, requesterQueue, parentOf>>
    BY <1>2 DEF doAction
  <2>2. Called(r)' = Called(r) /\ loadedIds' = loadedIds \cup done
    BY <2>1, Emitted DEF Called
  <2>3. DOMAIN Without(transfers, done) \cup loadedIds' = Live
    BY <2>2 DEF Without, Live
  <2>4. \/ NextLoaded(Without(transfers, done))
        \/ /\ DOMAIN transfers' = DOMAIN Without(transfers, done) /\ activeIds' = activeIds
           /\ pendingRequesters' = pendingRequesters
    BY <1>2, ActionTyped
  <2> QED
    BY <2>1, <2>2, <2>3, <2>4, NextMoves
<1>3. ASSUME NEW done \in SUBSET DOMAIN transfers, timeoutAction(done)
      PROVE  Moves(r)
  <2>1. /\ emitLoaded(done) /\ transfers' = Without(transfers, done)
        /\ UNCHANGED <<messages, requesterQueue, pendingRequesters, activeIds, parentOf>>
    BY <1>3 DEF timeoutAction, waitVars, mapVars
  <2>2. Called(r)' = Called(r) /\ loadedIds' = loadedIds \cup done
    BY <2>1, Emitted DEF Called
  <2>3. DOMAIN Without(transfers, done) \cup loadedIds' = Live
    BY <2>2 DEF Without, Live
  <2>4. DOMAIN transfers' = DOMAIN Without(transfers, done)
    BY <2>1
  <2> QED
    BY <2>1, <2>2, <2>3, <2>4, NextMoves
<1> QED
  BY <1>1, <1>2, <1>3 DEF Curl

(* Steps of which no queue is part move nothing.                           *)
LEMMA IdleMoves ==
  ASSUME DownloadTypeOK, Bound, DownloadTypeOK', Bound', NEW r \in Requesters,
         UNCHANGED <<messages, handlerQueue, requesterQueue, pendingRequesters, transfers,
                     activeIds, parentOf>>
  PROVE  Moves(r)
<1>1. Called(r)' = Called(r) /\ DOMAIN transfers \cup loadedIds' = Live
  BY DEF Called, Live, loadedIds
<1> QED
  BY <1>1, NextMoves

(* Whatever the handler takes from its queue, nothing is lost but what is  *)
(* reset.                                                                  *)
LEMMA HandlerMoves ==
  ASSUME DownloadTypeOK, Bound, LoadedOnce, NothingTwice, DownloadTypeOK', Bound',
         handleRequest, NEW r \in Requesters
  PROVE  Moves(r)
<1> DEFINE e == Head(handlerQueue)
<1>1. handlerQueue # <<>> /\ handlerQueue' = Tail(handlerQueue)
  BY DEF handleRequest
<1>2. e \in Events
  BY <1>1, Taken
<1>3. \/ e.type = "download" /\ handleDownload(e.requester)
      \/ e.type = "pause" /\ pauseRequesters(e.requesters)
      \/ e.type = "unpause" /\ unpauseRequesters(e.requesters)
      \/ e.type = "reset" /\ resetRequesters(e.requesters)
      \/ e.type = "loaded" /\ onUrlLoaded(e.id, e.hop)
  BY DEF handleRequest
<1>4. /\ e.type = "download" => /\ e.requester \in Requesters
                                /\ e = [type |-> "download", requester |-> e.requester]
      /\ e.type \in {"pause", "unpause", "reset"} => e.requesters \in SUBSET Addresses
  BY <1>2, EventTyped
<1>5. CASE e.type = "download" /\ handleDownload(e.requester)
  BY <1>1, <1>4, <1>5, DownloadMoves
<1>6. CASE e.type = "pause" /\ pauseRequesters(e.requesters)
  BY <1>1, <1>4, <1>6, PauseMoves
<1>7. CASE e.type = "unpause" /\ unpauseRequesters(e.requesters)
  BY <1>1, <1>4, <1>7, PauseMoves
<1>8. CASE e.type = "reset" /\ resetRequesters(e.requesters)
  BY <1>1, <1>8, ResetMoves
<1>9. CASE e.type = "loaded" /\ onUrlLoaded(e.id, e.hop)
  BY <1>1, <1>9, UrlMoves
<1> QED
  BY <1>3, <1>5, <1>6, <1>7, <1>8, <1>9

(***************************************************************************)
(* Bound and LoadedOnce at every step.                                     *)
(***************************************************************************)

(* Bound is kept by whoever is loaded.                                     *)
LEMMA BoundNextLoaded ==
  ASSUME DownloadTypeOK, Bound, parentOf' = parentOf, redirectsOf' = redirectsOf, NEW others,
         \/ NextLoaded(others)
         \/ activeIds' = activeIds
  PROVE  Bound'
BY BoundSame, BoundLoaded DEF NextLoaded, Loaded

(* It is kept by whatever the handler takes from its queue.                *)
LEMMA BoundHandled ==
  ASSUME DownloadTypeOK, Bound, handleRequest
  PROVE  Bound'
<1> DEFINE e == Head(handlerQueue)
<1>1. \/ e.type = "download" /\ handleDownload(e.requester)
      \/ e.type = "pause" /\ pauseRequesters(e.requesters)
      \/ e.type = "unpause" /\ unpauseRequesters(e.requesters)
      \/ e.type = "reset" /\ resetRequesters(e.requesters)
      \/ e.type = "loaded" /\ onUrlLoaded(e.id, e.hop)
  BY DEF handleRequest
<1>2. e \in Events
  BY Taken DEF handleRequest
<1>3. /\ e.type \in {"pause", "unpause", "reset"} => e.requesters \in SUBSET Addresses
      /\ e.type = "loaded" => e.id \in Nat
  BY <1>2, EventTyped
<1> HIDE DEF e
<1>4. ASSUME NEW x, handleDownload(x) PROVE Bound'
  <2>1. /\ parentOf' = parentOf /\ redirectsOf' = redirectsOf
        /\ \/ activeIds' = activeIds
           \/ load(x, pendingRequesters, pausedRequesters, transfers, stillRunning)
    BY <1>4 DEF handleDownload
  <2> QED
    BY <2>1, LoadIs, BoundSame, BoundLoaded DEF Loaded
<1>5. ASSUME NEW A, pauseRequesters(A) PROVE Bound'
  BY <1>5, BoundSame DEF pauseRequesters, mapVars
<1>6. ASSUME NEW A \in SUBSET Addresses, unpauseRequesters(A) PROVE Bound'
  <2>1. parentOf' = parentOf /\ redirectsOf' = redirectsOf
    BY <1>6 DEF unpauseRequesters
  <2> QED
    BY <1>6, <2>1, UnpauseTyped, BoundNextLoaded
<1>7. ASSUME NEW A, resetRequesters(A) PROVE Bound'
  <2> DEFINE ids == requestIndexes(A)
  <2>1. activeIds' = Without(activeIds, ids) /\ removeRequestIndexesChain(ids)
    BY <1>7 DEF resetRequesters
  <2>2. ids \in SUBSET Nat
    BY IndexesAre
  <2> HIDE DEF ids
  <2> QED
    BY <2>1, <2>2, BoundCut
<1>8. ASSUME NEW id \in Nat, NEW hop, onUrlLoaded(id, hop) PROVE Bound'
  <2>1. CASE followLocation(id, hop)
    <3>1. /\ activeIds' = activeIds
          /\ parentOf' = With(parentOf, requestCounter, id)
          /\ redirectsOf' = With(redirectsOf, id, <<requestCounter>>)
      BY <2>1 DEF followLocation
    <3> QED
      BY <3>1, BoundFollow
  <2>2. CASE removeLoadedResourceAssociatedData(id)
    <3>1. /\ activeIds' = Without(activeIds, {Root(parentOf, id)})
          /\ removeRequestIndexesChain({id}) /\ {id} \in SUBSET Nat
      BY <2>2, RemoveIs
    <3> QED
      BY <3>1, BoundCut
  <2> QED
    BY <1>8, <2>1, <2>2 DEF onUrlLoaded
<1> QED
  BY <1>1, <1>3, <1>4, <1>5, <1>6, <1>7, <1>8

(* Every step keeps Bound.                                                 *)
LEMMA BoundStep ==
  ASSUME DownloadTypeOK, Bound, [Next]_vars
  PROVE  Bound'
<1>1. CASE Worker
  BY <1>1, BoundSame DEF Worker, start, performLoading, stop, clear, mapVars
<1>2. CASE Dispatcher
  BY <1>2, BoundSame DEF Dispatcher, timerEvent, extractMessage, mapVars
<1>3. CASE Curl
  <2>1. CASE socketFunctionCallback
    BY <2>1, BoundSame DEF socketFunctionCallback, mapVars
  <2>2. ASSUME NEW done \in SUBSET DOMAIN transfers, doAction(done) PROVE Bound'
    <3>1. parentOf' = parentOf /\ redirectsOf' = redirectsOf
      BY <2>2 DEF doAction
    <3> QED
      BY <2>2, <3>1, ActionTyped, BoundNextLoaded
  <2>3. ASSUME NEW done \in SUBSET DOMAIN transfers, timeoutAction(done) PROVE Bound'
    BY <2>3, BoundSame DEF timeoutAction, mapVars
  <2> QED
    BY <1>3, <2>1, <2>2, <2>3 DEF Curl
<1>4. CASE handleRequest
  BY <1>4, BoundHandled
<1>5. CASE onTimerTicked
  <2>1. /\ parentOf' = parentOf /\ redirectsOf' = redirectsOf
        /\ load(Head(requesterQueue), pendingRequesters, pausedRequesters, transfers,
                stillRunning)
    BY <1>5 DEF onTimerTicked
  <2> QED
    BY <2>1, LoadIs, BoundLoaded DEF Loaded
<1>6. CASE setPauseRange
  BY <1>6, BoundSame DEF setPauseRange, mapVars
<1>7. CASE UNCHANGED vars
  BY <1>7, BoundSame DEF vars, mapVars
<1> QED
  BY <1>1, <1>2, <1>3, <1>4, <1>5, <1>6, <1>7 DEF Next

(* A transfer that is added has a number of its own.                       *)
LEMMA OnceKept ==
  ASSUME DownloadTypeOK, LoadedOnce, OneSignal(handlerQueue'), loadedIds' \subseteq loadedIds,
         DOMAIN transfers' \subseteq DOMAIN transfers \cup {requestCounter}
  PROVE  LoadedOnce'
<1>1. requestCounter \notin loadedIds
  BY DEF DownloadTypeOK, Ids
<1>2. DOMAIN transfers' \cap loadedIds' = {}
  BY <1>1 DEF LoadedOnce
<1> QED
  BY <1>2 DEF LoadedOnce, OneSignal

(* LoadedOnce depends on the queue and the transfers only.                 *)
LEMMA OnceSame ==
  ASSUME LoadedOnce, handlerQueue' = handlerQueue, transfers' = transfers
  PROVE  LoadedOnce'
BY DEF LoadedOnce, loadedIds

(* Loading somebody adds one transfer at most.                             *)
LEMMA TransfersOf ==
  ASSUME NEW others, NextLoaded(others) \/ \E x, pending : Loaded(x, pending, others)
  PROVE  DOMAIN transfers' \subseteq DOMAIN others \cup {requestCounter}
BY DEF NextLoaded, Loaded, With

(* Every step keeps LoadedOnce.                                            *)
LEMMA OnceStep ==
  ASSUME DownloadTypeOK, LoadedOnce, [Next]_vars
  PROVE  LoadedOnce'
<1>0. OneSignal(handlerQueue) /\ DOMAIN transfers \cap loadedIds = {}
  BY DEF LoadedOnce, OneSignal
<1>1. CASE Worker
  BY <1>1, OnceSame DEF Worker, start, performLoading, stop, clear, curlVars
<1>2. CASE timerEvent
  BY <1>2, OnceSame DEF timerEvent, curlVars
<1>3. CASE extractMessage
  <2>1. loadedIds' = loadedIds /\ transfers' = transfers
    BY <1>3, DispatcherTyped DEF extractMessage, curlVars, Dispatcher
  <2>2. CASE handlerQueue' = handlerQueue
    BY <2>1, <2>2, OnceSame
  <2>3. ASSUME NEW m, handlerQueue' = Append(handlerQueue, m), m.type # "loaded"
        PROVE  LoadedOnce'
    <3>1. handlerQueue \in Seq(Events)
      BY DEF DownloadTypeOK
    <3> DEFINE l == Len(handlerQueue)
    <3>2. /\ l \in Nat
          /\ DOMAIN handlerQueue = 1..l /\ DOMAIN handlerQueue' = 1..(l + 1)
          /\ \A i \in 1..l : handlerQueue'[i] = handlerQueue[i]
          /\ handlerQueue'[l + 1] = m
      BY <2>3, <3>1
    <3> HIDE DEF l
    <3>3. OneSignal(handlerQueue')
      BY <1>0, <2>3, <3>2 DEF OneSignal
    <3> QED
      BY <2>1, <3>3, OnceKept
  <2>4. \/ handlerQueue' = handlerQueue
        \/ \E m : handlerQueue' = Append(handlerQueue, m) /\ m.type # "loaded"
    <3> DEFINE m == Last(messages)
    <3>1. messages \in Seq(Messages) /\ messages # <<>>
      BY <1>3 DEF DownloadTypeOK, extractMessage
    <3>2. m \in Messages
      BY <3>1, TimesFront
    <3>3. m.type # "loaded"
      BY <3>2 DEF Messages
    <3>4. handlerQueue' = handlerQueue \/ handlerQueue' = Append(handlerQueue, m)
      BY <1>3 DEF extractMessage
    <3> QED
      BY <3>3, <3>4
  <2> QED
    BY <2>2, <2>3, <2>4
<1>4. CASE Curl
  <2>1. CASE socketFunctionCallback
    BY <2>1, OnceSame DEF socketFunctionCallback
  <2>2. ASSUME NEW done \in SUBSET DOMAIN transfers, doAction(done) \/ timeoutAction(done)
        PROVE  LoadedOnce'
    <3>1. emitLoaded(done)
      BY <2>2 DEF doAction, timeoutAction
    <3>2. OneSignal(handlerQueue') /\ loadedIds' = loadedIds \cup done
      BY <3>1, Emitted
    <3>3. DOMAIN transfers' \subseteq (DOMAIN transfers \ done) \cup {requestCounter}
      <4>1. DOMAIN Without(transfers, done) = DOMAIN transfers \ done
        BY DEF Without
      <4>2. CASE timeoutAction(done)
        BY <4>1, <4>2 DEF timeoutAction
      <4>3. CASE doAction(done)
        <5>1. NextLoaded(Without(transfers, done)) \/ transfers' = Without(transfers, done)
          BY <4>3, ActionTyped
        <5> QED
          BY <4>1, <5>1, TransfersOf
      <4> QED
        BY <2>2, <4>2, <4>3
    <3>4. requestCounter \notin loadedIds /\ requestCounter \notin done
      BY DEF DownloadTypeOK, Ids
    <3>5. DOMAIN transfers' \cap loadedIds' = {}
      BY <1>0, <3>2, <3>3, <3>4
    <3> QED
      BY <3>2, <3>5 DEF LoadedOnce, OneSignal
  <2> QED
    BY <1>4, <2>1, <2>2 DEF Curl
<1>5. CASE handleRequest
  <2> DEFINE e == Head(handlerQueue)
  <2>1. handlerQueue # <<>> /\ handlerQueue' = Tail(handlerQueue)
    BY <1>5 DEF handleRequest
  <2>2. e \in Events /\ OneSignal(handlerQueue') /\ loadedIds' \subseteq loadedIds
    BY <2>1, Taken
  <2>3. \/ e.type = "download" /\ handleDownload(e.requester)
        \/ e.type = "pause" /\ pauseRequesters(e.requesters)
        \/ e.type = "unpause" /\ unpauseRequesters(e.requesters)
        \/ e.type = "reset" /\ resetRequesters(e.requesters)
        \/ e.type = "loaded" /\ onUrlLoaded(e.id, e.hop)
    BY <1>5 DEF handleRequest
  <2>4. e.type \in {"pause", "unpause"} => e.requesters \in SUBSET Addresses
    BY <2>2, EventTyped
  <2> HIDE DEF e
  <2>5. DOMAIN transfers' \subseteq DOMAIN transfers \cup {requestCounter}
    <3>1. ASSUME NEW x, handleDownload(x)
          PROVE  DOMAIN transfers' \subseteq DOMAIN transfers \cup {requestCounter}
      BY <3>1, LoadIs, TransfersOf DEF handleDownload
    <3>2. ASSUME NEW A \in SUBSET Addresses, pauseRequesters(A) \/ unpauseRequesters(A)
          PROVE  DOMAIN transfers' \subseteq DOMAIN transfers \cup {requestCounter}
      BY <3>2, PauseTyped, UnpauseTyped, TransfersOf
    <3>3. ASSUME NEW A, resetRequesters(A)
          PROVE  DOMAIN transfers' \subseteq DOMAIN transfers \cup {requestCounter}
      BY <3>3 DEF resetRequesters, Without
    <3>4. ASSUME NEW id, NEW hop, onUrlLoaded(id, hop)
          PROVE  DOMAIN transfers' \subseteq DOMAIN transfers \cup {requestCounter}
      BY <3>4 DEF onUrlLoaded, followLocation, get, With
    <3> QED
      BY <2>3, <2>4, <3>1, <3>2, <3>3, <3>4
  <2> QED
    BY <2>2, <2>5, OnceKept
<1>6. CASE onTimerTicked
  <2>1. handlerQueue' = handlerQueue /\ loadedIds' = loadedIds
    BY <1>6 DEF onTimerTicked, loadedIds
  <2>2. load(Head(requesterQueue), pendingRequesters, pausedRequesters, transfers, stillRunning)
    BY <1>6 DEF onTimerTicked
  <2>3. DOMAIN transfers' \subseteq DOMAIN transfers \cup {requestCounter}
    BY <2>2, LoadIs, TransfersOf
  <2> QED
    BY <1>0, <2>1, <2>3, OnceKept
<1>7. CASE setPauseRange
  BY <1>7, OnceSame DEF setPauseRange, curlVars
<1>8. CASE UNCHANGED vars
  BY <1>8, OnceSame DEF vars, curlVars
<1> QED
  BY <1>1, <1>2, <1>3, <1>4, <1>5, <1>6, <1>7, <1>8 DEF Next, Dispatcher

(***************************************************************************)
(* The worker, and the kinds of steps there are for its requests.          *)
(***************************************************************************)

(* Places that only depend on what the worker has posted.                  *)
LEMMA WorkerPlaces ==
  ASSUME DownloadTypeOK, Bound, DownloadTypeOK', Bound',
         UNCHANGED <<handlerQueue, waitVars, mapVars, curlVars>>, NEW r
  PROVE  Places(r)' - Asked(r)' = Places(r) - Asked(r)
<1>1. /\ Called(r)' = Called(r) /\ Delayed(r)' = Delayed(r) /\ Pending(r)' = Pending(r)
  BY DEF Called, Delayed, Pending, waitVars
<1>2. Loading(r)' = Loading(r)
  <2>1. Live' = Live /\ activeIds' = activeIds /\ parentOf' = parentOf
    BY DEF Live, loadedIds, curlVars, mapVars
  <2> QED
    BY <2>1, SameLoading
<1>3. /\ Places(r) = Asked(r) + Called(r) + Delayed(r) + Pending(r) + Loading(r)
      /\ Asked(r) \in Nat /\ Called(r) \in Nat /\ Delayed(r) \in Nat
      /\ Pending(r) \in Nat /\ Loading(r) \in Nat
      /\ Places(r)' = Asked(r)' + Called(r)' + Delayed(r)' + Pending(r)' + Loading(r)'
      /\ Asked(r)' \in Nat
  BY PlacesNow, PlacesNext
<1> QED
  BY <1>1, <1>2, <1>3

(* The worker asks for one more page.                                      *)
Asks(x, a) ==
  /\ address[x] = None /\ address' = [address EXCEPT ![x] = a]
  /\ activeRequesters' = activeRequesters \cup {x}
  /\ onAboutClearData' = onAboutClearData /\ clears' = clears
  /\ \A r \in Requesters : Places(r)' = Places(r) + (IF r = x THEN 1 ELSE 0)
  /\ \A m \in ToSet(messages') :
       \/ m \in ToSet(messages)
       \/ m = [type |-> "download", requester |-> x]
       \/ m.type \in {"pause", "unpause"}

(* It posts a command, or does nothing.                                    *)
Orders ==
  /\ address' = address /\ activeRequesters' \subseteq activeRequesters
  /\ onAboutClearData' \subseteq onAboutClearData \cup activeRequesters
  /\ \A r \in Requesters : Places(r)' = Places(r)
  /\ \A m \in ToSet(messages') : m \in ToSet(messages) \/ m.type \in {"pause", "unpause", "reset"}

(* The elements of a queue to which one is appended.                       *)
LEMMA AppendedSet ==
  ASSUME NEW T, NEW q \in Seq(T), NEW m \in T
  PROVE  ToSet(Append(q, m)) = ToSet(q) \cup {m}
<1> DEFINE l == Len(q)
           s == Append(q, m)
<1>1. /\ l \in Nat /\ DOMAIN q = 1..l /\ DOMAIN s = 1..(l + 1)
      /\ \A i \in 1..l : s[i] = q[i]
      /\ s[l + 1] = m
  OBVIOUS
<1> HIDE DEF l, s
<1>2. ToSet(q) \subseteq ToSet(s) /\ m \in ToSet(s)
  BY <1>1 DEF ToSet
<1>3. ASSUME NEW e \in ToSet(s) PROVE e \in ToSet(q) \cup {m}
  <2>1. PICK i \in 1..(l + 1) : e = s[i]
    BY <1>1 DEF ToSet
  <2>2. i = l + 1 \/ i \in 1..l
    BY <1>1
  <2> QED
    BY <1>1, <2>1, <2>2 DEF ToSet
<1> QED
  BY <1>2, <1>3 DEF s

(* performLoading puts a new requester in one place.                       *)
LEMMA AskFlow ==
  ASSUME DownloadTypeOK, Bound, DownloadTypeOK', Bound', Unused, NEW posted,
         \/ posted = messages
         \/ posted = unpauseAllPausedDownloads,
         performLoadingAfter(posted), onAboutClearData' = onAboutClearData, clears' = clears,
         UNCHANGED <<handlerQueue, waitVars, mapVars, curlVars>>
  PROVE  \E x \in Requesters, a \in FreeAddresses : Asks(x, a)
<1>1. PICK x \in Requesters, a \in FreeAddresses :
               /\ address[x] = None
               /\ address' = [address EXCEPT ![x] = a]
               /\ activeRequesters' = activeRequesters \cup {x}
               /\ messages' = Append(posted, [type |-> "download", requester |-> x])
  BY DEF performLoadingAfter
<1> DEFINE m == [type |-> "download", requester |-> x]
           u == [type |-> "unpause", requesters |-> keys]
<1>2. WorkerOK /\ keys \subseteq Addresses
  BY TypeParts, KeysTyped
<1>3. messages \in Seq(Messages) /\ m \in Messages /\ u \in Messages
  BY <1>2 DEF WorkerOK, Messages
<1>4. posted = messages \/ posted = Append(messages, u)
  BY DEF unpauseAllPausedDownloads
<1>5. u.type = "unpause" /\ messages' = Append(posted, m)
  BY <1>1
<1>6. \A r : /\ u \notin [type : {"download", "answer"}, requester : {r}]
             /\ m \in [type : {"download", "answer"}, requester : {r}] <=> r = x
  OBVIOUS
<1> HIDE DEF m, u
<1>7. posted \in Seq(Messages) /\ ToSet(posted) \subseteq ToSet(messages) \cup {u}
  <2>1. Append(messages, u) \in Seq(Messages) /\ ToSet(Append(messages, u)) = ToSet(messages) \cup {u}
    BY <1>3, AppendedSet
  <2>2. CASE posted = messages
    BY <1>3, <2>2
  <2>3. CASE posted = Append(messages, u)
    BY <2>1, <2>3
  <2> QED
    BY <1>4, <2>2, <2>3
<1>8. ToSet(messages') = ToSet(posted) \cup {m}
  BY <1>3, <1>5, <1>7, AppendedSet
<1>9. ASSUME NEW r \in Requesters PROVE Places(r)' = Places(r) + (IF r = x THEN 1 ELSE 0)
  <2> DEFINE kind == [type : {"download", "answer"}, requester : {r}]
  <2>1. u \notin kind /\ (m \in kind <=> r = x)
    BY <1>6
  <2> HIDE DEF kind
  <2>2. Times(posted, kind) = Times(messages, kind) /\ Times(messages, kind) \in Nat
    <3>1. /\ Times(messages, kind) \in Nat
          /\ Times(Append(messages, u), kind)
               = Times(messages, kind) + (IF u \in kind THEN 1 ELSE 0)
      BY <1>3, TimesAppend
    <3>2. CASE posted = messages
      BY <3>1, <3>2
    <3>3. CASE posted = Append(messages, u)
      <4>1. Times(posted, kind) = Times(messages, kind) + 0
        BY <2>1, <3>1, <3>3
      <4> QED
        BY <3>1, <4>1
    <3> QED
      BY <1>4, <3>2, <3>3
  <2>3. Times(Append(posted, m), kind) = Times(posted, kind) + (IF m \in kind THEN 1 ELSE 0)
    BY <1>3, <1>7, TimesAppend
  <2>4. Times(messages', kind) = Times(messages, kind) + (IF r = x THEN 1 ELSE 0)
    BY <1>5, <2>1, <2>2, <2>3
  <2>5. Asked(r)' = Asked(r) + (IF r = x THEN 1 ELSE 0) /\ Asked(r) \in Nat
    BY <2>2, <2>4 DEF Asked, kind
  <2>6. Places(r)' - Asked(r)' = Places(r) - Asked(r)
    BY WorkerPlaces
  <2>7. Places(r) \in Nat /\ Places(r)' \in Nat /\ Asked(r)' \in Nat
    BY PlacesNow, PlacesNext
  <2> QED
    BY <2>5, <2>6, <2>7
<1>10. Asks(x, a)
  BY <1>1, <1>5, <1>7, <1>8, <1>9 DEF Asks, m
<1> QED
  BY <1>10

(* A command moves no request.                                             *)
LEMMA OrderFlow ==
  ASSUME DownloadTypeOK, Bound, DownloadTypeOK', Bound', NEW m \in Messages,
         m.type \in {"pause", "unpause", "reset"}, messages' = Append(messages, m),
         address' = address, activeRequesters' \subseteq activeRequesters,
         onAboutClearData' \subseteq onAboutClearData \cup activeRequesters,
         UNCHANGED <<handlerQueue, waitVars, mapVars, curlVars>>
  PROVE  Orders
<1>1. messages \in Seq(Messages)
  BY DEF DownloadTypeOK
<1>2. ToSet(messages') = ToSet(messages) \cup {m}
  BY <1>1, AppendedSet
<1>3. ASSUME NEW r PROVE Places(r)' = Places(r)
  <2>1. m \notin [type : {"download", "answer"}, requester : {r}]
    BY CommandsUncounted
  <2>2. Asked(r)' = Asked(r)
    BY <1>1, <2>1, Posted
  <2>3. Places(r)' - Asked(r)' = Places(r) - Asked(r)
    BY WorkerPlaces
  <2>4. Places(r) \in Nat /\ Places(r)' \in Nat /\ Asked(r) \in Nat
    BY PlacesNow, PlacesNext
  <2> QED
    BY <2>2, <2>3, <2>4
<1> QED
  BY <1>2, <1>3 DEF Orders

(* The worker asks for one more page or posts a command.                   *)
LEMMA WorkerFlow ==
  ASSUME DownloadTypeOK, Bound, DownloadTypeOK', Bound', Unused, Worker
  PROVE  (\E x \in Requesters, a \in FreeAddresses : Asks(x, a)) \/ Orders
<1>1. /\ UNCHANGED <<handlerQueue, waitVars, mapVars, curlVars>>
  BY DEF Worker, start, performLoading, stop, clear
<1>2. keys \subseteq Addresses
  BY TypeParts, KeysTyped
<1>3. \A t \in {"pause", "unpause", "reset"} :
        /\ [type |-> t, requesters |-> keys] \in Messages
        /\ [type |-> t, requesters |-> keys].type = t
  BY <1>2 DEF Messages
<1>4. CASE start
  <2>1. \/ messages' = unpauseAllPausedDownloads /\ UNCHANGED <<activeRequesters, address>>
        \/ performLoadingAfter(unpauseAllPausedDownloads)
    BY <1>4 DEF start
  <2>2. onAboutClearData' = onAboutClearData /\ clears' = clears
    BY <1>4 DEF start
  <2>3. CASE performLoadingAfter(unpauseAllPausedDownloads)
    BY <1>1, <2>2, <2>3, AskFlow
  <2>4. CASE messages' = unpauseAllPausedDownloads /\ UNCHANGED <<activeRequesters, address>>
    <3>1. messages' = Append(messages, [type |-> "unpause", requesters |-> keys])
      BY <2>4 DEF unpauseAllPausedDownloads
    <3> QED
      BY <1>1, <1>3, <2>2, <2>4, <3>1, OrderFlow
  <2> QED
    BY <2>1, <2>3, <2>4
<1>5. CASE performLoading
  <2>1. performLoadingAfter(messages) /\ onAboutClearData' = onAboutClearData
        /\ clears' = clears
    BY <1>5 DEF performLoading
  <2> QED
    BY <1>1, <2>1, AskFlow
<1>6. CASE stop
  <2>1. /\ messages' = Append(messages, [type |-> "pause", requesters |-> keys])
        /\ UNCHANGED <<activeRequesters, address, onAboutClearData>>
    BY <1>6 DEF stop, pauseAllActiveDownloads
  <2> QED
    BY <1>1, <1>3, <2>1, OrderFlow
<1>7. CASE clear
  <2>1. /\ messages' = Append(messages, [type |-> "reset", requesters |-> keys])
        /\ address' = address /\ activeRequesters' = {} /\ onAboutClearData' = activeRequesters
    BY <1>7 DEF clear
  <2> QED
    BY <1>1, <1>3, <2>1, OrderFlow
<1> QED
  BY <1>4, <1>5, <1>6, <1>7 DEF Worker

(* The worker takes an answer, or passes a message on.                     *)
Answers(q) ==
  /\ answered' = answered \cup {q} /\ activeRequesters' = activeRequesters \ {q}
  /\ onAboutClearData' = onAboutClearData
  /\ \A r \in Requesters : Places(r)' = Places(r) - (IF r = q THEN 1 ELSE 0)
Delivers ==
  /\ answered' = answered /\ activeRequesters' = activeRequesters
  /\ onAboutClearData' \subseteq onAboutClearData
  /\ \A r \in Requesters : Places(r)' = Places(r)

(* The newest message and the others.                                      *)
LEMMA FrontSet ==
  ASSUME NEW T, NEW q \in Seq(T), q # <<>>
  PROVE  ToSet(q) = ToSet(Front(q)) \cup {Last(q)} /\ Last(q) \in T /\ Front(q) \in Seq(T)
<1>1. Last(q) \in T /\ Front(q) \in Seq(T)
  BY TimesFront
<1>2. q = Append(Front(q), Last(q))
  BY DEF Last, Front
<1>3. ToSet(Append(Front(q), Last(q))) = ToSet(Front(q)) \cup {Last(q)}
  BY <1>1, AppendedSet
<1> DEFINE f == Front(q)
           l == Last(q)
<1> HIDE DEF f, l
<1>4. q = Append(f, l) /\ ToSet(Append(f, l)) = ToSet(f) \cup {l}
  BY <1>2, <1>3 DEF f, l
<1>5. ToSet(q) = ToSet(f) \cup {l}
  BY <1>4
<1> QED
  BY <1>1, <1>5 DEF f, l

(* The dispatcher takes an answer, or moves a message to the handler as it *)
(* is.                                                                     *)
LEMMA ExtractFlow ==
  ASSUME DownloadTypeOK, Bound, DownloadTypeOK', Bound', extractMessage
  PROVE  /\ (\E q \in Requesters : Answers(q)) \/ Delivers
         /\ ToSet(messages') \subseteq ToSet(messages)
         /\ ToSet(handlerQueue') \subseteq ToSet(handlerQueue) \cup ToSet(messages)
         /\ address' = address /\ requesterQueue' = requesterQueue
<1> DEFINE m == Last(messages)
<1>1. messages \in Seq(Messages) /\ messages # <<>> /\ handlerQueue \in Seq(Events)
  BY DEF DownloadTypeOK, extractMessage
<1>2. m \in Messages /\ ToSet(messages) = ToSet(Front(messages)) \cup {m}
  BY <1>1, FrontSet
<1>3. /\ messages' = Front(messages)
      /\ UNCHANGED <<address, waitVars, mapVars, curlVars, requesterQueue>>
  BY DEF extractMessage, waitVars
<1>4. \/ /\ m.type = "answer"
         /\ activeRequesters' = activeRequesters \ {m.requester}
         /\ answered' = answered \cup {m.requester}
         /\ UNCHANGED <<onAboutClearData, handlerQueue>>
      \/ /\ m.type # "answer" /\ onAboutClearData' \subseteq onAboutClearData
         /\ UNCHANGED <<activeRequesters, answered>>
         /\ \/ m.type = "resetDone" /\ handlerQueue' = handlerQueue
            \/ m.type # "resetDone" /\ handlerQueue' = Append(handlerQueue, m)
  BY DEF extractMessage
<1>5. ASSUME NEW r
      PROVE  Asked(r) = Asked(r)' + (IF m \in [type : {"download", "answer"}, requester : {r}]
                                     THEN 1 ELSE 0)
  <2> DEFINE kind == [type : {"download", "answer"}, requester : {r}]
  <2> HIDE DEF kind
  <2>1. Times(messages, kind)
          = Times(Front(messages), kind) + (IF Last(messages) \in kind THEN 1 ELSE 0)
    BY <1>1, TimesFront
  <2>2. Times(messages, kind) = Times(messages', kind) + (IF m \in kind THEN 1 ELSE 0)
    BY <1>3, <2>1
  <2> HIDE DEF m
  <2> QED
    BY <2>2 DEF Asked, kind
<1> HIDE DEF m
<1>6. ToSet(handlerQueue') \subseteq ToSet(handlerQueue) \cup ToSet(messages)
  <2>1. CASE handlerQueue' = handlerQueue
    BY <2>1
  <2>2. CASE handlerQueue' = Append(handlerQueue, m) /\ m.type \notin {"answer", "resetDone"}
    <3>1. m \in Events
      BY <1>2, <2>2 DEF Events
    <3>2. ToSet(Append(handlerQueue, m)) = ToSet(handlerQueue) \cup {m}
      BY <1>1, <3>1, AppendedSet
    <3> QED
      BY <1>2, <2>2, <3>2
  <2> QED
    BY <1>4, <2>1, <2>2
<1>7. \A r : /\ Delayed(r)' = Delayed(r) /\ Pending(r)' = Pending(r)
             /\ Places(r) = Asked(r) + Called(r) + Delayed(r) + Pending(r) + Loading(r)
             /\ Asked(r) \in Nat /\ Called(r) \in Nat /\ Delayed(r) \in Nat
             /\ Pending(r) \in Nat /\ Loading(r) \in Nat
             /\ Places(r)' = Asked(r)' + Called(r)' + Delayed(r)' + Pending(r)' + Loading(r)'
             /\ Asked(r)' \in Nat /\ Called(r)' \in Nat
  <2>1. ASSUME NEW r
        PROVE  Delayed(r)' = Delayed(r) /\ Pending(r)' = Pending(r)
    BY <1>3 DEF Delayed, Pending, waitVars
  <2> QED
    BY <2>1, PlacesNow, PlacesNext
<1>8. ASSUME NEW r PROVE Loading(r)' = Loading(r)
  <2>1. loadedIds' = loadedIds
    BY DispatcherTyped DEF Dispatcher
  <2>2. Live' = Live /\ activeIds' = activeIds /\ parentOf' = parentOf
    BY <1>3, <2>1 DEF Live, curlVars, mapVars
  <2> QED
    BY <2>2, SameLoading
<1>9. CASE m.type = "answer"
  <2> DEFINE q == m.requester
  <2>1. q \in Requesters
    BY <1>2, <1>9 DEF Messages
  <2>2. handlerQueue' = handlerQueue
    BY <1>4, <1>9
  <2>3. ASSUME NEW r \in Requesters PROVE Places(r)' = Places(r) - (IF r = q THEN 1 ELSE 0)
    <3>1. Called(r)' = Called(r)
      BY <2>2 DEF Called
    <3>2. m \in [type : {"download", "answer"}, requester : {r}] <=> r = q
      BY <1>2, <1>9 DEF Messages
    <3>3. Asked(r) = Asked(r)' + (IF r = q THEN 1 ELSE 0)
      BY <1>5, <3>2
    <3> HIDE DEF q
    <3> QED
      BY <1>7, <1>8, <3>1, <3>3
  <2>4. Answers(q)
    BY <1>4, <1>9, <2>3 DEF Answers
  <2> QED
    BY <1>2, <1>3, <1>6, <2>1, <2>4
<1>10. CASE m.type # "answer"
  <2>1. ASSUME NEW r \in Requesters PROVE Places(r)' = Places(r)
    <3> DEFINE d == [type |-> "download", requester |-> r]
    <3>1. m \in [type : {"download", "answer"}, requester : {r}] <=> m = d
      BY <1>2, <1>10 DEF Messages
    <3>2. Asked(r) = Asked(r)' + (IF m = d THEN 1 ELSE 0)
      BY <1>5, <3>1
    <3>3. Called(r)' = Called(r) + (IF m = d THEN 1 ELSE 0)
      <4>1. CASE m.type = "resetDone" /\ handlerQueue' = handlerQueue
        <5>1. m # d
          BY <4>1
        <5>2. Called(r)' = Called(r)
          BY <4>1 DEF Called
        <5> HIDE DEF d
        <5> QED
          BY <1>7, <5>1, <5>2
      <4>2. CASE m.type # "resetDone" /\ handlerQueue' = Append(handlerQueue, m)
        <5> DEFINE kind == [type : {"download"}, requester : {r}]
        <5>1. m \in Events
          BY <1>2, <1>10, <4>2 DEF Events
        <5>2. m \in kind <=> m = d
          BY <1>2 DEF Messages
        <5> HIDE DEF kind, d
        <5>3. Times(Append(handlerQueue, m), kind)
                = Times(handlerQueue, kind) + (IF m \in kind THEN 1 ELSE 0)
          BY <1>1, <5>1, TimesAppend
        <5>4. Times(handlerQueue', kind) = Times(handlerQueue, kind) + (IF m = d THEN 1 ELSE 0)
          BY <4>2, <5>2, <5>3
        <5> QED
          BY <5>4 DEF Called, kind
      <4> QED
        BY <1>4, <1>10, <4>1, <4>2
    <3> HIDE DEF d
    <3> QED
      BY <1>7, <1>8, <3>2, <3>3
  <2>2. Delivers
    BY <1>4, <1>10, <2>1 DEF Delivers
  <2> QED
    BY <1>2, <1>3, <1>6, <2>2
<1> QED
  BY <1>9, <1>10

(* A requester comes alive only when the worker makes it.                  *)
LEMMA AliveStep ==
  ASSUME DownloadTypeOK, Bound, DownloadTypeOK', Bound', Unused, [Next]_vars, NEW r, Alive(r)'
  PROVE  \/ Alive(r)
         \/ \E a \in FreeAddresses : Asks(r, a)
<1>a. \A m : r \in RequesterOf(m) <=> m.type \in {"download", "answer"} /\ m.requester = r
  BY DEF RequesterOf
<1>b. \/ r \in activeRequesters' \cup onAboutClearData' \cup ToSet(requesterQueue')
      \/ \E m \in ToSet(messages') : m.type \in {"download", "answer"} /\ m.requester = r
      \/ \E e \in ToSet(handlerQueue') : e.type = "download" /\ e.requester = r
  BY <1>a DEF Alive
<1>c. Alive(r) <=>
      \/ r \in activeRequesters \cup onAboutClearData \cup ToSet(requesterQueue)
      \/ \E m \in ToSet(messages) : m.type \in {"download", "answer"} /\ m.requester = r
      \/ \E e \in ToSet(handlerQueue) : e.type = "download" /\ e.requester = r
  BY <1>a DEF Alive
<1>1. CASE Worker
  <2>1. UNCHANGED <<handlerQueue, requesterQueue>>
    BY <1>1 DEF Worker, start, performLoading, stop, clear, waitVars
  <2>2. ASSUME NEW x \in Requesters, NEW a \in FreeAddresses, Asks(x, a)
        PROVE  Alive(r) \/ \E b \in FreeAddresses : Asks(r, b)
    <3>1. r # x => Alive(r)
      BY <1>b, <1>c, <2>1, <2>2 DEF Asks
    <3> QED
      BY <2>2, <3>1
  <2>3. CASE Orders
    BY <1>b, <1>c, <2>1, <2>3 DEF Orders
  <2> QED
    BY <1>1, <2>2, <2>3, WorkerFlow
<1>2. CASE timerEvent
  BY <1>2, <1>b, <1>c DEF timerEvent, waitVars
<1>3. CASE extractMessage
  <2>1. /\ (\E q \in Requesters : Answers(q)) \/ Delivers
        /\ ToSet(messages') \subseteq ToSet(messages)
        /\ ToSet(handlerQueue') \subseteq ToSet(handlerQueue) \cup ToSet(messages)
        /\ requesterQueue' = requesterQueue
    BY <1>3, ExtractFlow
  <2>2. activeRequesters' \subseteq activeRequesters /\ onAboutClearData' \subseteq onAboutClearData
    BY <2>1 DEF Answers, Delivers
  <2> QED
    BY <1>b, <1>c, <2>1, <2>2
<1>4. CASE Curl
  <2>1. /\ UNCHANGED <<activeRequesters, onAboutClearData, requesterQueue, messages>>
        /\ \/ handlerQueue' = handlerQueue
           \/ \E done \in SUBSET DOMAIN transfers : emitLoaded(done)
    BY <1>4 DEF Curl, socketFunctionCallback, doAction, timeoutAction, workerVars, waitVars
  <2>2. \A e \in ToSet(handlerQueue') : e.type # "loaded" => e \in ToSet(handlerQueue)
    BY <2>1, Emitted
  <2> QED
    BY <1>b, <1>c, <2>1, <2>2
<1>5. CASE handleRequest
  <2> DEFINE e == Head(handlerQueue)
  <2>1. /\ handlerQueue # <<>> /\ handlerQueue' = Tail(handlerQueue)
        /\ UNCHANGED <<activeRequesters, onAboutClearData>>
    BY <1>5 DEF handleRequest, workerVars
  <2>2. e \in Events /\ ToSet(handlerQueue) = ToSet(handlerQueue') \cup {e}
    BY <2>1, Taken
  <2>3. \/ e.type = "download" /\ handleDownload(e.requester)
        \/ e.type = "pause" /\ pauseRequesters(e.requesters)
        \/ e.type = "unpause" /\ unpauseRequesters(e.requesters)
        \/ e.type = "reset" /\ resetRequesters(e.requesters)
        \/ e.type = "loaded" /\ onUrlLoaded(e.id, e.hop)
    BY <1>5 DEF handleRequest
  <2>4. e.type = "download" => e.requester \in Requesters
    BY <2>2, EventTyped
  <2> HIDE DEF e
  <2>5. \/ requesterQueue' = requesterQueue
        \/ e.type = "download" /\ requesterQueue' = Append(requesterQueue, e.requester)
    BY <2>3 DEF handleDownload, pauseRequesters, unpauseRequesters, resetRequesters, onUrlLoaded
  <2>6. ToSet(requesterQueue') \subseteq ToSet(requesterQueue) \cup
          (IF e.type = "download" THEN {e.requester} ELSE {})
    <3>1. requesterQueue \in Seq(Requesters)
      BY DEF DownloadTypeOK
    <3>2. CASE e.type = "download" /\ requesterQueue' = Append(requesterQueue, e.requester)
      BY <2>4, <3>1, <3>2, AppendedSet
    <3> QED
      BY <2>5, <3>2
  <2>7. \/ messages' = messages
        \/ messages' = Append(messages, [type |-> "resetDone", requesters |-> {}])
        \/ \E q \in Requesters : Alive(q) /\
              messages' = Append(messages, [type |-> "answer", requester |-> q])
    BY <2>3 DEF handleDownload, pauseRequesters, unpauseRequesters, resetRequesters,
                onUrlLoaded, followLocation, requesterById
  <2>8. \A m \in ToSet(messages') :
          \/ m \in ToSet(messages)
          \/ m.type = "resetDone"
          \/ m.type = "answer" /\ Alive(m.requester)
    <3>1. messages \in Seq(Messages)
      BY DEF DownloadTypeOK
    <3>2. CASE messages' = Append(messages, [type |-> "resetDone", requesters |-> {}])
      <4> DEFINE d == [type |-> "resetDone", requesters |-> {}]
      <4>1. d \in Messages /\ d.type = "resetDone" /\ messages' = Append(messages, d)
        BY <3>2 DEF Messages
      <4> HIDE DEF d
      <4>2. ToSet(messages') = ToSet(messages) \cup {d}
        BY <3>1, <4>1, AppendedSet
      <4> QED
        BY <4>1, <4>2
    <3>3. ASSUME NEW q \in Requesters, Alive(q),
                 messages' = Append(messages, [type |-> "answer", requester |-> q])
          PROVE  \A m \in ToSet(messages') : \/ m \in ToSet(messages)
                                             \/ m.type = "answer" /\ Alive(m.requester)
      <4> DEFINE d == [type |-> "answer", requester |-> q]
      <4>1. /\ d \in Messages /\ d.type = "answer" /\ d.requester = q
            /\ messages' = Append(messages, d)
        BY <3>3 DEF Messages
      <4> HIDE DEF d
      <4>2. ToSet(messages') = ToSet(messages) \cup {d}
        BY <3>1, <4>1, AppendedSet
      <4> QED
        BY <3>3, <4>1, <4>2
    <3> QED
      BY <2>7, <3>2, <3>3
  <2> QED
    BY <1>b, <1>c, <2>1, <2>2, <2>6, <2>8
<1>6. CASE onTimerTicked
  <2>1. /\ requesterQueue # <<>> /\ requesterQueue' = Tail(requesterQueue)
        /\ UNCHANGED <<activeRequesters, onAboutClearData, messages, handlerQueue>>
    BY <1>6 DEF onTimerTicked, workerVars
  <2>2. requesterQueue \in Seq(Requesters)
    BY DEF DownloadTypeOK
  <2>3. ToSet(requesterQueue') \subseteq ToSet(requesterQueue)
    <3> DEFINE l == Len(requesterQueue)
    <3>1. /\ l \in Nat /\ DOMAIN requesterQueue = 1..l /\ DOMAIN requesterQueue' = 1..(l - 1)
          /\ \A i \in 1..(l - 1) : requesterQueue'[i] = requesterQueue[i + 1]
          /\ \A i \in 1..(l - 1) : i + 1 \in 1..l
      BY <2>1, <2>2
    <3> HIDE DEF l
    <3> QED
      BY <3>1 DEF ToSet
  <2> QED
    BY <1>b, <1>c, <2>1, <2>3
<1>7. CASE setPauseRange
  BY <1>7, <1>b, <1>c DEF setPauseRange, workerVars
<1>8. CASE UNCHANGED vars
  BY <1>8, <1>b, <1>c DEF vars, workerVars, waitVars
<1> QED
  BY <1>1, <1>2, <1>3, <1>4, <1>5, <1>6, <1>7, <1>8 DEF Next, Dispatcher

(* Nothing changes for the worker, and no request is multiplied.           *)
Carries ==
  /\ UNCHANGED <<activeRequesters, onAboutClearData, address, answered, clears>>
  /\ \A r \in Requesters : Moves(r)

(* What a step may be for the worker's requests.                           *)
LEMMA StepKinds ==
  ASSUME DownloadTypeOK, Bound, LoadedOnce, NothingTwice, Unused, DownloadTypeOK', Bound',
         [Next]_vars
  PROVE  \/ answered' = answered /\ \E x \in Requesters, a \in FreeAddresses : Asks(x, a)
         \/ answered' = answered /\ Worker /\ Orders
         \/ /\ extractMessage /\ address' = address /\ clears' = clears
            /\ (\E q \in Requesters : Answers(q)) \/ Delivers
         \/ ~Worker /\ ~extractMessage /\ Carries
<1>1. CASE Worker
  <2>1. answered' = answered
    BY <1>1 DEF Worker, start, performLoading, stop, clear
  <2> QED
    BY <1>1, <2>1, WorkerFlow
<1>2. CASE extractMessage
  <2>1. clears' = clears
    BY <1>2 DEF extractMessage
  <2> QED
    BY <1>2, <2>1, ExtractFlow
<1>3. CASE ~Worker /\ ~extractMessage
  <2>1. CASE timerEvent \/ setPauseRange \/ UNCHANGED vars
    <3>1. UNCHANGED <<messages, handlerQueue, requesterQueue, pendingRequesters, transfers,
                     activeIds, parentOf, activeRequesters, onAboutClearData, address,
                     answered, clears>>
      BY <2>1 DEF timerEvent, setPauseRange, vars, workerVars, waitVars, mapVars, curlVars
    <3> QED
      BY <1>3, <3>1, IdleMoves DEF Carries
  <2>2. CASE Curl \/ handleRequest \/ onTimerTicked
    <3>1. UNCHANGED <<activeRequesters, onAboutClearData, address, answered, clears>>
      BY <2>2 DEF Curl, socketFunctionCallback, doAction, timeoutAction, handleRequest,
                  onTimerTicked, workerVars
    <3> QED
      BY <1>3, <2>2, <3>1, CurlMoves, HandlerMoves, TickMoves DEF Carries
  <2> QED
    BY <1>3, <2>1, <2>2 DEF Next, Dispatcher
<1> QED
  BY <1>1, <1>2, <1>3

(* The inductive invariant. A place is counted once as signals are unique  *)
(* (LoadedOnce) and roots of redirect chains are first requests (Bound); a *)
(* requester that the worker makes is nowhere yet (Unused); and an address *)
(* means one living requester (Distinct).                                  *)
DownloadInv ==
  /\ DownloadTypeOK /\ LoadedOnce /\ Bound
  /\ NothingTwice /\ Unused /\ Distinct

(* The invariant holds at first.                                           *)
LEMMA DownloadInvInit ==
  ASSUME Init
  PROVE  DownloadInv
<1>1. DownloadTypeOK /\ loadedIds = {} /\ Live = {}
  BY DownloadInit
<1>2. DOMAIN handlerQueue = {} /\ DOMAIN transfers = {} /\ DOMAIN activeIds = {}
  BY DEF Init
<1>3. LoadedOnce /\ Bound
  BY <1>2 DEF LoadedOnce, Bound
<1>4. ASSUME NEW r PROVE Places(r) = 0
  <2>1. \A kind : Times(<<>>, kind) = 0
    <3>1. \A kind : \A i \in DOMAIN <<>> : <<>>[i] \notin kind
      OBVIOUS
    <3>2. <<>> \in Seq(Requesters)
      OBVIOUS
    <3> QED
      BY <3>1, <3>2, TimesFinite
  <2>2. Asked(r) = 0 /\ Called(r) = 0 /\ Delayed(r) = 0 /\ Pending(r) = 0
    BY <2>1 DEF Init, Asked, Called, Delayed, Pending
  <2>3. ownIds(r) = {}
    BY <1>1, <1>2 DEF ownIds
  <2>4. Loading(r) = 0
    BY <2>3, FS_EmptySet DEF Loading
  <2> QED
    BY <1>1, <1>3, <2>2, <2>4, PlacesNow
<1>5. NothingTwice /\ Unused
  BY <1>4 DEF Init, NothingTwice, Unused
<1>6. Distinct
  <2>1. \A r : ~Alive(r)
    BY DEF Init, Alive, ToSet
  <2> QED
    BY <2>1 DEF Distinct, LiveRequesters
<1> QED
  BY <1>1, <1>3, <1>5, <1>6 DEF DownloadInv

(* Every step keeps NothingTwice and Unused: a new requester is nowhere    *)
(* yet, and the answer that is taken was the one place of its request.     *)
LEMMA TwiceStep ==
  ASSUME DownloadInv, DownloadTypeOK', Bound', [Next]_vars
  PROVE  NothingTwice' /\ Unused'
<1>1. \/ answered' = answered /\ \E x \in Requesters, a \in FreeAddresses : Asks(x, a)
      \/ answered' = answered /\ Worker /\ Orders
      \/ /\ extractMessage /\ address' = address /\ clears' = clears
         /\ (\E q \in Requesters : Answers(q)) \/ Delivers
      \/ ~Worker /\ ~extractMessage /\ Carries
  BY StepKinds DEF DownloadInv
<1>2. ASSUME NEW r \in Requesters
      PROVE  /\ Places(r) \in Nat /\ Places(r)' \in Nat
             /\ r \in answered => Places(r) = 0
             /\ Places(r) <= 1
             /\ address[r] = None => Places(r) = 0
                                     /\ r \notin answered \cup activeRequesters \cup onAboutClearData
  <2>1. Places(r) \in Nat /\ Places(r)' \in Nat
    BY PlacesNow, PlacesNext DEF DownloadInv
  <2>2. Places(r) + (IF r \in answered THEN 1 ELSE 0) <= 1
    BY DEF DownloadInv, NothingTwice
  <2>3. address[r] = None => Places(r) = 0
                             /\ r \notin answered \cup activeRequesters \cup onAboutClearData
    BY DEF DownloadInv, Unused
  <2>4. Places(r) <= 1 /\ (r \in answered => Places(r) = 0)
    BY <2>1, <2>2
  <2> QED
    BY <2>1, <2>3, <2>4
<1>3. NothingTwice' <=> \A r \in Requesters : /\ r \in answered' => Places(r)' = 0
                                              /\ Places(r)' <= 1
  <2>1. ASSUME NEW r \in Requesters
        PROVE  Places(r)' + (IF r \in answered' THEN 1 ELSE 0) <= 1
                 <=> (r \in answered' => Places(r)' = 0) /\ Places(r)' <= 1
    BY <1>2
  <2> QED
    BY <2>1 DEF NothingTwice
<1>4. Unused' <=> \A r \in Requesters :
        address'[r] = None => Places(r)' = 0 /\ r \notin answered' \cup activeRequesters'
                                                            \cup onAboutClearData'
  BY DEF Unused
<1>5. ASSUME NEW x \in Requesters, NEW a \in FreeAddresses, Asks(x, a), answered' = answered
      PROVE  NothingTwice' /\ Unused'
  <2>1. a # None
    BY DownloadAssumption DEF FreeAddresses
  <2>2. ASSUME NEW r \in Requesters
        PROVE  /\ r \in answered' => Places(r)' = 0
               /\ Places(r)' <= 1
    <3>1. Places(r)' = Places(r) + (IF r = x THEN 1 ELSE 0) /\ address[x] = None
      BY <1>5 DEF Asks
    <3>2. CASE r = x
      BY <1>2, <1>5, <3>1, <3>2
    <3>3. CASE r # x
      BY <1>2, <1>5, <3>1, <3>3
    <3> QED
      BY <3>2, <3>3
  <2>3. ASSUME NEW r \in Requesters, address'[r] = None
        PROVE  Places(r)' = 0 /\ r \notin answered' \cup activeRequesters' \cup onAboutClearData'
    <3>1. address' = [address EXCEPT ![x] = a] /\ address \in [Requesters -> Addresses \cup {None}]
      BY <1>5 DEF Asks, DownloadInv, DownloadTypeOK
    <3>2. r # x /\ address[r] = None
      BY <2>1, <2>3, <3>1
    <3>3. Places(r)' = Places(r) + 0
      BY <1>5, <3>2 DEF Asks
    <3> QED
      BY <1>2, <1>5, <3>2, <3>3 DEF Asks
  <2> QED
    BY <1>3, <1>4, <2>2, <2>3
<1>6. CASE answered' = answered /\ Orders
  BY <1>2, <1>3, <1>4, <1>6 DEF Orders
<1>7. ASSUME NEW q \in Requesters, Answers(q), address' = address
      PROVE  NothingTwice' /\ Unused'
  <2>1. ASSUME NEW r \in Requesters
        PROVE  /\ (r = q => Places(r)' = 0 /\ Places(r) = 1) /\ (r # q => Places(r)' = Places(r))
    <3>1. Places(r)' = Places(r) - (IF r = q THEN 1 ELSE 0)
      BY <1>7 DEF Answers
    <3>2. Places(r) \in Nat /\ Places(r)' \in Nat /\ Places(r) <= 1
      BY <1>2
    <3> QED
      BY <3>1, <3>2
  <2>2. answered' = answered \cup {q} /\ activeRequesters' \subseteq activeRequesters
        /\ onAboutClearData' = onAboutClearData
    BY <1>7 DEF Answers
  <2>3. ASSUME NEW r \in Requesters
        PROVE  /\ r \in answered' => Places(r)' = 0
               /\ Places(r)' <= 1
    <3>1. CASE r = q
      BY <2>1, <3>1
    <3>2. CASE r # q
      BY <1>2, <2>1, <2>2, <3>2
    <3> QED
      BY <3>1, <3>2
  <2>4. ASSUME NEW r \in Requesters, address'[r] = None
        PROVE  Places(r)' = 0 /\ r \notin answered' \cup activeRequesters' \cup onAboutClearData'
    <3>1. Places(r) = 0 /\ r \notin answered \cup activeRequesters \cup onAboutClearData
      BY <1>2, <1>7, <2>4
    <3>2. r # q
      BY <2>1, <3>1
    <3> QED
      BY <2>1, <2>2, <3>1, <3>2
  <2> QED
    BY <1>3, <1>4, <2>3, <2>4
<1>8. CASE Delivers /\ address' = address
  BY <1>2, <1>3, <1>4, <1>8 DEF Delivers
<1>9. CASE Carries
  <2>1. UNCHANGED <<activeRequesters, onAboutClearData, address, answered>>
    BY <1>9 DEF Carries
  <2>2. \A r \in Requesters : Places(r)' <= Places(r)
    BY <1>9 DEF Carries, Moves
  <2>3. \A r \in Requesters : /\ r \in answered' => Places(r)' = 0
                              /\ Places(r)' <= 1
    BY <1>2, <2>1, <2>2
  <2>4. \A r \in Requesters :
        address'[r] = None => Places(r)' = 0 /\ r \notin answered' \cup activeRequesters'
                                                            \cup onAboutClearData'
    BY <1>2, <2>1, <2>2
  <2> QED
    BY <1>3, <1>4, <2>3, <2>4
<1> QED
  BY <1>1, <1>5, <1>6, <1>7, <1>8, <1>9

(* Every step keeps Distinct: a new requester is put at a free address,    *)
(* and nobody dead comes alive.                                            *)
LEMMA DistinctStep ==
  ASSUME DownloadInv, DownloadTypeOK', Bound', [Next]_vars
  PROVE  Distinct'
<1>1. \A r \in Requesters : Alive(r)' => Alive(r) \/ \E a \in FreeAddresses : Asks(r, a)
  BY AliveStep DEF DownloadInv
<1>2. LiveRequesters' = {r \in Requesters : Alive(r)'}
  BY DEF LiveRequesters
<1>3. Distinct' <=> \A q, r \in LiveRequesters' : address'[q] = address'[r] => q = r
  BY DEF Distinct
<1>4. \A q, r \in Requesters : Alive(q) /\ Alive(r) /\ address[q] = address[r] => q = r
  BY DEF DownloadInv, Distinct, LiveRequesters
<1>5. ASSUME NEW x \in Requesters, NEW a \in FreeAddresses, Asks(x, a)
      PROVE  Distinct'
  <2>1. address' = [address EXCEPT ![x] = a] /\ address \in [Requesters -> Addresses \cup {None}]
        /\ address[x] = None
    BY <1>5 DEF Asks, DownloadInv, DownloadTypeOK
  <2>2. \A r \in Requesters : Alive(r) => address[r] # a
    BY DEF FreeAddresses, LiveRequesters
  <2>3. ASSUME NEW r \in Requesters, Alive(r)', r # x PROVE Alive(r) /\ address'[r] = address[r]
    <3>1. Alive(r) \/ \E b \in FreeAddresses : Asks(r, b)
      BY <1>1, <2>3
    <3>2. ASSUME NEW b \in FreeAddresses, Asks(r, b) PROVE FALSE
      <4>1. address'[r] = b /\ address[r] = None
        BY <2>1, <3>2 DEF Asks
      <4>2. address'[r] = address[r]
        BY <2>1, <2>3
      <4>3. b # None
        BY DownloadAssumption DEF FreeAddresses
      <4> QED
        BY <4>1, <4>2, <4>3
    <3> QED
      BY <2>1, <2>3, <3>1, <3>2
  <2>4. ASSUME NEW q \in Requesters, NEW r \in Requesters, Alive(q)', Alive(r)',
               address'[q] = address'[r], q # r
        PROVE  FALSE
    <3>1. address'[x] = a
      BY <2>1
    <3>2. CASE q = x
      BY <2>2, <2>3, <2>4, <3>1, <3>2
    <3>3. CASE r = x
      BY <2>2, <2>3, <2>4, <3>1, <3>3
    <3>4. CASE q # x /\ r # x
      BY <1>4, <2>3, <2>4, <3>4
    <3> QED
      BY <3>2, <3>3, <3>4
  <2> QED
    BY <1>2, <1>3, <2>4
<1>6. CASE ~\E x \in Requesters, a \in FreeAddresses : Asks(x, a)
  <2>1. address' = address
    BY <1>6, StepKinds DEF DownloadInv, Orders, Carries
  <2> QED
    BY <1>1, <1>2, <1>3, <1>4, <1>6, <2>1
<1> QED
  BY <1>5, <1>6

(* Every step keeps the invariant.                                         *)
LEMMA DownloadInvStep ==
  ASSUME DownloadInv, [Next]_vars
  PROVE  DownloadInv'
<1>1. DownloadTypeOK' /\ Bound' /\ LoadedOnce'
  BY DownloadTyping, BoundStep, OnceStep DEF DownloadInv
<1> QED
  BY <1>1, TwiceStep, DistinctStep DEF DownloadInv

(* The invariant holds in every state.                                     *)
LEMMA DownloadInvHolds == Spec => []DownloadInv
<1>1. Init => DownloadInv
  BY DownloadInvInit
<1>2. DownloadInv /\ [Next]_vars => DownloadInv'
  BY DownloadInvStep
<1> QED
  BY <1>1, <1>2, PTL DEF Spec

(* DownloadTypeOK holds in every state: ids are never used before they are *)
(* given, redirects point back to earlier requests, and libcurl's count is *)
(* within what was ever requested.                                         *)
THEOREM DownloadTypeCorrect == Spec => []DownloadTypeOK
<1>1. DownloadInv => DownloadTypeOK
  BY DEF DownloadInv
<1> QED
  BY <1>1, DownloadInvHolds, PTL

(* NothingTwice: a page is on its way at most once, and not at all once it *)
(* was answered, whatever is paused, redirected, cleared or reset.         *)
THEOREM DownloadsOnce == Spec => []NothingTwice
<1>1. DownloadInv => NothingTwice
  BY DEF DownloadInv
<1> QED
  BY <1>1, DownloadInvHolds, PTL

(***************************************************************************)
(* NothingLost: the handler resets whom the worker has let go of. There is *)
(* one reset, or the message that it is done, for each clear that is not   *)
(* settled, and with one clear what it asks for is in onAboutClearData     *)
(* until it is done.                                                       *)
(***************************************************************************)

(* The messages of a reset that is not settled yet.                        *)
ResetKind == {m \in Messages : m.type \in {"reset", "resetDone"}}
Resets(q) == Times(q, ResetKind)

(* What the resets on their way ask for.                                   *)
Resetting == {m \in ToSet(messages) \cup ToSet(handlerQueue) : m.type = "reset"}

(* With one clear: whom the resets on their way name, the worker has let   *)
(* go of, and what it waits for is in one place.                           *)
LetGo ==
  /\ Resets(messages) + Resets(handlerQueue) <= clears
  /\ \A m \in Resetting : m.requesters \subseteq {address[r] : r \in onAboutClearData}
  /\ activeRequesters \cap onAboutClearData = {}
  /\ \A r \in activeRequesters : Places(r) = 1

ClearInv == clears <= 1 => LetGo

(* Where no reset is counted, none is.                                     *)
LEMMA ResetsCounted ==
  ASSUME NEW q, q \in Seq(Messages) \/ q \in Seq(Events)
  PROVE  /\ Resets(q) \in Nat
         /\ Resets(q) = 0 => \A m \in ToSet(q) : m.type # "reset"
<1>1. /\ Resets(q) \in Nat
      /\ Resets(q) = 0 => \A i \in DOMAIN q : q[i] \notin ResetKind
  BY TimesFinite DEF Resets
<1>2. ASSUME NEW m \in ToSet(q), m.type = "reset" PROVE m \in ResetKind
  <2>1. m \in Messages \/ m \in Events
    BY DEF ToSet
  <2>2. m \in Messages
    BY <1>2, <2>1 DEF Events
  <2> QED
    BY <1>2, <2>2 DEF ResetKind
<1>3. ASSUME Resets(q) = 0, NEW m \in ToSet(q) PROVE m.type # "reset"
  BY <1>1, <1>2, <1>3 DEF ToSet
<1> QED
  BY <1>1, <1>3

(* The same for the two queues, before a step and after it.                *)
LEMMA ResetsNow ==
  ASSUME DownloadTypeOK
  PROVE  /\ Resets(messages) \in Nat /\ Resets(handlerQueue) \in Nat
         /\ Resets(messages) + Resets(handlerQueue) = 0 => Resetting = {}
<1>1. messages \in Seq(Messages) /\ handlerQueue \in Seq(Events)
  BY DEF DownloadTypeOK
<1>2. Resets(messages) \in Nat /\ Resets(handlerQueue) \in Nat
  BY <1>1, ResetsCounted
<1>3. ASSUME Resets(messages) + Resets(handlerQueue) = 0 PROVE Resetting = {}
  <2>1. Resets(messages) = 0 /\ Resets(handlerQueue) = 0
    BY <1>2, <1>3
  <2> QED
    BY <1>1, <2>1, ResetsCounted DEF Resetting
<1> QED
  BY <1>2, <1>3

(* The same after a step.                                                  *)
LEMMA ResetsNext ==
  ASSUME DownloadTypeOK'
  PROVE  /\ Resets(messages') \in Nat /\ Resets(handlerQueue') \in Nat
         /\ Resets(messages') + Resets(handlerQueue') = 0 => Resetting' = {}
<1>1. messages' \in Seq(Messages) /\ handlerQueue' \in Seq(Events)
  BY DEF DownloadTypeOK
<1>2. Resets(messages') \in Nat /\ Resets(handlerQueue') \in Nat
  BY <1>1, ResetsCounted
<1>3. ASSUME Resets(messages') + Resets(handlerQueue') = 0 PROVE Resetting' = {}
  <2>1. Resets(messages') = 0 /\ Resets(handlerQueue') = 0
    BY <1>2, <1>3
  <2>2. Resetting' = {m \in ToSet(messages') \cup ToSet(handlerQueue') : m.type = "reset"}
    BY DEF Resetting
  <2> QED
    BY <1>1, <2>1, <2>2, ResetsCounted
<1> QED
  BY <1>2, <1>3

(* A message that is posted counts when it is a reset.                     *)
LEMMA PostedResets ==
  ASSUME NEW q \in Seq(Messages), NEW m \in Messages
  PROVE  /\ Append(q, m) \in Seq(Messages) /\ Times(q, ResetKind) \in Nat
         /\ ToSet(Append(q, m)) = ToSet(q) \cup {m}
         /\ m.type \in {"reset", "resetDone"} =>
              Times(Append(q, m), ResetKind) = Times(q, ResetKind) + 1
         /\ m.type \notin {"reset", "resetDone"} =>
              Times(Append(q, m), ResetKind) = Times(q, ResetKind)
<1>1. /\ Append(q, m) \in Seq(Messages) /\ Times(q, ResetKind) \in Nat
      /\ Times(Append(q, m), ResetKind) = Times(q, ResetKind) + (IF m \in ResetKind THEN 1 ELSE 0)
  BY TimesAppend
<1>2. m \in ResetKind <=> m.type \in {"reset", "resetDone"}
  BY DEF ResetKind
<1>3. ToSet(Append(q, m)) = ToSet(q) \cup {m}
  BY AppendedSet
<1> QED
  BY <1>1, <1>2, <1>3

(* What a step does to the resets on their way: a clear adds one, and the  *)
(* message that it is done takes it away.                                  *)
Settles == /\ Resets(messages') + Resets(handlerQueue')
                = (Resets(messages) + Resets(handlerQueue)) - 1
           /\ Resetting' \subseteq Resetting
Keeps == /\ Resets(messages') + Resets(handlerQueue')
              = Resets(messages) + Resets(handlerQueue)
         /\ Resetting' \subseteq Resetting
         /\ onAboutClearData' = onAboutClearData

(* The worker posts a reset when it clears, and at no other time.          *)
LEMMA WorkerResets ==
  ASSUME DownloadTypeOK, Unused, Worker
  PROVE  \/ Keeps /\ clears' = clears
         \/ /\ clear
            /\ Resets(messages') + Resets(handlerQueue')
                 = Resets(messages) + Resets(handlerQueue) + 1
            /\ \A m \in Resetting' : m \in Resetting \/ m.requesters = keys
<1> DEFINE post(t) == [type |-> t, requesters |-> keys]
           ask(r) == [type |-> "download", requester |-> r]
<1>1. keys \subseteq Addresses /\ messages \in Seq(Messages) /\ handlerQueue' = handlerQueue
  BY TypeParts, KeysTyped DEF DownloadTypeOK, Worker, start, performLoading, stop, clear
<1>2. /\ \A t \in {"pause", "unpause", "reset"} :
           post(t) \in Messages /\ post(t).type = t /\ post(t).requesters = keys
      /\ \A r \in Requesters : ask(r) \in Messages /\ ask(r).type = "download"
  BY <1>1 DEF Messages
<1>3. /\ \/ clear
         \/ clears' = clears /\ onAboutClearData' = onAboutClearData
      /\ \/ \E t \in {"pause", "unpause"} : messages' = Append(messages, post(t))
         \/ \E r \in Requesters : messages' = Append(messages, ask(r))
         \/ \E r \in Requesters : messages' = Append(Append(messages, post("unpause")), ask(r))
         \/ clear /\ messages' = Append(messages, post("reset"))
  BY DEF Worker, start, performLoading, stop, clear, performLoadingAfter,
         unpauseAllPausedDownloads, pauseAllActiveDownloads
<1> HIDE DEF post, ask
<1>4. /\ Resets(handlerQueue') = Resets(handlerQueue) /\ Resets(handlerQueue) \in Nat
      /\ Resets(messages) = Times(messages, ResetKind)
      /\ Resets(messages') = Times(messages', ResetKind) /\ Resets(messages) \in Nat
      /\ Resetting = {m \in ToSet(messages) \cup ToSet(handlerQueue) : m.type = "reset"}
      /\ Resetting' = {m \in ToSet(messages') \cup ToSet(handlerQueue) : m.type = "reset"}
  BY <1>1, ResetsNow DEF Resets, ResetKind, Resetting
<1>5. ASSUME NEW q \in Seq(Messages), NEW m \in Messages, m.type \notin {"reset", "resetDone"}
      PROVE  /\ Append(q, m) \in Seq(Messages) /\ ToSet(Append(q, m)) = ToSet(q) \cup {m}
             /\ Times(Append(q, m), ResetKind) = Times(q, ResetKind)
  BY <1>5, PostedResets
<1>6. ASSUME messages' \in Seq(Messages), Resets(messages') = Resets(messages),
             \A m \in ToSet(messages') : m \in ToSet(messages) \/ m.type # "reset",
             ~clear
      PROVE  Keeps /\ clears' = clears
  <2>1. Resetting' \subseteq Resetting
    BY <1>4, <1>6
  <2>2. clears' = clears /\ onAboutClearData' = onAboutClearData
    BY <1>3, <1>6
  <2>3. Resets(messages') + Resets(handlerQueue') = Resets(messages) + Resets(handlerQueue)
    BY <1>4, <1>6
  <2> QED
    BY <2>1, <2>2, <2>3 DEF Keeps
<1>7. ASSUME NEW m \in Messages, m.type \notin {"reset", "resetDone"},
             messages' = Append(messages, m), ~clear
      PROVE  Keeps /\ clears' = clears
  BY <1>1, <1>4, <1>5, <1>6, <1>7
<1>8. ASSUME NEW r \in Requesters, ~clear,
             messages' = Append(Append(messages, post("unpause")), ask(r))
      PROVE  Keeps /\ clears' = clears
  <2> DEFINE q == Append(messages, post("unpause"))
  <2>1. /\ q \in Seq(Messages) /\ ToSet(q) = ToSet(messages) \cup {post("unpause")}
        /\ Times(q, ResetKind) = Times(messages, ResetKind)
    BY <1>1, <1>2, <1>5
  <2>2. messages' = Append(q, ask(r))
    BY <1>8
  <2> HIDE DEF q
  <2>3. /\ messages' \in Seq(Messages) /\ ToSet(messages') = ToSet(q) \cup {ask(r)}
        /\ Times(messages', ResetKind) = Times(q, ResetKind)
    BY <1>2, <1>5, <2>1, <2>2
  <2>4. \A m \in ToSet(messages') : m \in ToSet(messages) \/ m.type # "reset"
    BY <1>2, <2>1, <2>3
  <2> QED
    BY <1>4, <1>6, <1>8, <2>1, <2>3, <2>4
<1>9. CASE clear
  <2>1. messages' = Append(messages, post("reset"))
    BY <1>9 DEF clear, post
  <2>2. /\ ToSet(messages') = ToSet(messages) \cup {post("reset")}
        /\ Times(messages', ResetKind) = Times(messages, ResetKind) + 1
    BY <1>1, <1>2, <2>1, PostedResets
  <2>3. \A m \in Resetting' : m \in Resetting \/ m.requesters = keys
    BY <1>2, <1>4, <2>2
  <2>4. Resets(messages') + Resets(handlerQueue') = Resets(messages) + Resets(handlerQueue) + 1
    BY <1>4, <2>2
  <2> QED
    BY <1>9, <2>3, <2>4
<1>10. CASE ~clear
  <2>1. CASE \E t \in {"pause", "unpause"} : messages' = Append(messages, post(t))
    BY <1>2, <1>7, <1>10, <2>1
  <2>2. CASE \E r \in Requesters : messages' = Append(messages, ask(r))
    BY <1>2, <1>7, <1>10, <2>2
  <2> QED
    BY <1>3, <1>8, <1>10, <2>1, <2>2
<1> QED
  BY <1>9, <1>10

(* The dispatcher moves a reset to the handler, and settles one that is    *)
(* done.                                                                   *)
LEMMA ExtractResets ==
  ASSUME DownloadTypeOK, DownloadTypeOK', extractMessage
  PROVE  Keeps \/ Settles
<1> DEFINE m == Last(messages)
           q == Front(messages)
<1>1. messages \in Seq(Messages) /\ messages # <<>> /\ handlerQueue \in Seq(Events)
      /\ messages' = q
  BY DEF DownloadTypeOK, extractMessage
<1>2. \/ /\ m.type = "answer" /\ UNCHANGED <<onAboutClearData, handlerQueue>>
      \/ m.type = "resetDone" /\ handlerQueue' = handlerQueue
      \/ /\ m.type \notin {"answer", "resetDone"} /\ onAboutClearData' = onAboutClearData
         /\ handlerQueue' = Append(handlerQueue, m)
  BY DEF extractMessage
<1>3. m \in Messages /\ ToSet(messages) = ToSet(q) \cup {m}
  BY <1>1, FrontSet
<1>4. m \in ResetKind <=> m.type \in {"reset", "resetDone"}
  BY <1>3 DEF ResetKind
<1>5. Times(messages, ResetKind) = Times(q, ResetKind) + (IF m \in ResetKind THEN 1 ELSE 0)
  BY <1>1, TimesFront
<1> HIDE DEF m, q
<1>6. /\ m \in ResetKind => Resets(messages) = Resets(messages') + 1
      /\ m \notin ResetKind => Resets(messages) = Resets(messages')
      /\ Resets(messages) \in Nat /\ Resets(messages') \in Nat
      /\ Resets(handlerQueue) \in Nat /\ Resets(handlerQueue') \in Nat
  BY <1>1, <1>5, ResetsNow, ResetsNext DEF Resets, ResetKind
<1>7. /\ Resetting = {e \in ToSet(messages) \cup ToSet(handlerQueue) : e.type = "reset"}
      /\ Resetting' = {e \in ToSet(messages') \cup ToSet(handlerQueue') : e.type = "reset"}
  BY DEF Resetting
<1>8. CASE handlerQueue' = handlerQueue /\ m.type \in {"answer", "resetDone"}
  <2>1. Resets(handlerQueue') = Resets(handlerQueue)
    BY <1>8 DEF Resets
  <2>2. Resetting' \subseteq Resetting
    BY <1>1, <1>3, <1>7, <1>8
  <2>3. CASE m.type = "answer" /\ onAboutClearData' = onAboutClearData
    BY <1>4, <1>6, <2>1, <2>2, <2>3 DEF Keeps
  <2>4. CASE m.type = "resetDone"
    BY <1>4, <1>6, <2>1, <2>2, <2>4 DEF Settles
  <2> QED
    BY <1>2, <1>8, <2>3, <2>4
<1>9. CASE /\ m.type \notin {"answer", "resetDone"} /\ onAboutClearData' = onAboutClearData
           /\ handlerQueue' = Append(handlerQueue, m)
  <2>1. m \in Events
    BY <1>3, <1>9 DEF Events
  <2>2. /\ Times(Append(handlerQueue, m), ResetKind)
             = Times(handlerQueue, ResetKind) + (IF m \in ResetKind THEN 1 ELSE 0)
        /\ ToSet(Append(handlerQueue, m)) = ToSet(handlerQueue) \cup {m}
    BY <1>1, <2>1, TimesAppend, AppendedSet
  <2>3. /\ m \in ResetKind => Resets(handlerQueue') = Resets(handlerQueue) + 1
        /\ m \notin ResetKind => Resets(handlerQueue') = Resets(handlerQueue)
    BY <1>6, <1>9, <2>2 DEF Resets, ResetKind
  <2>4. Resetting' \subseteq Resetting
    BY <1>1, <1>3, <1>7, <1>9, <2>2
  <2> QED
    BY <1>6, <1>9, <2>3, <2>4 DEF Keeps
<1> QED
  BY <1>2, <1>8, <1>9

(* The handler answers a reset with the message that it is done.           *)
LEMMA HandlerResets ==
  ASSUME DownloadTypeOK, DownloadTypeOK', handleRequest
  PROVE  Keeps
<1> DEFINE e == Head(handlerQueue)
           d == [type |-> "resetDone", requesters |-> {}]
           answer(r) == [type |-> "answer", requester |-> r]
<1>1. /\ handlerQueue # <<>> /\ handlerQueue' = Tail(handlerQueue)
      /\ onAboutClearData' = onAboutClearData
      /\ messages \in Seq(Messages) /\ handlerQueue \in Seq(Events)
  BY DEF handleRequest, workerVars, DownloadTypeOK
<1>2. \/ e.type = "reset" /\ messages' = Append(messages, d)
      \/ e.type # "reset" /\ messages' = messages
      \/ e.type # "reset" /\ \E r \in Requesters : messages' = Append(messages, answer(r))
  BY DEF handleRequest, handleDownload, pauseRequesters, unpauseRequesters, resetRequesters,
         onUrlLoaded, followLocation, followLocation, requesterById
<1>3. e \in Events /\ ToSet(handlerQueue) = ToSet(handlerQueue') \cup {e}
  BY <1>1, Taken
<1>4. /\ Resets(messages) \in Nat /\ Resets(handlerQueue) \in Nat
      /\ Resets(messages') \in Nat /\ Resets(handlerQueue') \in Nat
  BY ResetsNow, ResetsNext
<1>5. Times(handlerQueue, ResetKind)
        = Times(Tail(handlerQueue), ResetKind) + (IF e \in ResetKind THEN 1 ELSE 0)
  BY <1>1, TimesTail
<1>6. /\ d \in Messages /\ d.type = "resetDone"
      /\ \A r \in Requesters : answer(r) \in Messages /\ answer(r).type = "answer"
  BY DEF Messages
<1> HIDE DEF e, d, answer
<1>7. e \in ResetKind <=> e.type = "reset"
  BY <1>3 DEF ResetKind, Events
<1>8. /\ e.type = "reset" => Resets(handlerQueue) = Resets(handlerQueue') + 1
      /\ e.type # "reset" => Resets(handlerQueue) = Resets(handlerQueue')
  BY <1>1, <1>4, <1>5, <1>7 DEF Resets
<1>9. /\ e.type = "reset" => Resets(messages') = Resets(messages) + 1
      /\ e.type # "reset" => Resets(messages') = Resets(messages)
      /\ \A m \in ToSet(messages') : m \in ToSet(messages) \/ m.type # "reset"
  <2>1. CASE e.type = "reset" /\ messages' = Append(messages, d)
    BY <1>1, <1>6, <2>1, PostedResets DEF Resets
  <2>2. CASE e.type # "reset" /\ messages' = messages
    BY <2>2
  <2>3. CASE e.type # "reset" /\ \E r \in Requesters : messages' = Append(messages, answer(r))
    BY <1>1, <1>6, <2>3, PostedResets DEF Resets
  <2> QED
    BY <1>2, <2>1, <2>2, <2>3
<1>10. Resetting' \subseteq Resetting
  <2>1. Resetting' = {m \in ToSet(messages') \cup ToSet(handlerQueue') : m.type = "reset"}
    BY DEF Resetting
  <2> QED
    BY <1>3, <1>9, <2>1 DEF Resetting
<1>11. Resets(messages') + Resets(handlerQueue') = Resets(messages) + Resets(handlerQueue)
  BY <1>4, <1>8, <1>9
<1> QED
  BY <1>1, <1>10, <1>11 DEF Keeps

(* No other step touches a reset.                                          *)
LEMMA OtherResets ==
  ASSUME DownloadTypeOK, messages' = messages, onAboutClearData' = onAboutClearData,
         \/ handlerQueue' = handlerQueue
         \/ \E done \in SUBSET DOMAIN transfers : emitLoaded(done)
  PROVE  Keeps
<1>1. \A e \in ResetKind : e.type # "loaded"
  BY DEF ResetKind
<1>2. /\ Times(handlerQueue', ResetKind) = Times(handlerQueue, ResetKind)
      /\ \A e \in ToSet(handlerQueue') : e.type # "loaded" => e \in ToSet(handlerQueue)
  <2>1. CASE handlerQueue' = handlerQueue
    BY <2>1
  <2>2. ASSUME NEW done \in SUBSET DOMAIN transfers, emitLoaded(done)
        PROVE  /\ Times(handlerQueue', ResetKind) = Times(handlerQueue, ResetKind)
               /\ \A e \in ToSet(handlerQueue') : e.type # "loaded" => e \in ToSet(handlerQueue)
    BY <1>1, <2>2, Emitted
  <2> QED
    BY <2>1, <2>2
<1>3. Resets(messages') + Resets(handlerQueue') = Resets(messages) + Resets(handlerQueue)
  BY <1>2 DEF Resets
<1>4. Resetting' = {m \in ToSet(messages) \cup ToSet(handlerQueue') : m.type = "reset"}
  BY DEF Resetting
<1>5. Resetting' \subseteq Resetting
  BY <1>2, <1>4 DEF Resetting
<1> QED
  BY <1>3, <1>5 DEF Keeps

(* The resets on their way, at every step.                                 *)
LEMMA ResetsStep ==
  ASSUME DownloadTypeOK, DownloadTypeOK', Unused, [Next]_vars
  PROVE  \/ /\ clear
            /\ Resets(messages') + Resets(handlerQueue')
                 = Resets(messages) + Resets(handlerQueue) + 1
            /\ \A m \in Resetting' : m \in Resetting \/ m.requesters = keys
         \/ clears' = clears /\ (Keeps \/ Settles)
<1>1. CASE Worker
  BY <1>1, WorkerResets
<1>2. CASE extractMessage
  BY <1>2, ExtractResets DEF extractMessage
<1>3. CASE handleRequest
  BY <1>3, HandlerResets DEF handleRequest, workerVars
<1>4. CASE timerEvent \/ setPauseRange \/ onTimerTicked \/ Curl \/ UNCHANGED vars
  <2>1. /\ UNCHANGED <<messages, onAboutClearData, clears>>
        /\ \/ handlerQueue' = handlerQueue
           \/ \E done \in SUBSET DOMAIN transfers : emitLoaded(done)
    BY <1>4 DEF timerEvent, setPauseRange, onTimerTicked, Curl, socketFunctionCallback, doAction,
                timeoutAction, vars, workerVars
  <2> QED
    BY <2>1, OtherResets
<1> QED
  BY <1>1, <1>2, <1>3, <1>4 DEF Next, Dispatcher

(* Who is let go of is not waited for, so a reset meets nobody who is.     *)
LEMMA Spared ==
  ASSUME DownloadInv, LetGo, NEW r \in activeRequesters
  PROVE  Alive(r) /\ ~ResetNow(r)
<1>1. /\ Alive(r) /\ r \in Requesters /\ onAboutClearData \subseteq Requesters
      /\ handlerQueue \in Seq(Events)
  BY DEF Alive, DownloadInv, DownloadTypeOK
<1>2. ASSUME ResetNow(r) PROVE FALSE
  <2>1. /\ Head(handlerQueue) \in ToSet(handlerQueue) /\ Head(handlerQueue).type = "reset"
        /\ address[r] \in Head(handlerQueue).requesters
    BY <1>1, <1>2 DEF ResetNow, ToSet
  <2>2. PICK q \in onAboutClearData : address[q] = address[r]
    BY <2>1 DEF LetGo, Resetting
  <2>3. Alive(q)
    BY DEF Alive
  <2>4. q = r
    BY <1>1, <2>2, <2>3 DEF DownloadInv, Distinct, LiveRequesters
  <2> QED
    BY <2>4 DEF LetGo
<1> QED
  BY <1>1, <1>2

(* Every step keeps ClearInv. The first clear finds no reset on its way;   *)
(* when its reset is done none is left, so that forgetting whom it was     *)
(* about is safe; and what is waited for is not reset.                     *)
LEMMA ClearInvStep ==
  ASSUME DownloadInv, ClearInv, DownloadInv', [Next]_vars
  PROVE  ClearInv'
<1> DEFINE now == Resets(messages) + Resets(handlerQueue)
           next == Resets(messages') + Resets(handlerQueue')
<1>1. /\ DownloadTypeOK /\ DownloadTypeOK' /\ Bound /\ Bound' /\ Unused
      /\ clears \in Nat /\ clears' \in Nat
  <2>1. clears \in 0..MaxClears /\ clears' \in 0..MaxClears /\ MaxClears \in Nat
    BY DownloadAssumption DEF DownloadInv, DownloadTypeOK
  <2>2. clears \in Nat /\ clears' \in Nat
    BY <2>1
  <2> QED
    BY <2>2 DEF DownloadInv
<1>2. /\ now \in Nat /\ next \in Nat /\ (now = 0 => Resetting = {}) /\ (next = 0 => Resetting' = {})
  BY <1>1, ResetsNow, ResetsNext
<1>3. \/ /\ clear /\ next = now + 1
         /\ \A m \in Resetting' : m \in Resetting \/ m.requesters = keys
      \/ clears' = clears /\ (Keeps \/ Settles)
  BY <1>1, ResetsStep
<1>4. /\ Keeps => next = now /\ Resetting' \subseteq Resetting /\ onAboutClearData' = onAboutClearData
      /\ Settles => next = now - 1 /\ Resetting' \subseteq Resetting
  <2>1. ASSUME Keeps
        PROVE  next = now /\ Resetting' \subseteq Resetting /\ onAboutClearData' = onAboutClearData
    BY <2>1 DEF Keeps
  <2>2. ASSUME Settles PROVE next = now - 1 /\ Resetting' \subseteq Resetting
    BY <2>2 DEF Settles
  <2> QED
    BY <2>1, <2>2
<1>5. ClearInv' <=> (clears' <= 1 =>
        /\ next <= clears'
        /\ \A m \in Resetting' : m.requesters \subseteq {address'[r] : r \in onAboutClearData'}
        /\ activeRequesters' \cap onAboutClearData' = {}
        /\ \A r \in activeRequesters' : Places(r)' = 1)
  BY DEF ClearInv, LetGo, Resets, ResetKind
<1> SUFFICES ASSUME clears' <= 1
             PROVE  /\ next <= clears'
                    /\ \A m \in Resetting' :
                         m.requesters \subseteq {address'[r] : r \in onAboutClearData'}
                    /\ activeRequesters' \cap onAboutClearData' = {}
                    /\ \A r \in activeRequesters' : Places(r)' = 1
  BY <1>5
<1> HIDE DEF now, next
<1>6. clears <= 1 => /\ now <= clears /\ LetGo
  BY DEF ClearInv, LetGo, now
<1>7. CASE clear
  <2>1. /\ clears' = clears + 1 /\ address' = address
        /\ onAboutClearData' = activeRequesters /\ activeRequesters' = {}
    BY <1>7 DEF clear
  <2>2. clears = 0 /\ now = 0 /\ next = 1
    BY <1>1, <1>2, <1>3, <1>6, <1>7, <2>1
  <2>3. \A m \in Resetting' : m.requesters = keys
    BY <1>1, <1>2, <1>3, <2>1, <2>2
  <2>4. keys = {address'[r] : r \in onAboutClearData'}
    BY <2>1 DEF keys
  <2> QED
    BY <2>1, <2>2, <2>3, <2>4
<1>8. CASE clears' = clears /\ (Keeps \/ Settles)
  <2>a. LetGo /\ now <= clears /\ clears <= 1 /\ clears' = clears
    BY <1>6, <1>8
  <2>c. ASSUME Settles PROVE next = 0 /\ next <= clears'
    <3>1. next = now - 1
      BY <1>4, <2>c
    <3> QED
      BY <1>1, <1>2, <2>a, <3>1
  <2>1. LetGo /\ next <= clears'
    <3>1. CASE Keeps
      BY <1>4, <2>a, <3>1
    <3>2. CASE Settles
      BY <2>a, <2>c, <3>2
    <3> QED
      BY <1>8, <3>1, <3>2
  <2>2. \/ onAboutClearData' = onAboutClearData
        \/ next = 0
    BY <1>4, <1>8, <2>c
  <2>3. \/ \E x \in Requesters, a \in FreeAddresses : Asks(x, a)
        \/ Worker /\ Orders
        \/ address' = address /\ \E q \in Requesters : Answers(q)
        \/ address' = address /\ Delivers
        \/ ~Worker /\ Carries
    BY <1>1, StepKinds DEF DownloadInv
  <2>4. Resetting' \subseteq Resetting
    BY <1>4, <1>8
  <2>5. ASSUME onAboutClearData' \subseteq onAboutClearData,
               \A r \in onAboutClearData : address'[r] = address[r]
        PROVE  \A m \in Resetting' :
                 m.requesters \subseteq {address'[r] : r \in onAboutClearData'}
    <3>1. CASE onAboutClearData' = onAboutClearData
      <4>1. {address'[r] : r \in onAboutClearData'} = {address[r] : r \in onAboutClearData}
        BY <2>5, <3>1
      <4>2. \A m \in Resetting : m.requesters \subseteq {address[r] : r \in onAboutClearData}
        BY <2>1 DEF LetGo
      <4> QED
        BY <2>4, <4>1, <4>2
    <3>2. CASE next = 0
      BY <1>2, <3>2
    <3> QED
      BY <2>2, <3>1, <3>2
  <2>6. /\ activeRequesters \subseteq Requesters /\ onAboutClearData \subseteq Requesters
        /\ activeRequesters \cap onAboutClearData = {}
        /\ \A r \in activeRequesters : Places(r) = 1
        /\ \A r \in Requesters : address[r] = None =>
             Places(r) = 0 /\ r \notin activeRequesters \cup onAboutClearData
    BY <1>1, <2>1 DEF LetGo, Unused, DownloadTypeOK
  <2>7. ASSUME NEW x \in Requesters, NEW a \in FreeAddresses, Asks(x, a)
        PROVE  /\ \A m \in Resetting' :
                    m.requesters \subseteq {address'[r] : r \in onAboutClearData'}
               /\ activeRequesters' \cap onAboutClearData' = {}
               /\ \A r \in activeRequesters' : Places(r)' = 1
    <3>1. /\ address[x] = None /\ address' = [address EXCEPT ![x] = a]
          /\ activeRequesters' = activeRequesters \cup {x}
          /\ onAboutClearData' = onAboutClearData
          /\ \A r \in Requesters : Places(r)' = Places(r) + (IF r = x THEN 1 ELSE 0)
      BY <2>7 DEF Asks
    <3>2. x \notin activeRequesters /\ x \notin onAboutClearData /\ Places(x) = 0
      BY <2>6, <3>1
    <3>3. \A r \in onAboutClearData : address'[r] = address[r]
      BY <1>1, <2>6, <3>1, <3>2 DEF DownloadTypeOK
    <3>4. ASSUME NEW r \in activeRequesters' PROVE Places(r)' = 1
      <4>1. CASE r = x
        BY <3>1, <3>2, <4>1
      <4>2. CASE r # x
        <5>1. Places(r)' = Places(r) + 0 /\ Places(r) = 1
          BY <2>6, <3>1, <3>4, <4>2
        <5> QED
          BY <5>1
      <4> QED
        BY <4>1, <4>2
    <3>5. \A m \in Resetting' :
             m.requesters \subseteq {address'[r] : r \in onAboutClearData'}
      BY <2>5, <3>1, <3>3
    <3> QED
      BY <2>6, <3>1, <3>2, <3>4, <3>5
  <2>8. ASSUME address' = address, activeRequesters' \subseteq activeRequesters,
               onAboutClearData' \subseteq onAboutClearData,
               \A r \in activeRequesters' : Places(r)' = Places(r)
        PROVE  /\ \A m \in Resetting' :
                    m.requesters \subseteq {address'[r] : r \in onAboutClearData'}
               /\ activeRequesters' \cap onAboutClearData' = {}
               /\ \A r \in activeRequesters' : Places(r)' = 1
    <3>1. \A m \in Resetting' :
             m.requesters \subseteq {address'[r] : r \in onAboutClearData'}
      BY <2>5, <2>8
    <3>2. \A r \in activeRequesters' : Places(r)' = 1
      BY <2>6, <2>8
    <3> QED
      BY <2>6, <2>8, <3>1, <3>2
  <2>9. CASE Worker /\ Orders
    <3>1. ~clear
      BY <1>1, <1>8 DEF clear
    <3>2. onAboutClearData' = onAboutClearData
      BY <2>9, <3>1 DEF Worker, start, performLoading, stop
    <3>3. /\ address' = address /\ activeRequesters' \subseteq activeRequesters
          /\ \A r \in Requesters : Places(r)' = Places(r)
      BY <2>9 DEF Orders
    <3> QED
      BY <2>1, <2>6, <2>8, <3>2, <3>3
  <2>10. ASSUME address' = address, NEW q \in Requesters, Answers(q)
         PROVE  /\ \A m \in Resetting' :
                     m.requesters \subseteq {address'[r] : r \in onAboutClearData'}
                /\ activeRequesters' \cap onAboutClearData' = {}
                /\ \A r \in activeRequesters' : Places(r)' = 1
    <3>1. /\ activeRequesters' = activeRequesters \ {q}
          /\ onAboutClearData' = onAboutClearData
          /\ \A r \in Requesters : Places(r)' = Places(r) - (IF r = q THEN 1 ELSE 0)
      BY <2>10 DEF Answers
    <3>2. ASSUME NEW r \in activeRequesters' PROVE Places(r)' = Places(r)
      <4>1. Places(r)' = Places(r) - 0 /\ Places(r) = 1
        BY <2>6, <3>1, <3>2
      <4> QED
        BY <4>1
    <3> QED
      BY <2>8, <2>10, <3>1, <3>2
  <2>11. CASE address' = address /\ Delivers
    <3>1. /\ activeRequesters' = activeRequesters
          /\ onAboutClearData' \subseteq onAboutClearData
          /\ \A r \in Requesters : Places(r)' = Places(r)
      BY <2>11 DEF Delivers
    <3>2. \A r \in activeRequesters' : Places(r)' = Places(r)
      BY <2>6, <3>1
    <3> QED
      BY <2>1, <2>8, <2>11, <3>1, <3>2
  <2>12. CASE Carries
    <3>1. UNCHANGED <<activeRequesters, onAboutClearData, address>>
      BY <2>12 DEF Carries
    <3>2. ASSUME NEW r \in activeRequesters PROVE Places(r)' = Places(r)
      <4>1. Alive(r) /\ ~ResetNow(r)
        BY <2>1, Spared DEF ResetNow
      <4>2. Moves(r)
        BY <2>6, <2>12 DEF Carries
      <4> QED
        BY <4>1, <4>2 DEF Moves
    <3>3. \A r \in activeRequesters' : Places(r)' = Places(r)
      BY <3>1, <3>2
    <3> QED
      BY <2>1, <2>8, <3>1, <3>3
  <2> QED
    BY <2>1, <2>3, <2>7, <2>9, <2>10, <2>11, <2>12
<1> QED
  BY <1>3, <1>7, <1>8

(* ClearInv holds in every state.                                          *)
LEMMA ClearInvHolds == Spec => []ClearInv
<1>1. Init => ClearInv
  <2> SUFFICES ASSUME Init PROVE ClearInv
    OBVIOUS
  <2>1. Resets(<<>>) = 0
    <3>1. \A i \in DOMAIN <<>> : <<>>[i] \notin ResetKind
      OBVIOUS
    <3>2. <<>> \in Seq(Messages)
      OBVIOUS
    <3> QED
      BY <3>1, <3>2, TimesFinite DEF Resets
  <2>2. ToSet(<<>>) = {}
    BY DEF ToSet
  <2> QED
    BY <2>1, <2>2 DEF Init, ClearInv, LetGo, Resetting
<1>2. DownloadInv /\ ClearInv /\ DownloadInv' /\ [Next]_vars => ClearInv'
  BY ClearInvStep
<1> QED
  BY <1>1, <1>2, DownloadInvHolds, PTL DEF Spec

(* NothingLost: with one clear at most, a page the worker waits for is in  *)
(* exactly one place: in a message, in a queued call, behind the pause     *)
(* between requests, pending, with libcurl or in one of its signals. No    *)
(* pause, redirect, reset of others or order of callbacks loses it.        *)
THEOREM DownloadsNotLost == Spec => []NothingLost
<1>1. ClearInv => NothingLost
  BY DEF ClearInv, LetGo, NothingLost
<1> QED
  BY <1>1, ClearInvHolds, PTL

(* Whoever is on the way is waited for, and the id at the root of what is  *)
(* loading is known to the handler.                                        *)
Awaited == \A r \in Requesters : Places(r) >= 1 => r \in activeRequesters
Known == \A id \in Live : Root(parentOf, id) \in DOMAIN activeIds
KnownInv == clears = 0 => Awaited /\ Known

(* Every step that clears nothing keeps Awaited.                           *)
LEMMA AwaitedStep ==
  ASSUME DownloadInv, DownloadInv', Awaited, [Next]_vars, clears' = clears
  PROVE  Awaited'
<1>1. \/ \E x \in Requesters, a \in FreeAddresses : Asks(x, a)
      \/ Worker /\ Orders
      \/ \E q \in Requesters : Answers(q)
      \/ Delivers
      \/ Carries
  BY StepKinds DEF DownloadInv
<1>2. ASSUME NEW r \in Requesters
      PROVE  /\ Places(r) \in Nat /\ Places(r)' \in Nat /\ Places(r) <= 1
             /\ Places(r) >= 1 => r \in activeRequesters
  <2>1. Places(r) \in Nat /\ Places(r)' \in Nat
    BY PlacesNow, PlacesNext DEF DownloadInv
  <2>2. Places(r) + (IF r \in answered THEN 1 ELSE 0) <= 1
    BY DEF DownloadInv, NothingTwice
  <2> QED
    BY <2>1, <2>2 DEF Awaited
<1>3. Awaited' <=> \A r \in Requesters : Places(r)' >= 1 => r \in activeRequesters'
  BY DEF Awaited
<1>4. ASSUME activeRequesters \subseteq activeRequesters',
             \A r \in Requesters : Places(r)' <= Places(r) \/ r \in activeRequesters'
      PROVE  Awaited'
  BY <1>2, <1>3, <1>4
<1>5. ASSUME NEW x \in Requesters, NEW a \in FreeAddresses, Asks(x, a)
      PROVE  Awaited'
  <2>1. /\ activeRequesters' = activeRequesters \cup {x}
        /\ \A r \in Requesters : Places(r)' = Places(r) + (IF r = x THEN 1 ELSE 0)
    BY <1>5 DEF Asks
  <2>2. ASSUME NEW r \in Requesters, r # x PROVE Places(r)' <= Places(r)
    <3>1. Places(r)' = Places(r) + 0
      BY <2>1, <2>2
    <3> QED
      BY <1>2, <3>1
  <2> QED
    BY <1>4, <2>1, <2>2
<1>6. CASE Worker /\ Orders
  <2>1. ~clear
    <3>1. clears \in Nat
      BY DownloadAssumption DEF DownloadInv, DownloadTypeOK
    <3> QED
      BY <3>1 DEF clear
  <2>2. activeRequesters \subseteq activeRequesters'
    BY <1>6, <2>1 DEF Worker, start, performLoading, stop, performLoadingAfter
  <2>3. \A r \in Requesters : Places(r)' <= Places(r)
    BY <1>2, <1>6 DEF Orders
  <2> QED
    BY <1>4, <2>2, <2>3
<1>7. ASSUME NEW q \in Requesters, Answers(q) PROVE Awaited'
  <2>1. /\ activeRequesters' = activeRequesters \ {q}
        /\ \A r \in Requesters : Places(r)' = Places(r) - (IF r = q THEN 1 ELSE 0)
    BY <1>7 DEF Answers
  <2>2. ASSUME NEW r \in Requesters, Places(r)' >= 1 PROVE r \in activeRequesters'
    <3>1. CASE r = q
      <4>1. Places(r)' = Places(r) - 1
        BY <2>1, <3>1
      <4> QED
        BY <1>2, <2>2, <4>1
    <3>2. CASE r # q
      <4>1. Places(r)' = Places(r) - 0
        BY <2>1, <3>2
      <4>2. Places(r) >= 1
        BY <1>2, <2>2, <4>1
      <4> QED
        BY <1>2, <2>1, <3>2, <4>2
    <3> QED
      BY <3>1, <3>2
  <2> QED
    BY <1>3, <2>2
<1>8. CASE Delivers
  <2>1. \A r \in Requesters : Places(r)' <= Places(r)
    BY <1>2, <1>8 DEF Delivers
  <2> QED
    BY <1>4, <1>8, <2>1 DEF Delivers
<1>9. CASE Carries
  <2>1. \A r \in Requesters : Places(r)' <= Places(r)
    BY <1>9 DEF Carries, Moves
  <2> QED
    BY <1>4, <1>9, <2>1 DEF Carries
<1> QED
  BY <1>1, <1>5, <1>6, <1>7, <1>8, <1>9

(* Known is kept when nothing is added, when a transfer is added for a     *)
(* requester, and when a redirect is.                                      *)
LEMMA KnownSame ==
  ASSUME Known, Live' \subseteq Live, activeIds' = activeIds, parentOf' = parentOf
  PROVE  Known'
<1>1. Known' <=> \A id \in Live' : Root(parentOf', id) \in DOMAIN activeIds'
  BY DEF Known, Root, Chain
<1>2. \A id \in Live : Root(parentOf', id) \in DOMAIN activeIds'
  BY DEF Known
<1> QED
  BY <1>1, <1>2

(* A request that is loaded is its own root.                               *)
LEMMA KnownLoaded ==
  ASSUME DownloadTypeOK, Known, NEW x, NEW pending, NEW others, Loaded(x, pending, others),
         parentOf' = parentOf, DOMAIN others \cup loadedIds' \subseteq Live
  PROVE  Known'
<1>1. Known' <=> \A id \in Live' : Root(parentOf', id) \in DOMAIN activeIds'
  BY DEF Known, Root, Chain
<1>2. Live' = DOMAIN transfers' \cup loadedIds'
  BY DEF Live
<1>3. CASE transfers' = others /\ activeIds' = activeIds
  <2>1. Live' \subseteq Live
    BY <1>2, <1>3
  <2> QED
    BY <1>3, <2>1, KnownSame
<1>4. CASE /\ activeIds' = With(activeIds, requestCounter, x)
           /\ transfers' = With(others, requestCounter, [paused |-> FALSE, hop |-> 1])
  <2>1. Live' \subseteq Live \cup {requestCounter}
    BY <1>2, <1>4 DEF With
  <2>2. DOMAIN activeIds' = DOMAIN activeIds \cup {requestCounter}
    BY <1>4 DEF With
  <2>3. Root(parentOf, requestCounter) = requestCounter
    <3>1. requestCounter \notin DOMAIN parentOf
      BY DEF DownloadTypeOK, Ids
    <3> QED
      BY <3>1 DEF Root
  <2>4. \A id \in Live : Root(parentOf, id) \in DOMAIN activeIds
    BY DEF Known
  <2>5. \A id \in Live' : Root(parentOf, id) \in DOMAIN activeIds'
    BY <2>1, <2>2, <2>3, <2>4
  <2> QED
    BY <1>1, <2>5
<1> QED
  BY <1>3, <1>4 DEF Loaded

(* The same when the handler chooses who is loaded.                        *)
LEMMA KnownNext ==
  ASSUME DownloadTypeOK, Known, NEW others,
         NextLoaded(others) \/ (DOMAIN transfers' = DOMAIN others /\ activeIds' = activeIds),
         parentOf' = parentOf, DOMAIN others \cup loadedIds' \subseteq Live
  PROVE  Known'
<1>1. CASE DOMAIN transfers' = DOMAIN others /\ activeIds' = activeIds
  <2>1. Live' \subseteq Live
    BY <1>1 DEF Live
  <2> QED
    BY <1>1, <2>1, KnownSame
<1>2. CASE NextLoaded(others)
  <2>1. \/ DOMAIN transfers' = DOMAIN others /\ activeIds' = activeIds
        \/ \E x, pending : Loaded(x, pending, others)
    BY <1>2 DEF NextLoaded
  <2> QED
    BY <1>1, <2>1, KnownLoaded
<1> QED
  BY <1>1, <1>2

(* A redirect has the root of the request it follows.                      *)
LEMMA KnownFollow ==
  ASSUME DownloadTypeOK, Known, NEW id \in Live, NEW hop, followLocation(id, hop),
         loadedIds' \subseteq loadedIds
  PROVE  Known'
<1> DEFINE c == requestCounter
<1>1. Known' <=> \A i \in Live' : Root(parentOf', i) \in DOMAIN activeIds'
  BY DEF Known, Root, Chain
<1>2. /\ parentOf' = With(parentOf, c, id) /\ activeIds' = activeIds
      /\ DOMAIN transfers' = DOMAIN transfers \cup {c}
  BY DEF followLocation, get, With
<1>3. Live' \subseteq Live \cup {c}
  BY <1>2 DEF Live
<1>4. /\ Falls(parentOf) /\ c \in Nat /\ Live \subseteq 0..(c - 1)
      /\ \A i \in DOMAIN parentOf : i < c
  <2>1. /\ Falls(parentOf) /\ c \in Nat /\ Ids = 0..(c - 1) /\ DOMAIN parentOf \subseteq Ids
        /\ Live \in SUBSET Ids
    BY TypeFacts
  <2> QED
    BY <2>1
<1> HIDE DEF c
<1>5. /\ \A i \in 0..(c - 1) : Root(parentOf', i) = Root(parentOf, i)
      /\ Root(parentOf', c) = Root(parentOf, id)
  <2>1. id \in 0..(c - 1)
    BY <1>4
  <2>2. /\ \A i \in 0..(c - 1) : Root(With(parentOf, c, id), i) = Root(parentOf, i)
        /\ Root(With(parentOf, c, id), c) = Root(parentOf, id)
    BY <1>4, <2>1, ExtendedRoots
  <2> QED
    BY <1>2, <2>2
<1>6. \A i \in Live : Root(parentOf, i) \in DOMAIN activeIds
  BY DEF Known
<1>7. \A i \in Live' : Root(parentOf', i) \in DOMAIN activeIds'
  BY <1>2, <1>3, <1>4, <1>5, <1>6
<1> QED
  BY <1>1, <1>7

(* What is looked at for the last time takes nobody else's root away, as   *)
(* its requester has nothing else on the way.                              *)
LEMMA KnownRemoved ==
  ASSUME DownloadInv, DownloadTypeOK', Bound', Known, NEW id,
         handlerQueue # <<>>, handlerQueue' = Tail(handlerQueue),
         Head(handlerQueue).type = "loaded", Head(handlerQueue).id = id,
         removeLoadedResourceAssociatedData(id), transfers' = transfers
  PROVE  Known'
<1>1. Known' <=> \A i \in Live' : Root(parentOf', i) \in DOMAIN activeIds'
  BY DEF Known, Root, Chain
<1>2. /\ DownloadTypeOK /\ Bound /\ LoadedOnce /\ NothingTwice
      /\ DOMAIN activeIds \cap DOMAIN parentOf = {}
      /\ activeIds \in [DOMAIN activeIds -> Requesters]
  BY DEF DownloadInv, Bound, DownloadTypeOK
<1>3. /\ id \in Live /\ id \in Nat /\ Live' = Live \ {id} /\ Live \in SUBSET Nat
  <2>1. id \in loadedIds /\ loadedIds' = loadedIds \ {id}
    BY <1>2, Taken
  <2>2. id \in Live /\ Live' = Live \ {id}
    BY <1>2, <2>1 DEF Live, LoadedOnce
  <2> QED
    BY <1>2, <2>2, TypeFacts
<1>4. SUFFICES ASSUME NEW i \in Live' PROVE Root(parentOf', i) \in DOMAIN activeIds'
  BY <1>1
<1>5. PICK r \in Requesters : i \in Live /\ i # id /\ Owns(activeIds, parentOf, r, i)
  <2>1. i \in Live /\ i # id
    BY <1>3
  <2>2. Root(parentOf, i) \in DOMAIN activeIds
    BY <2>1 DEF Known
  <2> QED
    BY <1>2, <2>1, <2>2 DEF Owns
<1>6. /\ ownIds(r) = OwnSet(activeIds, parentOf, Live, r)
      /\ IsFiniteSet(ownIds(r)) /\ Loading(r) \in Nat
      /\ ownIds(r)' = OwnSet(activeIds', parentOf', Live', r)
      /\ IsFiniteSet(ownIds(r)')
  BY <1>2, OwnSetNow, OwnSetNext DEF Bound, Loading
<1>7. i \in ownIds(r)
  BY <1>5, <1>6 DEF OwnSet
<1>8. id \notin ownIds(r)
  <2>1. ASSUME id \in ownIds(r) PROVE FALSE
    <3> DEFINE o == ownIds(r)
               rest == o \ {id}
    <3>1. IsFiniteSet(rest) /\ Cardinality(rest) = Cardinality(o) - 1 /\ i \in rest
      BY <1>5, <1>6, <1>7, <2>1, FS_RemoveElement
    <3> HIDE DEF rest
    <3>2. Cardinality(rest) # 0 /\ Cardinality(rest) \in Nat
      BY <3>1, FS_EmptySet, FS_CardinalityType
    <3>3. Loading(r) <= 1
      <4>1. Places(r) = Asked(r) + Called(r) + Delayed(r) + Pending(r) + Loading(r)
            /\ Asked(r) \in Nat /\ Called(r) \in Nat /\ Delayed(r) \in Nat /\ Pending(r) \in Nat
            /\ Places(r) \in Nat
        BY <1>2, PlacesNow
      <4>2. Places(r) + (IF r \in answered THEN 1 ELSE 0) <= 1
        BY <1>2, <1>5 DEF NothingTwice
      <4>3. Places(r) <= 1
        BY <4>1, <4>2
      <4> QED
        BY <1>6, <4>1, <4>3
    <3>4. Cardinality(o) = Loading(r)
      BY DEF Loading
    <3> QED
      BY <1>6, <3>1, <3>2, <3>3, <3>4
  <2> QED
    BY <2>1
<1>9. Loading(r)' = Loading(r)
  BY <1>2, <1>8, RemovedLoading
<1>10. ownIds(r)' \subseteq ownIds(r)
  <2>1. /\ activeIds' = Without(activeIds, {Root(parentOf, id)})
        /\ removeRequestIndexesChain({id})
    BY <1>2, <1>3, RemoveIs
  <2>2. {id} \in SUBSET Nat /\ Live' \subseteq Live
    BY <1>3
  <2> QED
    BY <1>2, <2>1, <2>2, CutFlow
<1>11. ownIds(r)' = ownIds(r)
  <2> DEFINE o == ownIds(r)
             n == ownIds(r)'
  <2>1. n \subseteq o /\ IsFiniteSet(o) /\ Cardinality(n) = Cardinality(o)
    BY <1>6, <1>9, <1>10 DEF Loading
  <2> HIDE DEF o, n
  <2>2. n = o
    BY <2>1, FS_Subset
  <2> QED
    BY <2>2 DEF o, n
<1>12. Owns(activeIds', parentOf', r, i)
  BY <1>6, <1>7, <1>11 DEF OwnSet
<1> QED
  BY <1>12 DEF Owns

(* Without a reset, whatever the handler takes from its queue keeps Known. *)
LEMMA KnownHandled ==
  ASSUME DownloadInv, DownloadTypeOK', Bound', Known, Resetting = {}, handleRequest
  PROVE  Known'
<1> DEFINE e == Head(handlerQueue)
<1>1. /\ handlerQueue # <<>> /\ handlerQueue' = Tail(handlerQueue)
      /\ DownloadTypeOK /\ LoadedOnce
  BY DEF handleRequest, DownloadInv
<1>2. \/ e.type = "download" /\ handleDownload(e.requester)
      \/ e.type = "pause" /\ pauseRequesters(e.requesters)
      \/ e.type = "unpause" /\ unpauseRequesters(e.requesters)
      \/ e.type = "reset" /\ resetRequesters(e.requesters)
      \/ e.type = "loaded" /\ onUrlLoaded(e.id, e.hop)
  BY DEF handleRequest
<1>3. /\ e \in Events /\ loadedIds' \subseteq loadedIds
      /\ e.type = "loaded" => e.id \in Live
      /\ ToSet(handlerQueue) = ToSet(handlerQueue') \cup {e}
  BY <1>1, Taken DEF Live
<1>4. /\ e.type \in {"pause", "unpause", "reset"} => e.requesters \in SUBSET Addresses
      /\ e.type # "reset"
  BY <1>3, EventTyped DEF Resetting
<1>5. DOMAIN transfers \cup loadedIds' \subseteq Live
  BY <1>3 DEF Live
<1>6. ASSUME NEW x, handleDownload(x) PROVE Known'
  <2>1. parentOf' = parentOf
    BY <1>6 DEF handleDownload
  <2>2. \/ activeIds' = activeIds /\ transfers' = transfers
        \/ load(x, pendingRequesters, pausedRequesters, transfers, stillRunning)
    BY <1>6 DEF handleDownload
  <2>3. CASE activeIds' = activeIds /\ transfers' = transfers
    BY <1>1, <1>5, <2>1, <2>3, KnownNext
  <2>4. CASE load(x, pendingRequesters, pausedRequesters, transfers, stillRunning)
    BY <1>1, <1>5, <2>1, <2>4, LoadIs, KnownLoaded
  <2> QED
    BY <2>2, <2>3, <2>4
<1>7. ASSUME NEW A \in SUBSET Addresses, pauseRequesters(A) PROVE Known'
  <2>1. parentOf' = parentOf /\ activeIds' = activeIds
    BY <1>7 DEF pauseRequesters, mapVars
  <2>2. DOMAIN transfers' = DOMAIN transfers
    BY <1>1, <1>7, PauseTyped
  <2> QED
    BY <1>1, <1>5, <2>1, <2>2, KnownNext
<1>8. ASSUME NEW A \in SUBSET Addresses, unpauseRequesters(A) PROVE Known'
  <2>1. parentOf' = parentOf
    BY <1>8 DEF unpauseRequesters
  <2>2. NextLoaded(transfers) \/ (DOMAIN transfers' = DOMAIN transfers /\ activeIds' = activeIds)
    BY <1>1, <1>8, UnpauseTyped
  <2> QED
    BY <1>1, <1>5, <2>1, <2>2, KnownNext
<1>9. CASE e.type = "loaded" /\ onUrlLoaded(e.id, e.hop)
  <2>1. \/ followLocation(e.id, e.hop)
        \/ removeLoadedResourceAssociatedData(e.id) /\ transfers' = transfers
    BY <1>9 DEF onUrlLoaded
  <2>2. CASE followLocation(e.id, e.hop)
    BY <1>1, <1>3, <1>9, <2>2, KnownFollow
  <2>3. CASE removeLoadedResourceAssociatedData(e.id) /\ transfers' = transfers
    BY <1>1, <1>9, <2>3, KnownRemoved
  <2> QED
    BY <2>1, <2>2, <2>3
<1> QED
  BY <1>2, <1>4, <1>6, <1>7, <1>8, <1>9

(* Without a reset, every step keeps Known.                                *)
LEMMA KnownStep ==
  ASSUME DownloadInv, DownloadTypeOK', Bound', Known, Resetting = {}, [Next]_vars
  PROVE  Known'
<1>1. DownloadTypeOK
  BY DEF DownloadInv
<1>2. CASE handleRequest
  BY <1>2, KnownHandled
<1>3. CASE extractMessage
  <2>1. loadedIds' = loadedIds
    BY <1>1, <1>3, DispatcherTyped DEF Dispatcher
  <2>2. activeIds' = activeIds /\ parentOf' = parentOf /\ transfers' = transfers
    BY <1>3 DEF extractMessage, mapVars, curlVars
  <2>3. Live' \subseteq Live
    BY <2>1, <2>2 DEF Live
  <2> QED
    BY <2>2, <2>3, KnownSame
<1>4. CASE Worker \/ timerEvent \/ setPauseRange \/ socketFunctionCallback \/ UNCHANGED vars
  <2>1. /\ activeIds' = activeIds /\ parentOf' = parentOf /\ transfers' = transfers
        /\ handlerQueue' = handlerQueue
    BY <1>4 DEF Worker, start, performLoading, stop, clear, timerEvent, setPauseRange,
                socketFunctionCallback, vars, mapVars, curlVars
  <2>2. Live' \subseteq Live
    BY <2>1 DEF Live, loadedIds
  <2> QED
    BY <2>1, <2>2, KnownSame
<1>5. ASSUME NEW done \in SUBSET DOMAIN transfers, emitLoaded(done)
      PROVE  DOMAIN Without(transfers, done) \cup loadedIds' \subseteq Live
  <2>1. loadedIds' = loadedIds \cup done
    BY <1>1, <1>5, Emitted
  <2>2. DOMAIN Without(transfers, done) = DOMAIN transfers \ done
    BY <1>1, RestTyped
  <2> QED
    BY <2>1, <2>2 DEF Live
<1>6. ASSUME NEW done \in SUBSET DOMAIN transfers, doAction(done) PROVE Known'
  <2>1. emitLoaded(done) /\ parentOf' = parentOf
    BY <1>6 DEF doAction
  <2>2. \/ NextLoaded(Without(transfers, done))
        \/ DOMAIN transfers' = DOMAIN Without(transfers, done) /\ activeIds' = activeIds
    BY <1>1, <1>6, ActionTyped
  <2>3. DOMAIN Without(transfers, done) \cup loadedIds' \subseteq Live
    BY <1>5, <2>1
  <2> QED
    BY <1>1, <2>1, <2>2, <2>3, KnownNext
<1>7. ASSUME NEW done \in SUBSET DOMAIN transfers, timeoutAction(done) PROVE Known'
  <2>1. emitLoaded(done) /\ parentOf' = parentOf /\ activeIds' = activeIds
        /\ transfers' = Without(transfers, done)
    BY <1>7 DEF timeoutAction, mapVars
  <2>2. Live' \subseteq Live
    BY <1>5, <2>1 DEF Live
  <2> QED
    BY <2>1, <2>2, KnownSame
<1>8. CASE onTimerTicked
  <2>1. /\ load(Head(requesterQueue), pendingRequesters, pausedRequesters, transfers,
                stillRunning)
        /\ parentOf' = parentOf /\ handlerQueue' = handlerQueue
    BY <1>8 DEF onTimerTicked
  <2>2. DOMAIN transfers \cup loadedIds' \subseteq Live
    BY <2>1 DEF Live, loadedIds
  <2> QED
    BY <1>1, <2>1, <2>2, LoadIs, KnownLoaded
<1> QED
  BY <1>2, <1>3, <1>4, <1>6, <1>7, <1>8 DEF Next, Dispatcher, Curl

(* KnownInv holds in every state.                                          *)
LEMMA KnownInvHolds == Spec => []KnownInv
<1>1. Init => KnownInv
  <2> SUFFICES ASSUME Init PROVE Awaited /\ Known
    BY DEF KnownInv
  <2>1. Live = {}
    BY DownloadInit
  <2>2. \A r \in Requesters : Places(r) = 0
    BY DownloadInvInit DEF DownloadInv, Unused, Init
  <2> QED
    BY <2>1, <2>2 DEF Awaited, Known
<1>2. DownloadInv /\ ClearInv /\ KnownInv /\ DownloadInv' /\ [Next]_vars => KnownInv'
  <2> SUFFICES ASSUME DownloadInv, ClearInv, KnownInv, DownloadInv', [Next]_vars, clears' = 0
               PROVE  Awaited' /\ Known'
    BY DEF KnownInv
  <2>1. DownloadTypeOK /\ DownloadTypeOK' /\ Bound' /\ Unused
    BY DEF DownloadInv
  <2>2. clears' = clears
    <3>1. clears \in Nat
      BY <2>1, DownloadAssumption DEF DownloadTypeOK
    <3> QED
      BY <2>1, <3>1, ResetsStep DEF clear
  <2>3. Resetting = {}
    <3>1. /\ Resets(messages) \in Nat /\ Resets(handlerQueue) \in Nat
          /\ Resets(messages) + Resets(handlerQueue) = 0 => Resetting = {}
      BY <2>1, ResetsNow
    <3>2. Resets(messages) + Resets(handlerQueue) <= 0
      BY <2>2 DEF ClearInv, LetGo
    <3> QED
      BY <3>1, <3>2
  <2> QED
    BY <2>1, <2>2, <2>3, AwaitedStep, KnownStep DEF KnownInv
<1> QED
  BY <1>1, <1>2, DownloadInvHolds, ClearInvHolds, PTL DEF Spec

(* OrphansOnlyAfterClear: as long as nothing was cleared, requesterById    *)
(* finds the requester of everything that libcurl loads or has loaded,     *)
(* through any chain of redirects.                                         *)
THEOREM OrphansAfterClear == Spec => []OrphansOnlyAfterClear
<1>1. DownloadInv /\ KnownInv => OrphansOnlyAfterClear
  <2> SUFFICES ASSUME DownloadInv, Awaited, Known, NEW id \in Live
               PROVE  requesterById(id) # {}
    BY DEF KnownInv, OrphansOnlyAfterClear, Live
  <2> DEFINE r == activeIds[Root(parentOf, id)]
  <2>1. /\ DownloadTypeOK /\ Bound /\ DOMAIN activeIds \cap DOMAIN parentOf = {}
        /\ activeIds \in [DOMAIN activeIds -> Requesters]
    BY DEF DownloadInv, Bound, DownloadTypeOK
  <2>2. r \in Requesters /\ Owns(activeIds, parentOf, r, id)
    BY <2>1 DEF Known, Owns
  <2> HIDE DEF r
  <2>3. id \in Nat
    BY <2>1, TypeFacts
  <2>4. ownedBy(r, id) /\ id \in ownIds(r)
    BY <2>1, <2>2, <2>3, OwnedNow DEF ownIds, Live
  <2>5. Places(r) >= 1
    <3>1. Loading(r) # 0 /\ Loading(r) \in Nat
      BY <2>1, <2>4, OwnSetNow, FS_EmptySet DEF Loading
    <3>2. Places(r) = Asked(r) + Called(r) + Delayed(r) + Pending(r) + Loading(r)
          /\ Asked(r) \in Nat /\ Called(r) \in Nat /\ Delayed(r) \in Nat /\ Pending(r) \in Nat
      BY <2>1, PlacesNow
    <3> QED
      BY <3>1, <3>2
  <2>6. Alive(r)
    BY <2>2, <2>5 DEF Awaited, Alive
  <2>7. r \in requesterById(id)
    BY <2>2, <2>4, <2>6 DEF requesterById, ownedBy
  <2> QED
    BY <2>7
<1> QED
  BY <1>1, DownloadInvHolds, KnownInvHolds, PTL
=============================================================================

------------------------- MODULE CrawlBalanceProofs -------------------------
(***************************************************************************)
(* Until the data is first cleared no page is lost or counted twice        *)
(* (PipelineBalanced), and when the counters agree the crawl is complete   *)
(* (EndConditionSound), for any site and any number of workers.            *)
(*                                                                         *)
(* The balances are sums over all workers of the sizes of sets. A step     *)
(* touches the sets of one worker, or moves an element to a queue; the     *)
(* lemmas say what that does to the sums. The balances are inductive only  *)
(* together with the store's own invariant, with the turns (there is but   *)
(* one) and with the form of a handler's calls: a result is always         *)
(* followed by its counter.                                                *)
(*                                                                         *)
(* Equal counters say by PipelineBalanced that nothing is under way. That  *)
(* what is not under way has arrived takes another invariant, CrawlInv: a  *)
(* page crawled is on its way to the model or stored or filtered, and what *)
(* it leads to is in the store or a call that puts it there is due, unless *)
(* a limit is reached.                                                     *)
(***************************************************************************)

EXTENDS CrawlPipelineProofs, UniqueLinkStoreProofs

(***************************************************************************)
(* How many elements the sets of all workers have together.                *)
(***************************************************************************)

LEMMA WorkersFinite == IsFiniteSet(Workers)
BY PipelineAssumption, FS_Interval DEF Workers

(* The elements of all sets, each with its worker.                         *)
Labelled(f, workers) == UNION {{w} \X f[w] : w \in workers}

(* Finitely many finite sets have finitely many elements.                  *)
LEMMA LabelledFinite ==
  ASSUME NEW f, NEW W \in SUBSET Workers, \A w \in W : IsFiniteSet(f[w])
  PROVE  IsFiniteSet(Labelled(f, W)) /\ Cardinality(Labelled(f, W)) \in Nat
<1> DEFINE parts == {{w} \X f[w] : w \in W}
           g == [w \in W |-> {w} \X f[w]]
<1>1. IsFiniteSet(W)
  BY WorkersFinite, FS_Subset
<1>2. g \in Surjection(W, parts)
  BY DEF Surjection
<1>3. IsFiniteSet(parts)
  BY <1>1, <1>2, FS_Surjection
<1>4. ASSUME NEW p \in parts PROVE IsFiniteSet(p)
  <2>1. PICK w \in W : p = {w} \X f[w]
    OBVIOUS
  <2>2. IsFiniteSet({w}) /\ IsFiniteSet(f[w])
    BY FS_Singleton
  <2> QED
    BY <2>1, <2>2, FS_Product
<1>5. IsFiniteSet(UNION parts)
  BY <1>3, <1>4, FS_UNION
<1> QED
  BY <1>5, FS_CardinalityType DEF Labelled

(* One worker's part counts as its set does.                               *)
LEMMA LabelledOne ==
  ASSUME NEW w, NEW S, IsFiniteSet(S)
  PROVE  IsFiniteSet({w} \X S) /\ Cardinality({w} \X S) = Cardinality(S)
           /\ Cardinality(S) \in Nat
<1>1. IsFiniteSet({w}) /\ Cardinality({w}) = 1
  BY FS_Singleton
<1>2. Cardinality(S) \in Nat
  BY FS_CardinalityType
<1>3. IsFiniteSet({w} \X S) /\ Cardinality({w} \X S) = Cardinality({w}) * Cardinality(S)
  BY <1>1, FS_Product
<1> QED
  BY <1>1, <1>2, <1>3

(* When one worker's set changes, the sum changes by as much.              *)
LEMMA SizeOfChange ==
  ASSUME NEW f, NEW g, NEW w \in Workers,
         \A v \in Workers : IsFiniteSet(f[v]),
         \A v \in Workers : v # w => g[v] = f[v],
         IsFiniteSet(g[w])
  PROVE  /\ SizeOf(f) \in Nat /\ SizeOf(g) \in Nat
         /\ Cardinality(f[w]) \in Nat /\ Cardinality(g[w]) \in Nat
         /\ SizeOf(g) + Cardinality(f[w]) = SizeOf(f) + Cardinality(g[w])
<1> DEFINE others == Workers \ {w}
           R == Labelled(f, others)
           Rg == Labelled(g, others)
           F == {w} \X f[w]
           G == {w} \X g[w]
<1>1. /\ Labelled(f, Workers) = R \union F
      /\ Labelled(g, Workers) = Rg \union G
  BY DEF Labelled
<1>2. Rg = R
  BY DEF Labelled
<1>3. R \intersect F = {} /\ R \intersect G = {}
  BY DEF Labelled
<1>4. IsFiniteSet(R) /\ Cardinality(R) \in Nat
  BY LabelledFinite
<1>5. /\ IsFiniteSet(F) /\ Cardinality(F) = Cardinality(f[w]) /\ Cardinality(f[w]) \in Nat
      /\ IsFiniteSet(G) /\ Cardinality(G) = Cardinality(g[w]) /\ Cardinality(g[w]) \in Nat
  BY LabelledOne
<1> HIDE DEF R, Rg, F, G, others
<1>6. /\ Cardinality(R \union F) = Cardinality(R) + Cardinality(F) - Cardinality(R \intersect F)
      /\ Cardinality(R \union G) = Cardinality(R) + Cardinality(G) - Cardinality(R \intersect G)
  BY <1>4, <1>5, FS_Union
<1>7. Cardinality(R \intersect F) = 0 /\ Cardinality(R \intersect G) = 0
  BY <1>3, FS_EmptySet
<1>8. /\ SizeOf(f) = Cardinality(R) + Cardinality(f[w])
      /\ SizeOf(g) = Cardinality(R) + Cardinality(g[w])
  <2>1. SizeOf(f) = Cardinality(R \union F) /\ SizeOf(g) = Cardinality(R \union G)
    BY <1>1, <1>2 DEF SizeOf, Labelled
  <2> QED
    BY <1>4, <1>5, <1>6, <1>7, <2>1
<1> QED
  BY <1>4, <1>5, <1>8

(* Nothing in any set, or something in one.                                *)
LEMMA SizeOfEmpty ==
  ASSUME NEW f, \A v \in Workers : IsFiniteSet(f[v])
  PROVE  /\ SizeOf(f) \in Nat
         /\ SizeOf(f) = 0 <=> \A v \in Workers : f[v] = {}
<1>1. IsFiniteSet(Labelled(f, Workers)) /\ Cardinality(Labelled(f, Workers)) \in Nat
  BY LabelledFinite
<1>2. Labelled(f, Workers) = {} <=> \A v \in Workers : f[v] = {}
  <2>1. ASSUME NEW v \in Workers, NEW x \in f[v] PROVE <<v, x>> \in Labelled(f, Workers)
    BY DEF Labelled
  <2>2. ASSUME NEW p \in Labelled(f, Workers) PROVE \E v \in Workers : f[v] # {}
    BY DEF Labelled
  <2> QED
    BY <2>1, <2>2
<1>3. Cardinality(Labelled(f, Workers)) = 0 <=> Labelled(f, Workers) = {}
  BY <1>1, FS_EmptySet
<1> QED
  BY <1>1, <1>2, <1>3 DEF SizeOf, Labelled

(***************************************************************************)
(* The calls of a handler.                                                 *)
(***************************************************************************)

(* One sequence after another, element by element.                         *)
LEMMA ConcatElements ==
  ASSUME NEW T, NEW s \in Seq(T), NEW t \in Seq(T)
  PROVE  /\ s \o t \in Seq(T) /\ Len(s) \in Nat /\ Len(t) \in Nat
         /\ Len(s \o t) = Len(s) + Len(t)
         /\ \A i \in 1..Len(s) : (s \o t)[i] = s[i]
         /\ \A i \in 1..Len(t) : (s \o t)[Len(s) + i] = t[i]
OBVIOUS

(* What handlePage does, call by call.                                     *)
LEMMA HandlePageCalls ==
  ASSUME NEW r \in Requests
  PROVE  LET n == Len(Links[r])
             m == Len(Blocked[r])
             h == handlePage(r)
         IN /\ n \in Nat /\ m \in Nat /\ Blocked[r] \in Seq(Requests)
            /\ h \in Seq(CallRecords) /\ Len(h) = n + 2 + m
            /\ \A i \in 1..n : h[i] = [name |-> "addLinks", page |-> r, links |-> Links[r][i]]
            /\ h[n + 1] = [name |-> "emitResult", page |-> r]
            /\ h[n + 2] = [name |-> "count", page |-> r]
            /\ \A i \in 1..m : h[n + 2 + i] = [name |-> "claimBlocked", page |-> Blocked[r][i]]
<1> DEFINE n == Len(Links[r])
           m == Len(Blocked[r])
<1> DEFINE A == AddLinks(r)
           E == Calls("emitResult", <<r>>)
           C == Calls("count", <<r>>)
           B == Calls("claimBlocked", Blocked[r])
<1>1. /\ A \in Seq(CallRecords) /\ Len(A) = n /\ n \in Nat
      /\ \A i \in 1..n : A[i] = [name |-> "addLinks", page |-> r, links |-> Links[r][i]]
  BY AddLinksTyped
<1>2. <<r>> \in Seq(Requests) /\ Len(<<r>>) = 1 /\ <<r>>[1] = r
  OBVIOUS
<1>3. E \in Seq(CallRecords) /\ Len(E) = 1 /\ E[1] = [name |-> "emitResult", page |-> r]
  <2>1. /\ E \in Seq(CallRecords) /\ Len(E) = Len(<<r>>)
        /\ \A i \in 1..Len(<<r>>) : E[i] = [name |-> "emitResult", page |-> <<r>>[i]]
    BY <1>2, CallsTyped
  <2> QED
    BY <1>2, <2>1
<1>4. C \in Seq(CallRecords) /\ Len(C) = 1 /\ C[1] = [name |-> "count", page |-> r]
  <2>1. /\ C \in Seq(CallRecords) /\ Len(C) = Len(<<r>>)
        /\ \A i \in 1..Len(<<r>>) : C[i] = [name |-> "count", page |-> <<r>>[i]]
    BY <1>2, CallsTyped
  <2> QED
    BY <1>2, <2>1
<1>5. Blocked[r] \in Seq(Requests) /\ m \in Nat
  BY PipelineAssumption
<1>6. /\ B \in Seq(CallRecords) /\ Len(B) = m
      /\ \A i \in 1..m : B[i] = [name |-> "claimBlocked", page |-> Blocked[r][i]]
  BY <1>5, CallsTyped
<1> HIDE DEF A, E, C, B, n, m
<1> DEFINE AE == A \o E
           AEC == AE \o C
           h == AEC \o B
<1>7. /\ AE \in Seq(CallRecords) /\ Len(AE) = n + 1
      /\ \A i \in 1..n : AE[i] = A[i]
      /\ AE[n + 1] = E[1]
  <2>0. A \in Seq(CallRecords) /\ E \in Seq(CallRecords)
    BY <1>1, <1>3
  <2>1. /\ AE \in Seq(CallRecords) /\ Len(AE) = Len(A) + Len(E)
        /\ \A i \in 1..Len(A) : AE[i] = A[i]
        /\ \A i \in 1..Len(E) : AE[Len(A) + i] = E[i]
    BY <2>0, ConcatElements
  <2> HIDE DEF AE
  <2> QED
    BY <1>1, <1>3, <2>1
<1> HIDE DEF AE
<1>8. /\ AEC \in Seq(CallRecords) /\ Len(AEC) = n + 2
      /\ \A i \in 1..(n + 1) : AEC[i] = AE[i]
      /\ AEC[n + 2] = C[1]
  <2>0. AE \in Seq(CallRecords) /\ C \in Seq(CallRecords)
    BY <1>4, <1>7
  <2>1. /\ AEC \in Seq(CallRecords) /\ Len(AEC) = Len(AE) + Len(C)
        /\ \A i \in 1..Len(AE) : AEC[i] = AE[i]
        /\ \A i \in 1..Len(C) : AEC[Len(AE) + i] = C[i]
    BY <2>0, ConcatElements
  <2>2. (n + 1) + 1 = n + 2
    BY <1>1
  <2> HIDE DEF AEC
  <2>3. AEC[(n + 1) + 1] = C[1]
    BY <1>4, <1>7, <2>1
  <2> QED
    BY <1>4, <1>7, <2>1, <2>2, <2>3
<1> HIDE DEF AEC
<1>9. /\ h \in Seq(CallRecords) /\ Len(h) = n + 2 + m
      /\ \A i \in 1..(n + 2) : h[i] = AEC[i]
      /\ \A i \in 1..m : h[n + 2 + i] = B[i]
  <2>0. AEC \in Seq(CallRecords) /\ B \in Seq(CallRecords)
    BY <1>6, <1>8
  <2>1. /\ h \in Seq(CallRecords) /\ Len(h) = Len(AEC) + Len(B)
        /\ \A i \in 1..Len(AEC) : h[i] = AEC[i]
        /\ \A i \in 1..Len(B) : h[Len(AEC) + i] = B[i]
    BY <2>0, ConcatElements
  <2> HIDE DEF h
  <2> QED
    BY <1>6, <1>8, <2>1
<1>10. handlePage(r) = h
  BY DEF handlePage, AEC, AE, A, E, C, B
<1> HIDE DEF h
<1>11. /\ n + 1 \in 1..(n + 1) /\ n + 1 \in 1..(n + 2) /\ n + 2 \in 1..(n + 2)
       /\ \A i \in 1..n : i \in 1..(n + 1) /\ i \in 1..(n + 2)
  BY <1>1
<1>12. /\ \A i \in 1..n : h[i] = A[i]
       /\ h[n + 1] = E[1] /\ h[n + 2] = C[1]
  BY <1>7, <1>8, <1>9, <1>11
<1>13. /\ n \in Nat /\ m \in Nat /\ Blocked[r] \in Seq(Requests)
       /\ h \in Seq(CallRecords) /\ Len(h) = n + 2 + m
       /\ \A i \in 1..n : h[i] = [name |-> "addLinks", page |-> r, links |-> Links[r][i]]
       /\ h[n + 1] = [name |-> "emitResult", page |-> r]
       /\ h[n + 2] = [name |-> "count", page |-> r]
       /\ \A i \in 1..m : h[n + 2 + i] = [name |-> "claimBlocked", page |-> Blocked[r][i]]
  BY <1>1, <1>3, <1>4, <1>5, <1>6, <1>9, <1>12
<1> QED
  BY <1>10, <1>13, Zenon DEF n, m

(* Every page emitted is counted next, and nothing else is.                *)
Paired(calls) ==
  \A i \in DOMAIN calls :
    /\ calls[i].name = "emitResult" =>
         i + 1 \in DOMAIN calls /\ calls[i + 1].name = "count"
    /\ i # 1 /\ calls[i].name = "count" => calls[i - 1].name = "emitResult"

(* What a handler may go on with: pairs, and not the end of one.           *)
Whole(calls) == Paired(calls) /\ (calls # <<>> => calls[1].name # "count")

(* A handler that has made its first call.                                 *)
LEMMA PairedTail ==
  ASSUME NEW q \in Seq(CallRecords), q # <<>>, Paired(q)
  PROVE  /\ Tail(q) \in Seq(CallRecords) /\ Paired(Tail(q)) /\ Head(q) = q[1]
         /\ q[1].name = "emitResult" =>
              Tail(q) # <<>> /\ Tail(q)[1].name = "count"
         /\ q[1].name # "emitResult" => Whole(Tail(q))
<1> DEFINE t == Tail(q)
<1>1. /\ Len(q) \in Nat /\ Len(q) >= 1 /\ DOMAIN q = 1..Len(q)
      /\ t \in Seq(CallRecords) /\ DOMAIN t = 1..(Len(q) - 1)
      /\ \A i \in 1..(Len(q) - 1) : t[i] = q[i + 1]
      /\ Head(q) = q[1]
      /\ Len(t) = Len(q) - 1
  OBVIOUS
<1> HIDE DEF t
<1>a. t # <<>> <=> Len(q) > 1
  BY <1>1
<1>2. Paired(t)
  <2> SUFFICES ASSUME NEW i \in DOMAIN t
               PROVE  /\ t[i].name = "emitResult" =>
                           i + 1 \in DOMAIN t /\ t[i + 1].name = "count"
                      /\ i # 1 /\ t[i].name = "count" => t[i - 1].name = "emitResult"
    BY DEF Paired
  <2>1. i + 1 \in DOMAIN q /\ t[i] = q[i + 1] /\ i + 1 # 1 /\ i \in Nat
    BY <1>1
  <2>2. t[i].name = "emitResult" => (i + 1) + 1 \in DOMAIN q /\ q[(i + 1) + 1].name = "count"
    BY <2>1 DEF Paired
  <2>3. (i + 1) + 1 \in DOMAIN q => i + 1 \in DOMAIN t /\ t[i + 1] = q[(i + 1) + 1]
    BY <1>1, <2>1
  <2>4. t[i].name = "count" => q[(i + 1) - 1].name = "emitResult"
    BY <2>1 DEF Paired
  <2>5. i # 1 => t[i - 1] = q[i]
    BY <1>1
  <2>6. (i + 1) - 1 = i
    BY <2>1
  <2> QED
    BY <2>2, <2>3, <2>4, <2>5, <2>6
<1>3. q[1].name = "emitResult" => t # <<>> /\ t[1].name = "count"
  <2>1. 1 \in DOMAIN q
    BY <1>1
  <2>2. q[1].name = "emitResult" => 1 + 1 \in DOMAIN q /\ q[1 + 1].name = "count"
    BY <2>1, Zenon DEF Paired
  <2>3. 1 + 1 = 2 /\ (2 \in DOMAIN q => Len(q) > 1 /\ t[1] = q[2])
    BY <1>1
  <2> QED
    BY <1>a, <2>2, <2>3
<1>4. q[1].name # "emitResult" /\ t # <<>> => t[1].name # "count"
  <2>1. t # <<>> => 2 \in DOMAIN q /\ t[1] = q[2]
    BY <1>1, <1>a
  <2>2. 2 \in DOMAIN q /\ q[2].name = "count" => q[2 - 1].name = "emitResult"
    BY DEF Paired
  <2> QED
    BY <2>1, <2>2
<1> QED
  BY <1>1, <1>2, <1>3, <1>4 DEF Whole, t

(* A handler that inserts the calls of another page.                       *)
LEMMA PairedConcat ==
  ASSUME NEW s \in Seq(CallRecords), NEW t \in Seq(CallRecords), Paired(s), Whole(t)
  PROVE  Paired(s \o t) /\ (Whole(s) => Whole(s \o t))
<1> DEFINE c == s \o t
<1>1. /\ Len(s) \in Nat /\ DOMAIN s = 1..Len(s)
      /\ Len(t) \in Nat /\ DOMAIN t = 1..Len(t)
      /\ DOMAIN c = 1..(Len(s) + Len(t)) /\ c \in Seq(CallRecords)
      /\ \A i \in 1..Len(s) : c[i] = s[i]
      /\ \A i \in 1..Len(t) : c[Len(s) + i] = t[i]
      /\ s = <<>> <=> Len(s) = 0
      /\ t = <<>> <=> Len(t) = 0
      /\ c = <<>> <=> Len(s) + Len(t) = 0
  OBVIOUS
<1> HIDE DEF c
<1>2. ASSUME NEW i \in DOMAIN c
      PROVE  /\ c[i].name = "emitResult" => i + 1 \in DOMAIN c /\ c[i + 1].name = "count"
             /\ i # 1 /\ c[i].name = "count" => c[i - 1].name = "emitResult"
  <2>1. CASE i <= Len(s)
    <3>1. i \in DOMAIN s /\ c[i] = s[i]
      BY <1>1, <2>1
    <3>2. i + 1 \in DOMAIN s => i + 1 \in DOMAIN c /\ c[i + 1] = s[i + 1]
      BY <1>1
    <3>3. i # 1 => c[i - 1] = s[i - 1]
      BY <1>1, <2>1
    <3> QED
      BY <3>1, <3>2, <3>3 DEF Paired
  <2>2. CASE i > Len(s)
    <3>1. PICK j \in DOMAIN t : i = Len(s) + j
      <4>1. i - Len(s) \in DOMAIN t /\ i = Len(s) + (i - Len(s))
        BY <1>1, <2>2
      <4> QED
        BY <4>1
    <3>2. c[i] = t[j] /\ j \in Nat
      BY <1>1, <3>1
    <3>3. j + 1 \in DOMAIN t => i + 1 \in DOMAIN c /\ c[i + 1] = t[j + 1]
      BY <1>1, <3>1
    <3>4. j # 1 => c[i - 1] = t[j - 1]
      <4>1. j # 1 => j - 1 \in 1..Len(t) /\ i - 1 = Len(s) + (j - 1)
        BY <1>1, <3>1
      <4> QED
        BY <1>1, <4>1
    <3>5. j = 1 => t[j].name # "count"
      BY <1>1, <3>1 DEF Whole
    <3> QED
      BY <3>2, <3>3, <3>4, <3>5 DEF Paired, Whole
  <2> QED
    BY <1>1, <2>1, <2>2
<1>3. Paired(c)
  BY <1>2 DEF Paired
<1>4. Whole(s) => Whole(c)
  <2>1. s # <<>> => c[1] = s[1]
    BY <1>1
  <2>2. s = <<>> /\ c # <<>> => c[1] = t[1] /\ t # <<>>
    BY <1>1
  <2> QED
    BY <1>3, <2>1, <2>2 DEF Whole
<1> QED
  BY <1>3, <1>4 DEF c

(* How many calls are still to count.                                      *)
LEMMA UncountedParts ==
  ASSUME NEW s \in Seq(CallRecords), NEW t \in Seq(CallRecords)
  PROVE  /\ IsFiniteSet(Uncounted(s)) /\ Cardinality(Uncounted(s)) \in Nat
         /\ Cardinality(Uncounted(s \o t)) = Cardinality(Uncounted(s)) + Cardinality(Uncounted(t))
         /\ s # <<>> => Cardinality(Uncounted(s)) = Cardinality(Uncounted(Tail(s)))
                          + (IF s[1].name = "count" THEN 1 ELSE 0)
<1> DEFINE kind == {c \in CallRecords : c.name = "count"}
<1>1. \A q \in Seq(CallRecords) : Uncounted(q) = Places(q, kind)
  <2> SUFFICES ASSUME NEW q \in Seq(CallRecords) PROVE Uncounted(q) = Places(q, kind)
    OBVIOUS
  <2>1. \A i \in DOMAIN q : q[i] \in CallRecords
    OBVIOUS
  <2> QED
    BY <2>1 DEF Uncounted, Places
<1>2. s # <<>> => Head(s) \in CallRecords /\ Head(s) = s[1] /\ Tail(s) \in Seq(CallRecords)
  OBVIOUS
<1>3. s # <<>> => (Head(s) \in kind <=> s[1].name = "count")
  BY <1>2
<1>4. s \o t \in Seq(CallRecords)
  OBVIOUS
<1> HIDE DEF kind
<1>5. /\ IsFiniteSet(Places(s, kind)) /\ Cardinality(Places(s, kind)) \in Nat
      /\ Cardinality(Places(s \o t, kind)) = Cardinality(Places(s, kind)) + Cardinality(Places(t, kind))
  BY PlacesFinite, PlacesConcat
<1>6. s # <<>> => Cardinality(Places(s, kind)) = Cardinality(Places(Tail(s), kind))
                          + (IF Head(s) \in kind THEN 1 ELSE 0)
  BY PlacesTail
<1> QED
  BY <1>1, <1>2, <1>3, <1>4, <1>5, <1>6

(* Calls that neither emit nor count.                                      *)
LEMMA PlainCalls ==
  ASSUME NEW name \in {"extract", "claimHop", "claimBlocked"}, NEW pages \in Seq(Requests)
  PROVE  /\ Calls(name, pages) \in Seq(CallRecords) /\ Whole(Calls(name, pages))
         /\ Cardinality(Uncounted(Calls(name, pages))) = 0
<1> DEFINE c == Calls(name, pages)
<1>1. /\ c \in Seq(CallRecords) /\ DOMAIN c = 1..Len(pages) /\ Len(pages) \in Nat
      /\ \A i \in 1..Len(pages) : c[i] = [name |-> name, page |-> pages[i]]
      /\ c # <<>> => 1 \in 1..Len(pages)
  BY CallsTyped DEF Calls
<1> HIDE DEF c
<1>2. \A i \in DOMAIN c : c[i].name = name
  BY <1>1
<1>3. Whole(c)
  BY <1>1, <1>2 DEF Whole, Paired
<1>4. Uncounted(c) = {}
  BY <1>2 DEF Uncounted
<1> QED
  BY <1>1, <1>3, <1>4, FS_EmptySet DEF c

(* A page handled is emitted once and counted once.                        *)
LEMMA HandledOnce ==
  ASSUME NEW r \in Requests
  PROVE  /\ handlePage(r) \in Seq(CallRecords) /\ handlePage(r) # <<>>
         /\ Whole(handlePage(r)) /\ Cardinality(Uncounted(handlePage(r))) = 1
<1> DEFINE n == Len(Links[r])
           m == Len(Blocked[r])
           h == handlePage(r)
<1>1. /\ n \in Nat /\ m \in Nat
      /\ h \in Seq(CallRecords) /\ Len(h) = n + 2 + m
      /\ \A i \in 1..n :
           h[i] = [name |-> "addLinks", page |-> r, links |-> Links[r][i]]
      /\ h[n + 1] = [name |-> "emitResult", page |-> r]
      /\ h[n + 2] = [name |-> "count", page |-> r]
      /\ \A i \in 1..m :
           h[n + 2 + i] = [name |-> "claimBlocked", page |-> Blocked[r][i]]
  BY HandlePageCalls, Zenon
<1> HIDE DEF n, m, h
<1>2. /\ n \in Nat /\ m \in Nat
      /\ h \in Seq(CallRecords) /\ DOMAIN h = 1..(n + 2 + m)
      /\ \A i \in 1..n : h[i].name = "addLinks"
      /\ h[n + 1].name = "emitResult"
      /\ h[n + 2].name = "count"
      /\ \A i \in 1..m : h[n + 2 + i].name = "claimBlocked"
  <2>1. DOMAIN h = 1..(n + 2 + m)
    BY <1>1
  <2>2. ASSUME NEW i \in 1..n PROVE h[i].name = "addLinks"
    <3>1. h[i] = [name |-> "addLinks", page |-> r, links |-> Links[r][i]]
      BY <1>1
    <3> QED
      BY <3>1
  <2>3. h[n + 1].name = "emitResult" /\ h[n + 2].name = "count"
    BY <1>1
  <2>4. ASSUME NEW i \in 1..m PROVE h[n + 2 + i].name = "claimBlocked"
    <3>1. h[n + 2 + i] = [name |-> "claimBlocked", page |-> Blocked[r][i]]
      BY <1>1
    <3> QED
      BY <3>1
  <2> QED
    BY <1>1, <2>1, <2>2, <2>3, <2>4
<1>3. \A i \in DOMAIN h : \/ i \in 1..n
                          \/ i = n + 1 \/ i = n + 2
                          \/ \E j \in 1..m : i = n + 2 + j
  <2> SUFFICES ASSUME NEW i \in DOMAIN h
               PROVE  i \in 1..n \/ i = n + 1 \/ i = n + 2 \/ \E j \in 1..m : i = n + 2 + j
    OBVIOUS
  <2>1. i \in Int /\ 1 <= i /\ i <= n + 2 + m
    BY <1>2
  <2>2. CASE i <= n + 2
    BY <1>2, <2>1, <2>2
  <2>3. CASE i > n + 2
    <3>1. i - (n + 2) \in 1..m /\ i = n + 2 + (i - (n + 2))
      BY <1>2, <2>1, <2>3
    <3> QED
      BY <3>1
  <2> QED
    BY <1>2, <2>1, <2>2, <2>3
<1>4. \A i \in DOMAIN h : /\ h[i].name = "emitResult" <=> i = n + 1
                          /\ h[i].name = "count" <=> i = n + 2
  <2> SUFFICES ASSUME NEW i \in DOMAIN h
               PROVE  /\ h[i].name = "emitResult" <=> i = n + 1
                      /\ h[i].name = "count" <=> i = n + 2
    OBVIOUS
  <2>1. CASE i \in 1..n
    BY <1>2, <2>1
  <2>2. CASE i = n + 1
    BY <1>2, <2>2
  <2>3. CASE i = n + 2
    BY <1>2, <2>3
  <2>4. ASSUME NEW j \in 1..m, i = n + 2 + j
        PROVE  h[i].name = "claimBlocked" /\ i # n + 1 /\ i # n + 2
    BY <1>2, <2>4
  <2> QED
    BY <1>3, <2>1, <2>2, <2>3, <2>4
<1>5. /\ n + 2 \in DOMAIN h /\ (n + 1) + 1 = n + 2 /\ (n + 2) - 1 = n + 1
      /\ 1 \in DOMAIN h /\ 1 # n + 2 /\ h # <<>>
  BY <1>2
<1>6. Paired(h)
  BY <1>2, <1>4, <1>5 DEF Paired
<1>7. h[1].name # "count"
  BY <1>4, <1>5
<1>8. Uncounted(h) = {n + 2}
  BY <1>4, <1>5 DEF Uncounted
<1>9. Cardinality(Uncounted(h)) = 1
  BY <1>8, FS_Singleton
<1> QED
  BY <1>1, <1>2, <1>5, <1>6, <1>7, <1>9 DEF Whole, h

(* So is a link that robots.txt blocks.                                    *)
LEMMA BlockedOnce ==
  ASSUME NEW r \in Requests
  PROVE  LET pair == Calls("emitResult", <<r>>) \o Calls("count", <<r>>) IN
         /\ pair \in Seq(CallRecords) /\ pair # <<>> /\ Len(pair) = 2
         /\ pair[1] = [name |-> "emitResult", page |-> r]
         /\ pair[2] = [name |-> "count", page |-> r]
         /\ Whole(pair) /\ Cardinality(Uncounted(pair)) = 1
<1> DEFINE E == Calls("emitResult", <<r>>)
           C == Calls("count", <<r>>)
           pair == E \o C
<1>1. <<r>> \in Seq(Requests) /\ Len(<<r>>) = 1 /\ <<r>>[1] = r
  OBVIOUS
<1>2. E \in Seq(CallRecords) /\ Len(E) = 1 /\ E[1] = [name |-> "emitResult", page |-> r]
  <2>1. /\ E \in Seq(CallRecords) /\ Len(E) = Len(<<r>>)
        /\ \A i \in 1..Len(<<r>>) : E[i] = [name |-> "emitResult", page |-> <<r>>[i]]
    BY <1>1, CallsTyped
  <2> QED
    BY <1>1, <2>1
<1>3. C \in Seq(CallRecords) /\ Len(C) = 1 /\ C[1] = [name |-> "count", page |-> r]
  <2>1. /\ C \in Seq(CallRecords) /\ Len(C) = Len(<<r>>)
        /\ \A i \in 1..Len(<<r>>) : C[i] = [name |-> "count", page |-> <<r>>[i]]
    BY <1>1, CallsTyped
  <2> QED
    BY <1>1, <2>1
<1> HIDE DEF E, C
<1>4. /\ pair \in Seq(CallRecords) /\ Len(pair) = 2 /\ DOMAIN pair = {1, 2}
      /\ pair[1] = E[1] /\ pair[2] = C[1] /\ pair # <<>>
  <2>1. /\ pair \in Seq(CallRecords) /\ Len(pair) = 1 + 1
        /\ \A i \in 1..1 : pair[i] = E[i]
        /\ \A i \in 1..1 : pair[1 + i] = C[i]
    BY <1>2, <1>3, ConcatElements
  <2> HIDE DEF pair
  <2> QED
    BY <2>1
<1> HIDE DEF pair
<1>5. pair[1].name = "emitResult" /\ pair[2].name = "count"
  BY <1>2, <1>3, <1>4
<1>6. Whole(pair)
  BY <1>4, <1>5 DEF Whole, Paired
<1>7. Uncounted(pair) = {2}
  BY <1>4, <1>5 DEF Uncounted
<1>8. Cardinality(Uncounted(pair)) = 1
  BY <1>7, FS_Singleton
<1> QED
  BY <1>2, <1>3, <1>4, <1>6, <1>8 DEF pair, E, C

(* And so is a page that was loaded.                                       *)
LEMMA LoadedOnce ==
  ASSUME NEW r \in Requests
  PROVE  /\ handleResponseData(r) \in Seq(CallRecords)
         /\ handleResponseData(r) # <<>> /\ handleResponseData(r)[1].name = "extract"
         /\ Paired(handleResponseData(r))
         /\ Cardinality(Uncounted(handleResponseData(r))) = 1
<1> DEFINE X == Calls("extract", <<r>>)
           H == handlePage(r)
           P == Calls("claimHop", Hops[r])
           XH == X \o H
<1>1. <<r>> \in Seq(Requests) /\ Len(<<r>>) = 1 /\ <<r>>[1] = r /\ Hops[r] \in Seq(Requests)
  BY PipelineAssumption
<1>2. X \in Seq(CallRecords) /\ Whole(X) /\ Cardinality(Uncounted(X)) = 0
  BY <1>1, PlainCalls
<1>3. P \in Seq(CallRecords) /\ Whole(P) /\ Cardinality(Uncounted(P)) = 0
  BY <1>1, PlainCalls
<1>4. H \in Seq(CallRecords) /\ Whole(H) /\ Cardinality(Uncounted(H)) = 1
  BY HandledOnce
<1>5. Len(X) = 1 /\ X[1].name = "extract"
  <2>1. /\ Len(X) = Len(<<r>>)
        /\ \A i \in 1..Len(<<r>>) : X[i] = [name |-> "extract", page |-> <<r>>[i]]
    BY <1>1, CallsTyped
  <2>2. X[1] = [name |-> "extract", page |-> <<r>>[1]]
    BY <1>1, <2>1
  <2> HIDE DEF X
  <2> QED
    BY <1>1, <2>1, <2>2
<1> HIDE DEF X, H, P
<1>6. /\ XH \in Seq(CallRecords) /\ Whole(XH) /\ Cardinality(Uncounted(XH)) = 1
      /\ Len(XH) >= 1 /\ XH[1].name = "extract"
  <2>1. XH \in Seq(CallRecords) /\ Len(XH) = 1 + Len(H) /\ Len(H) \in Nat /\ XH[1] = X[1]
    <3>1. /\ XH \in Seq(CallRecords) /\ Len(XH) = Len(X) + Len(H) /\ Len(H) \in Nat
          /\ \A i \in 1..Len(X) : XH[i] = X[i]
      BY <1>2, <1>4, ConcatElements
    <3> HIDE DEF XH
    <3> QED
      BY <1>5, <3>1
  <2>2. Whole(XH)
    BY <1>2, <1>4, PairedConcat DEF Whole
  <2>3. Cardinality(Uncounted(XH)) = 1
    BY <1>2, <1>4, UncountedParts
  <2> HIDE DEF XH
  <2> QED
    BY <1>5, <2>1, <2>2, <2>3
<1> HIDE DEF XH
<1>7. XH \o P \in Seq(CallRecords) /\ XH \o P # <<>> /\ (XH \o P)[1] = XH[1]
  BY <1>3, <1>6
<1>8. Paired(XH \o P)
  BY <1>3, <1>6, PairedConcat DEF Whole
<1>9. Cardinality(Uncounted(XH \o P)) = 1
  BY <1>3, <1>6, UncountedParts
<1>10. handleResponseData(r) = XH \o P
  <2>1. handleResponseData(r) = (X \o H) \o P
    BY DEF handleResponseData, X, H, P
  <2> QED
    BY <2>1 DEF XH
<1> QED
  BY <1>6, <1>7, <1>8, <1>9, <1>10

(***************************************************************************)
(* The state before the data is first cleared.                             *)
(***************************************************************************)

(* What a worker goes on with after a call.                                *)
LEMMA ContinueOnce ==
  ASSUME WorkerShape, NEW w \in Workers, job[w] # NoJob, Paired(job[w].calls),
         NEW calls \in Seq(CallRecords), Whole(calls), Continue(w, calls),
         calls # <<>> => Head(job[w].calls).name # "emitResult"
  PROVE  /\ \A v \in Workers : v # w => job'[v] = job[v]
         /\ job'[w] = NoJob \/ job'[w].turn = job[w].turn
         /\ job'[w].calls = calls \o Tail(job[w].calls)
         /\ Paired(job'[w].calls)
         /\ Cardinality(Uncounted(job'[w].calls)) + (IF Call(w, "count") THEN 1 ELSE 0)
              = Cardinality(Uncounted(job[w].calls)) + Cardinality(Uncounted(calls))
         /\ Cardinality(Uncounted(calls)) \in Nat
         /\ Call(w, "count")' <=> Call(w, "emitResult")
<1> DEFINE q == job[w].calls
           t == Tail(q)
           rest == calls \o t
<1>1. job \in [Workers -> [turn : Int, calls : Seq(CallRecords)]] /\ q \in Seq(CallRecords) /\ q # <<>>
  BY DEF WorkerShape
<1>2. /\ t \in Seq(CallRecords) /\ Paired(t) /\ Head(q) = q[1]
      /\ q[1].name = "emitResult" => t # <<>> /\ t[1].name = "count"
      /\ q[1].name # "emitResult" => Whole(t)
  BY <1>1, PairedTail
<1>3. rest \in Seq(CallRecords) /\ (calls = <<>> => rest = t)
      /\ (calls # <<>> => rest # <<>> /\ rest[1] = calls[1])
      /\ (t # <<>> => rest # <<>>)
  <2>1. t \in Seq(CallRecords)
    BY <1>2
  <2>2. /\ rest \in Seq(CallRecords) /\ Len(rest) = Len(calls) + Len(t)
        /\ Len(calls) \in Nat /\ Len(t) \in Nat
        /\ \A i \in 1..Len(calls) : rest[i] = calls[i]
    BY <2>1, ConcatElements
  <2>3. calls = <<>> => rest = t
    BY <2>1
  <2>3a. calls # <<>> <=> Len(calls) > 0
    OBVIOUS
  <2> HIDE DEF t, rest
  <2>4. (calls # <<>> <=> Len(calls) > 0) /\ (t # <<>> <=> Len(t) > 0)
    BY <2>1, <2>3a
  <2>5. rest # <<>> <=> Len(rest) > 0
    BY <2>2
  <2> QED
    BY <2>2, <2>3, <2>4, <2>5
<1>4. /\ Cardinality(Uncounted(rest)) = Cardinality(Uncounted(calls)) + Cardinality(Uncounted(t))
      /\ Cardinality(Uncounted(calls)) \in Nat /\ Cardinality(Uncounted(t)) \in Nat
  BY <1>2, UncountedParts
<1>5. Cardinality(Uncounted(q)) = Cardinality(Uncounted(t)) + (IF q[1].name = "count" THEN 1 ELSE 0)
  BY <1>1, UncountedParts
<1>6. Paired(rest)
  <2>1. CASE calls = <<>>
    BY <1>2, <1>3, <2>1
  <2>2. CASE calls # <<>>
    BY <1>2, <2>2, PairedConcat DEF Whole
  <2> QED
    BY <2>1, <2>2
<1>7. job' = [job EXCEPT ![w] = IF rest = <<>> THEN NoJob ELSE [turn |-> job[w].turn, calls |-> rest]]
  BY DEF Continue
<1>8. /\ Call(w, "count") <=> q[1].name = "count"
      /\ Call(w, "emitResult") <=> q[1].name = "emitResult"
  BY <1>2 DEF Call
<1> HIDE DEF q, t, rest
<1>9. /\ \A v \in Workers : v # w => job'[v] = job[v]
      /\ job'[w] = IF rest = <<>> THEN NoJob ELSE [turn |-> job[w].turn, calls |-> rest]
  BY <1>1, <1>7
<1>10. job'[w].calls = rest /\ (job'[w] = NoJob \/ job'[w].turn = job[w].turn)
  BY <1>9 DEF NoJob
<1>11. job'[w] = NoJob <=> rest = <<>>
  BY <1>9, <1>10 DEF NoJob
<1>12. Call(w, "count")' <=> rest # <<>> /\ rest[1].name = "count"
  <2>1. Call(w, "count")' <=> job'[w] # NoJob /\ Head(job'[w].calls).name = "count"
    BY DEF Call
  <2>2. rest # <<>> => Head(rest) = rest[1]
    BY <1>3
  <2> QED
    BY <1>10, <1>11, <2>1, <2>2
<1>13. rest # <<>> /\ rest[1].name = "count" <=> q[1].name = "emitResult"
  <2>1. CASE q[1].name = "emitResult"
    BY <1>2, <1>3, <2>1 DEF q
  <2>2. CASE q[1].name # "emitResult"
    <3>1. CASE calls = <<>>
      BY <1>2, <1>3, <2>2, <3>1 DEF Whole
    <3>2. CASE calls # <<>>
      BY <1>3, <2>2, <3>2 DEF Whole
    <3> QED
      BY <3>1, <3>2
  <2> QED
    BY <2>1, <2>2
<1> QED
  <2>1. /\ Cardinality(Uncounted(rest)) + (IF Call(w, "count") THEN 1 ELSE 0)
             = Cardinality(Uncounted(q)) + Cardinality(Uncounted(calls))
    BY <1>4, <1>5, <1>8
  <2>2. Call(w, "count")' <=> Call(w, "emitResult")
    BY <1>8, <1>12, <1>13
  <2>3. \A v \in Workers : v # w => job'[v] = job[v]
    BY <1>9
  <2> QED
    BY <1>4, <1>6, <1>10, <2>1, <2>2, <2>3 DEF q, t, rest

(* The downloads, answers, results and pages of the first turn.            *)
FirstLoads == {d \in Downloads : d.turn = 0}
FirstAnswers == [event : {"pageLoaded"}, load : FirstLoads]
FirstResults == {e \in ModelEvents : e.event = "result" /\ e.turn = 0}
FirstPages == {e \in MainEvents : e.event = "added" /\ e.turn = 0}

(* The calls of start, which belong to no page.                            *)
ExtractsOnly(calls) == \A i \in DOMAIN calls : calls[i].name = "extract"

(* A worker that has only the first turn's pages to handle.                *)
FirstWorker(w) ==
  /\ EventsAt(workerQueue[w], "clear") = {}
  /\ IsFiniteSet(inFlight[w]) /\ inFlight[w] \subseteq FirstLoads
  /\ \A load \in inFlight[w] : load.page \in crawledUrlList
  /\ Within(workerQueue[w], "pageLoaded", FirstAnswers)
  /\ job[w].turn = 0 \/ ExtractsOnly(job[w].calls)
  /\ Paired(job[w].calls)

(* The queues of the model and of the main thread hold only those, and the *)
(* model has only such a page in hand.                                     *)
FirstQueues ==
  /\ Within(modelQueue, "result", FirstResults)
  /\ modelPc # Idle => modelPc.turn = 0
  /\ EventsAt(mainQueue, "cleared") = {}
  /\ Within(mainQueue, "added", FirstPages)

(* Nothing is of another turn, and nothing clears.                         *)
FirstTurn ==
  /\ turnaround = 0 /\ ~Clearing
  /\ \A w \in Workers : FirstWorker(w)
  /\ FirstQueues

(* Pages a worker has taken and not counted.                               *)
Taken(w) ==
  Cardinality(inFlight[w]) + Cardinality(Answers(workerQueue[w]))
    + Cardinality(Uncounted(job[w].calls))

(* The workers between the result of a page and its counter.               *)
CountsDue == {w \in Workers : Call(w, "count")}

(* The answers of a queue that grows and is served.                        *)
LEMMA AnswersCount ==
  ASSUME NEW q \in Seq(WorkerEvents)
  PROVE  /\ IsFiniteSet(Answers(q)) /\ Cardinality(Answers(q)) \in Nat
         /\ \A e \in WorkerEvents :
              Cardinality(Answers(Append(q, e)))
                = Cardinality(Answers(q)) + (IF e.event = "pageLoaded" THEN 1 ELSE 0)
         /\ q # <<>> => Cardinality(Answers(q))
              = Cardinality(Answers(Tail(q))) + (IF Head(q).event = "pageLoaded" THEN 1 ELSE 0)
<1>1. IsFiniteSet(Answers(q)) /\ Cardinality(Answers(q)) \in Nat
  <2>1. Len(q) \in Nat /\ Answers(q) \subseteq 1..Len(q)
    BY DEF Answers, EventsAt
  <2>2. IsFiniteSet(1..Len(q))
    BY <2>1, FS_Interval
  <2> QED
    BY <2>1, <2>2, FS_Subset, FS_CardinalityType
<1>2. ASSUME NEW e \in WorkerEvents
      PROVE  Cardinality(Answers(Append(q, e)))
                = Cardinality(Answers(q)) + (IF e.event = "pageLoaded" THEN 1 ELSE 0)
  <2>1. Counted(Append(q, e), "pageLoaded")
              = Counted(q, "pageLoaded") + (IF e.event = "pageLoaded" THEN 1 ELSE 0)
    BY EventsAppend
  <2> QED
    BY <2>1 DEF Counted, Answers
<1>3. ASSUME q # <<>>
      PROVE  Cardinality(Answers(q))
              = Cardinality(Answers(Tail(q))) + (IF Head(q).event = "pageLoaded" THEN 1 ELSE 0)
  <2>1. Counted(q, "pageLoaded")
              = Counted(Tail(q), "pageLoaded") + (IF Head(q).event = "pageLoaded" THEN 1 ELSE 0)
    BY <1>3, EventsTail
  <2> QED
    BY <2>1 DEF Counted, Answers
<1> QED
  BY <1>1, <1>2, <1>3

(* A worker's part in what is under way has a size.                        *)
LEMMA TakenTyped ==
  ASSUME WorkerShape, NEW w \in Workers, IsFiniteSet(inFlight[w])
  PROVE  /\ IsFiniteSet(Answers(workerQueue[w])) /\ Cardinality(Answers(workerQueue[w])) \in Nat
         /\ IsFiniteSet(Uncounted(job[w].calls)) /\ Cardinality(Uncounted(job[w].calls)) \in Nat
         /\ Cardinality(inFlight[w]) \in Nat
<1>1. workerQueue[w] \in Seq(WorkerEvents) /\ job[w].calls \in Seq(CallRecords)
  BY DEF WorkerShape
<1> QED
  BY <1>1, AnswersCount, UncountedParts, FS_CardinalityType

(* A step of others leaves a worker as it is.                              *)
LEMMA OtherWorker ==
  ASSUME NEW v \in Workers, FirstWorker(v), crawledUrlList \subseteq crawledUrlList',
         inFlight'[v] = inFlight[v], workerQueue'[v] = workerQueue[v], job'[v] = job[v]
  PROVE  FirstWorker(v)' /\ Answers(workerQueue'[v]) = Answers(workerQueue[v])
BY DEF FirstWorker, Within, EventsAt, FirstLoads, FirstAnswers, Paired, ExtractsOnly

(* What one worker's step changes of the sums over all workers.            *)
LEMMA OneWorker ==
  ASSUME WorkerShape, WorkerShape', NEW w \in Workers,
         \A v \in Workers : FirstWorker(v), \A v \in Workers : FirstWorker(v)',
         \A v \in Workers : v # w =>
           /\ inFlight'[v] = inFlight[v] /\ job'[v] = job[v]
           /\ Answers(workerQueue'[v]) = Answers(workerQueue[v])
  PROVE  /\ InHand \in Nat /\ InHand' \in Nat /\ Taken(w) \in Nat /\ Taken(w)' \in Nat
         /\ InHand' + Taken(w) = InHand + Taken(w)'
         /\ Cardinality(CountsDue) \in Nat /\ Cardinality(CountsDue)' \in Nat
         /\ Cardinality(CountsDue)' + (IF Call(w, "count") THEN 1 ELSE 0)
              = Cardinality(CountsDue) + (IF Call(w, "count")' THEN 1 ELSE 0)
<1>2. /\ \A v \in Workers : IsFiniteSet(inFlight[v])
      /\ \A v \in Workers : IsFiniteSet(inFlight'[v])
  BY DEF FirstWorker
<1> DEFINE A == [v \in Workers |-> Answers(workerQueue[v])]
           U == [v \in Workers |-> Uncounted(job[v].calls)]
           Ap == [v \in Workers |-> Answers(workerQueue'[v])]
           Up == [v \in Workers |-> Uncounted(job'[v].calls)]
<1>3. \A v \in Workers : /\ IsFiniteSet(A[v]) /\ IsFiniteSet(U[v])
                         /\ IsFiniteSet(Ap[v]) /\ IsFiniteSet(Up[v])
  <2> SUFFICES ASSUME NEW v \in Workers
               PROVE  /\ IsFiniteSet(A[v]) /\ IsFiniteSet(U[v])
                      /\ IsFiniteSet(Ap[v]) /\ IsFiniteSet(Up[v])
    OBVIOUS
  <2>1. /\ workerQueue[v] \in Seq(WorkerEvents) /\ job[v].calls \in Seq(CallRecords)
        /\ workerQueue'[v] \in Seq(WorkerEvents) /\ job'[v].calls \in Seq(CallRecords)
    BY DEF WorkerShape
  <2>2. IsFiniteSet(Answers(workerQueue[v])) /\ IsFiniteSet(Answers(workerQueue'[v]))
    BY <2>1, AnswersCount
  <2>3. IsFiniteSet(Uncounted(job[v].calls)) /\ IsFiniteSet(Uncounted(job'[v].calls))
    BY <2>1, UncountedParts
  <2> QED
    BY <2>2, <2>3
<1>4. \A v \in Workers : v # w => Ap[v] = A[v] /\ Up[v] = U[v]
  OBVIOUS
<1>5. /\ InHand = SizeOf(inFlight) + SizeOf(A) + SizeOf(U)
      /\ InHand' = SizeOf(inFlight') + SizeOf(Ap) + SizeOf(Up)
  BY DEF InHand
<1>6. /\ Taken(w) = Cardinality(inFlight[w]) + Cardinality(A[w]) + Cardinality(U[w])
      /\ Taken(w)' = Cardinality(inFlight'[w]) + Cardinality(Ap[w]) + Cardinality(Up[w])
  BY DEF Taken
<1> HIDE DEF A, U, Ap, Up
<1>7. /\ SizeOf(inFlight) \in Nat /\ SizeOf(inFlight') \in Nat
      /\ Cardinality(inFlight[w]) \in Nat /\ Cardinality(inFlight'[w]) \in Nat
      /\ SizeOf(inFlight') + Cardinality(inFlight[w]) = SizeOf(inFlight) + Cardinality(inFlight'[w])
  BY <1>2, SizeOfChange
<1>8. /\ SizeOf(A) \in Nat /\ SizeOf(Ap) \in Nat
      /\ Cardinality(A[w]) \in Nat /\ Cardinality(Ap[w]) \in Nat
      /\ SizeOf(Ap) + Cardinality(A[w]) = SizeOf(A) + Cardinality(Ap[w])
  BY <1>3, <1>4, SizeOfChange
<1>9. /\ SizeOf(U) \in Nat /\ SizeOf(Up) \in Nat
      /\ Cardinality(U[w]) \in Nat /\ Cardinality(Up[w]) \in Nat
      /\ SizeOf(Up) + Cardinality(U[w]) = SizeOf(U) + Cardinality(Up[w])
  BY <1>3, <1>4, SizeOfChange
<1>10. /\ InHand \in Nat /\ InHand' \in Nat /\ Taken(w) \in Nat /\ Taken(w)' \in Nat
       /\ InHand' + Taken(w) = InHand + Taken(w)'
  BY <1>5, <1>6, <1>7, <1>8, <1>9
<1> DEFINE D == CountsDue
           Dp == CountsDue'
           R == D \ {w}
<1>11. /\ D = IF Call(w, "count") THEN R \union {w} ELSE R
       /\ Dp = IF Call(w, "count")' THEN R \union {w} ELSE R
  <2>1. \A v \in Workers : v # w => (Call(v, "count")' <=> Call(v, "count"))
    BY DEF Call
  <2> QED
    BY <2>1 DEF CountsDue
<1>12. IsFiniteSet(R) /\ w \notin R
  BY WorkersFinite, FS_Subset DEF CountsDue
<1>13. Cardinality(R) \in Nat /\ Cardinality(R \union {w}) = Cardinality(R) + 1
  BY <1>12, FS_CardinalityType, FS_AddElement
<1> HIDE DEF R
<1>14. /\ Cardinality(D) = Cardinality(R) + (IF Call(w, "count") THEN 1 ELSE 0)
       /\ Cardinality(Dp) = Cardinality(R) + (IF Call(w, "count")' THEN 1 ELSE 0)
  BY <1>11, <1>13
<1>15. /\ Cardinality(D) \in Nat /\ Cardinality(Dp) \in Nat
       /\ Cardinality(Dp) + (IF Call(w, "count") THEN 1 ELSE 0)
            = Cardinality(D) + (IF Call(w, "count")' THEN 1 ELSE 0)
  BY <1>13, <1>14
<1> QED
  BY <1>10, <1>15

(* The store's methods, where it is consistent.                            *)
LEMMA StoreCounts ==
  ASSUME StoreInv, NEW r \in Requests
  PROVE  /\ \A urls : addUrlList(urls) => UNCHANGED <<crawledUrlList, downloaderCrawledLinksCount>>
         /\ activeRequestReceived(r) => UNCHANGED <<crawledUrlList, downloaderCrawledLinksCount>>
         /\ extractUrl(r) =>
              /\ r \notin crawledUrlList /\ crawledUrlList' = crawledUrlList \union {r}
              /\ downloaderCrawledLinksCount' = downloaderCrawledLinksCount + 1
         /\ addCrawledUrl(r) =>
              /\ crawledUrlList \subseteq crawledUrlList'
              /\ downloaderCrawledLinksCount' =
                   downloaderCrawledLinksCount + (IF addCrawledUrlReturns(r) THEN 1 ELSE 0)
              /\ addCrawledUrlReturns(r) => r \in crawledUrlList'
<1>1. /\ pendingUrlList \intersect crawledUrlList = {}
      /\ downloaderCrawledLinksCount = Cardinality(crawledUrlList)
      /\ IsFiniteSet(crawledUrlList) /\ Cardinality(crawledUrlList) \in Nat
  BY ListsFinite DEF StoreInv, ListsConsistent, CountersExact
<1>2. r \notin crawledUrlList => Cardinality(crawledUrlList \union {r}) = Cardinality(crawledUrlList) + 1
  BY <1>1, FS_AddElement
<1>3. \A urls : addUrlList(urls) => UNCHANGED <<crawledUrlList, downloaderCrawledLinksCount>>
  BY DEF addUrlList
<1>4. activeRequestReceived(r) => UNCHANGED <<crawledUrlList, downloaderCrawledLinksCount>>
  BY DEF activeRequestReceived, counterVars
<1>5. ASSUME extractUrl(r)
      PROVE  /\ r \notin crawledUrlList /\ crawledUrlList' = crawledUrlList \union {r}
             /\ downloaderCrawledLinksCount' = downloaderCrawledLinksCount + 1
  <2>1. r \notin crawledUrlList /\ crawledUrlList' = crawledUrlList \union {r}
    BY <1>1, <1>5 DEF extractUrl
  <2>2. downloaderCrawledLinksCount' = Cardinality(crawledUrlList')
    <3>1. downloaderCrawledLinksCount'
            = IncrementGuardExt(downloaderCrawledLinksCount, crawledUrlList, crawledUrlList')
      BY <1>5 DEF extractUrl
    <3>2. IncrementGuardExt(Cardinality(crawledUrlList), crawledUrlList, crawledUrlList \union {r})
            = Cardinality(crawledUrlList \union {r})
      BY <1>1, GuardFollows
    <3> QED
      BY <1>1, <2>1, <3>1, <3>2, Zenon
  <2> QED
    BY <1>1, <1>2, <2>1, <2>2
<1>6. ASSUME addCrawledUrl(r)
      PROVE  /\ crawledUrlList \subseteq crawledUrlList'
             /\ downloaderCrawledLinksCount' =
                  downloaderCrawledLinksCount + (IF addCrawledUrlReturns(r) THEN 1 ELSE 0)
             /\ addCrawledUrlReturns(r) => r \in crawledUrlList'
  <2>1. crawledUrlList' = IF LimitReached THEN crawledUrlList ELSE crawledUrlList \union {r}
    BY <1>6 DEF addCrawledUrl
  <2>2. downloaderCrawledLinksCount' = Cardinality(crawledUrlList')
    <3>1. downloaderCrawledLinksCount'
            = IncrementGuardExt(downloaderCrawledLinksCount, crawledUrlList, crawledUrlList')
      BY <1>6 DEF addCrawledUrl
    <3>2. /\ IncrementGuardExt(Cardinality(crawledUrlList), crawledUrlList, crawledUrlList \union {r})
                = Cardinality(crawledUrlList \union {r})
          /\ IncrementGuardExt(Cardinality(crawledUrlList), crawledUrlList, crawledUrlList)
                = Cardinality(crawledUrlList)
      BY <1>1, GuardFollows
    <3>3. CASE LimitReached
      <4>1. crawledUrlList' = crawledUrlList
        BY <2>1, <3>3
      <4> QED
        BY <1>1, <3>1, <3>2, <4>1, Zenon
    <3>4. CASE ~LimitReached
      <4>1. crawledUrlList' = crawledUrlList \union {r}
        BY <2>1, <3>4
      <4> QED
        BY <1>1, <3>1, <3>2, <4>1, Zenon
    <3> QED
      BY <3>3, <3>4
  <2>3. addCrawledUrlReturns(r) <=> ~LimitReached /\ r \notin crawledUrlList
    BY <1>1 DEF addCrawledUrlReturns
  <2>4. CASE LimitReached
    BY <1>1, <2>1, <2>2, <2>3, <2>4
  <2>5. CASE ~LimitReached /\ r \in crawledUrlList
    <3>1. crawledUrlList' = crawledUrlList
      BY <2>1, <2>5
    <3> QED
      BY <1>1, <2>2, <2>3, <2>5, <3>1
  <2>6. CASE ~LimitReached /\ r \notin crawledUrlList
    <3>1. crawledUrlList' = crawledUrlList \union {r}
      BY <2>1, <2>6
    <3>2. downloaderCrawledLinksCount' = downloaderCrawledLinksCount + 1
      BY <1>1, <1>2, <2>2, <2>6, <3>1
    <3> QED
      BY <2>3, <2>6, <3>1, <3>2
  <2> QED
    BY <2>4, <2>5, <2>6
<1> QED
  BY <1>3, <1>4, <1>5, <1>6

(***************************************************************************)
(* The three balances.                                                     *)
(***************************************************************************)

TakenBalance == downloaderCrawledLinksCount = workersProcessedLinksCount + InHand
CountedBalance ==
  workersProcessedLinksCount + Cardinality(CountsDue)
    = modelControllerCrawledLinksCount + Counted(modelQueue, "result")
        + (IF modelPc # Idle THEN 1 ELSE 0)
ShownBalance ==
  modelControllerAcceptedLinksCount + (IF modelPc.call = "accept" THEN 1 ELSE 0)
    = sequencedDataCollectionLinksCount + Counted(mainQueue, "added")
Balanced == TakenBalance /\ CountedBalance /\ ShownBalance

(* The events of a queue are finitely many.                                *)
LEMMA CountedTyped ==
  ASSUME NEW T, NEW q \in Seq(T), NEW name
  PROVE  Counted(q, name) \in Nat
<1>1. Len(q) \in Nat /\ EventsAt(q, name) \subseteq 1..Len(q)
  BY DEF EventsAt
<1>2. IsFiniteSet(1..Len(q))
  BY <1>1, FS_Interval
<1> QED
  BY <1>1, <1>2, FS_Subset, FS_CardinalityType DEF Counted

(* A step keeps the balances when what it adds to either side of one is    *)
(* the same.                                                               *)
LEMMA StepBalanced ==
  ASSUME PipelineTypeOK, PipelineTypeOK', FirstTurn, Balanced, NEW w \in Workers,
         \A v \in Workers : FirstWorker(v)',
         \A v \in Workers : v # w =>
           /\ inFlight'[v] = inFlight[v] /\ job'[v] = job[v]
           /\ Answers(workerQueue'[v]) = Answers(workerQueue[v]),
         turnaround' = turnaround, ~Clearing', FirstQueues',
         downloaderCrawledLinksCount' + workersProcessedLinksCount + Taken(w)
           = downloaderCrawledLinksCount + workersProcessedLinksCount' + Taken(w)',
         workersProcessedLinksCount' + (IF Call(w, "count")' THEN 1 ELSE 0)
             + modelControllerCrawledLinksCount + Counted(modelQueue, "result")
             + (IF modelPc # Idle THEN 1 ELSE 0)
           = workersProcessedLinksCount + (IF Call(w, "count") THEN 1 ELSE 0)
               + modelControllerCrawledLinksCount' + Counted(modelQueue', "result")
               + (IF modelPc' # Idle THEN 1 ELSE 0),
         ShownBalance'
  PROVE  FirstTurn' /\ Balanced'
<1>1. /\ {workersProcessedLinksCount, modelControllerCrawledLinksCount,
          workersProcessedLinksCount', modelControllerCrawledLinksCount'} \subseteq Nat
      /\ downloaderCrawledLinksCount \in Int /\ downloaderCrawledLinksCount' \in Int
      /\ WorkerShape /\ WorkerShape'
      /\ modelQueue \in Seq(ModelEvents) /\ modelQueue' \in Seq(ModelEvents)
  BY DEF PipelineTypeOK, StoreShape, ModelShape
<1>2. Counted(modelQueue, "result") \in Nat /\ Counted(modelQueue', "result") \in Nat
  BY <1>1, CountedTyped
<1>3. /\ InHand \in Nat /\ InHand' \in Nat /\ Taken(w) \in Nat /\ Taken(w)' \in Nat
      /\ InHand' + Taken(w) = InHand + Taken(w)'
      /\ Cardinality(CountsDue) \in Nat /\ Cardinality(CountsDue)' \in Nat
      /\ Cardinality(CountsDue)' + (IF Call(w, "count") THEN 1 ELSE 0)
           = Cardinality(CountsDue) + (IF Call(w, "count")' THEN 1 ELSE 0)
  BY <1>1, OneWorker DEF FirstTurn
<1>4. FirstTurn'
  BY DEF FirstTurn
<1>5. TakenBalance'
  <2>2. downloaderCrawledLinksCount = workersProcessedLinksCount + InHand
    BY DEF TakenBalance, Balanced
  <2>3. /\ workersProcessedLinksCount \in Int /\ workersProcessedLinksCount' \in Int
        /\ InHand \in Int /\ InHand' \in Int /\ Taken(w) \in Int /\ Taken(w)' \in Int
        /\ downloaderCrawledLinksCount \in Int /\ downloaderCrawledLinksCount' \in Int
        /\ InHand' + Taken(w) = InHand + Taken(w)'
        /\ downloaderCrawledLinksCount' + workersProcessedLinksCount + Taken(w)
             = downloaderCrawledLinksCount + workersProcessedLinksCount' + Taken(w)'
    BY <1>1, <1>3
  <2>4. downloaderCrawledLinksCount' = workersProcessedLinksCount' + InHand'
    <3> DEFINE t == Taken(w)
               k == Taken(w)'
               h == InHand
               i == InHand'
               d == downloaderCrawledLinksCount
               e == downloaderCrawledLinksCount'
               u == workersProcessedLinksCount
               v == workersProcessedLinksCount'
    <3>1. /\ t \in Int /\ k \in Int /\ h \in Int /\ i \in Int
          /\ d \in Int /\ e \in Int /\ u \in Int /\ v \in Int
          /\ d = u + h /\ i + t = h + k /\ e + u + t = d + v + k
      BY <2>2, <2>3
    <3> HIDE DEF t, k, h, i, d, e, u, v
    <3>2. e = v + i
      BY <3>1
    <3> QED
      BY <3>2 DEF e, v, i
  <2> QED
    BY <2>4 DEF TakenBalance
<1>6. CountedBalance'
  <2> DEFINE p == IF modelPc # Idle THEN 1 ELSE 0
             pp == IF modelPc' # Idle THEN 1 ELSE 0
             c == IF Call(w, "count") THEN 1 ELSE 0
             cp == IF Call(w, "count")' THEN 1 ELSE 0
             u == workersProcessedLinksCount
             v == workersProcessedLinksCount'
             m == modelControllerCrawledLinksCount
             n == modelControllerCrawledLinksCount'
             d == Cardinality(CountsDue)
             e == Cardinality(CountsDue)'
             q == Counted(modelQueue, "result")
             r == Counted(modelQueue', "result")
  <2>1. p \in Int /\ pp \in Int /\ c \in Int /\ cp \in Int
    OBVIOUS
  <2>2. u \in Int /\ v \in Int /\ m \in Int /\ n \in Int
        /\ d \in Int /\ e \in Int /\ q \in Int /\ r \in Int
    BY <1>1, <1>2, <1>3
  <2>3. u + d = m + q + p
    BY DEF Balanced, CountedBalance
  <2>4. e + c = d + cp
    BY <1>3
  <2>5. v + cp + m + q + p = u + c + n + r + pp
    OBVIOUS
  <2> HIDE DEF p, pp, c, cp, u, v, m, n, d, e, q, r
  <2>6. v + e = n + r + pp
    BY <2>1, <2>2, <2>3, <2>4, <2>5
  <2> QED
    BY <2>6 DEF CountedBalance, v, e, n, r, pp
<1> QED
  BY <1>4, <1>5, <1>6 DEF Balanced

(* The same where the model and the main thread do nothing.                *)
LEMMA WorkerBalanced ==
  ASSUME PipelineTypeOK, PipelineTypeOK', FirstTurn, Balanced, NEW w \in Workers, FirstWorker(w)',
         \A v \in Workers : v # w =>
           inFlight'[v] = inFlight[v] /\ workerQueue'[v] = workerQueue[v] /\ job'[v] = job[v],
         crawledUrlList \subseteq crawledUrlList',
         mainPc' = mainPc, mainQueue' = mainQueue, modelPc' = modelPc, turnaround' = turnaround,
         modelControllerCrawledLinksCount' = modelControllerCrawledLinksCount,
         modelControllerAcceptedLinksCount' = modelControllerAcceptedLinksCount,
         sequencedDataCollectionLinksCount' = sequencedDataCollectionLinksCount,
         Within(modelQueue', "result", FirstResults),
         downloaderCrawledLinksCount' + workersProcessedLinksCount + Taken(w)
           = downloaderCrawledLinksCount + workersProcessedLinksCount' + Taken(w)',
         workersProcessedLinksCount' + (IF Call(w, "count")' THEN 1 ELSE 0) + Counted(modelQueue, "result")
           = workersProcessedLinksCount + (IF Call(w, "count") THEN 1 ELSE 0) + Counted(modelQueue', "result")
  PROVE  FirstTurn' /\ Balanced'
<1>1. \A v \in Workers : FirstWorker(v)'
                        /\ (v # w => Answers(workerQueue'[v]) = Answers(workerQueue[v]))
  <2> SUFFICES ASSUME NEW v \in Workers, v # w
               PROVE  FirstWorker(v)' /\ Answers(workerQueue'[v]) = Answers(workerQueue[v])
    OBVIOUS
  <2>1. FirstWorker(v) /\ inFlight'[v] = inFlight[v] /\ workerQueue'[v] = workerQueue[v]
        /\ job'[v] = job[v]
    BY DEF FirstTurn
  <2> QED
    BY <2>1, OtherWorker
<1>2. ~Clearing'
  BY DEF FirstTurn, Clearing
<1>3. FirstQueues'
  BY DEF FirstTurn, FirstQueues, Idle, FirstPages, FirstResults
<1>4. ShownBalance'
  BY DEF Balanced, ShownBalance
<1>5. /\ {workersProcessedLinksCount, modelControllerCrawledLinksCount, workersProcessedLinksCount'}
           \subseteq Nat
      /\ modelQueue \in Seq(ModelEvents) /\ modelQueue' \in Seq(ModelEvents)
  BY DEF PipelineTypeOK, ModelShape
<1>6. Counted(modelQueue, "result") \in Nat /\ Counted(modelQueue', "result") \in Nat
  BY <1>5, CountedTyped
<1>7. workersProcessedLinksCount' + (IF Call(w, "count")' THEN 1 ELSE 0)
             + modelControllerCrawledLinksCount + Counted(modelQueue, "result")
             + (IF modelPc # Idle THEN 1 ELSE 0)
           = workersProcessedLinksCount + (IF Call(w, "count") THEN 1 ELSE 0)
               + modelControllerCrawledLinksCount' + Counted(modelQueue', "result")
               + (IF modelPc' # Idle THEN 1 ELSE 0)
  <2> DEFINE P == IF modelPc # Idle THEN 1 ELSE 0
             C == IF Call(w, "count") THEN 1 ELSE 0
             Cp == IF Call(w, "count")' THEN 1 ELSE 0
  <2>1. P \in Nat /\ C \in Nat /\ Cp \in Nat
        /\ P = (IF modelPc' # Idle THEN 1 ELSE 0)
    BY DEF Idle
  <2>2. workersProcessedLinksCount' + Cp + Counted(modelQueue, "result")
          = workersProcessedLinksCount + C + Counted(modelQueue', "result")
    OBVIOUS
  <2> HIDE DEF P, C, Cp
  <2>a. \A v, cp, m, q, p, u, c, r \in Int :
          v + cp + q = u + c + r => v + cp + m + q + p = u + c + m + r + p
    OBVIOUS
  <2>b. /\ workersProcessedLinksCount \in Int /\ workersProcessedLinksCount' \in Int
        /\ modelControllerCrawledLinksCount \in Int
        /\ Counted(modelQueue, "result") \in Int /\ Counted(modelQueue', "result") \in Int
        /\ P \in Int /\ C \in Int /\ Cp \in Int
    BY <1>5, <1>6, <2>1
  <2>3. workersProcessedLinksCount' + Cp + modelControllerCrawledLinksCount
          + Counted(modelQueue, "result") + P
        = workersProcessedLinksCount + C + modelControllerCrawledLinksCount
          + Counted(modelQueue', "result") + P
    BY <2>a, <2>b, <2>2
  <2> QED
    BY <2>1, <2>3 DEF P, C, Cp
<1> QED
  BY <1>1, <1>2, <1>3, <1>4, <1>7, StepBalanced

(* A download begun adds one page to those taken.                          *)
LEMMA ExtractTakes ==
  ASSUME PipelineTypeOK, StoreInv, FirstTurn, NEW w \in Workers, extractUrlAndDownload(w)
  PROVE  /\ crawledUrlList \subseteq crawledUrlList'
         /\ \A v \in Workers : v # w => inFlight'[v] = inFlight[v]
         /\ IsFiniteSet(inFlight'[w]) /\ inFlight'[w] \subseteq FirstLoads
         /\ \A load \in inFlight'[w] : load.page \in crawledUrlList'
         /\ downloaderCrawledLinksCount' + Cardinality(inFlight[w])
              = downloaderCrawledLinksCount + Cardinality(inFlight'[w])
         /\ Cardinality(inFlight[w]) \in Nat /\ Cardinality(inFlight'[w]) \in Nat
<1>1. /\ IsFiniteSet(inFlight[w]) /\ inFlight[w] \subseteq FirstLoads
      /\ \A load \in inFlight[w] : load.page \in crawledUrlList
      /\ turnaround = 0
  BY DEF FirstTurn, FirstWorker
<1>2. Cardinality(inFlight[w]) \in Nat
  BY <1>1, FS_CardinalityType
<1>3. /\ inFlight \in [Workers -> SUBSET Downloads] /\ pendingUrlList \subseteq Requests
      /\ downloaderCrawledLinksCount \in Int
  BY DEF PipelineTypeOK, WorkerShape, StoreShape
<1>4. CASE UNCHANGED <<inFlight, storeVars>>
  <2>1. /\ inFlight' = inFlight /\ crawledUrlList' = crawledUrlList
        /\ downloaderCrawledLinksCount' = downloaderCrawledLinksCount
    BY <1>4 DEF storeVars, listVars, counterVars
  <2> QED
    BY <1>1, <1>2, <2>1
<1>5. ASSUME NEW r \in pendingUrlList, extractUrl(r),
             inFlight' = [inFlight EXCEPT ![w] = @ \union {[page |-> r, turn |-> turnaround]}]
      PROVE  /\ crawledUrlList \subseteq crawledUrlList'
             /\ \A v \in Workers : v # w => inFlight'[v] = inFlight[v]
             /\ IsFiniteSet(inFlight'[w]) /\ inFlight'[w] \subseteq FirstLoads
             /\ \A load \in inFlight'[w] : load.page \in crawledUrlList'
             /\ downloaderCrawledLinksCount' + Cardinality(inFlight[w])
                  = downloaderCrawledLinksCount + Cardinality(inFlight'[w])
             /\ Cardinality(inFlight[w]) \in Nat /\ Cardinality(inFlight'[w]) \in Nat
  <2> DEFINE load == [page |-> r, turn |-> 0]
  <2>1. /\ r \notin crawledUrlList /\ crawledUrlList' = crawledUrlList \union {r}
        /\ downloaderCrawledLinksCount' = downloaderCrawledLinksCount + 1
    BY <1>3, <1>5, StoreCounts
  <2>2. /\ inFlight'[w] = inFlight[w] \union {load}
        /\ \A v \in Workers : v # w => inFlight'[v] = inFlight[v]
    BY <1>1, <1>3, <1>5
  <2>3. load \in FirstLoads /\ load.page = r
    BY <1>3, <1>5 DEF FirstLoads, Downloads
  <2>4. load \notin inFlight[w]
    BY <1>1, <2>1, <2>3
  <2> HIDE DEF load
  <2>5. IsFiniteSet(inFlight[w] \union {load})
        /\ Cardinality(inFlight[w] \union {load}) = Cardinality(inFlight[w]) + 1
    BY <1>1, <2>4, FS_AddElement
  <2> QED
    BY <1>1, <1>2, <1>3, <2>1, <2>2, <2>3, <2>5
<1>6. \/ UNCHANGED <<inFlight, storeVars>>
      \/ \E r \in pendingUrlList :
           /\ extractUrl(r)
           /\ inFlight' = [inFlight EXCEPT ![w] = @ \union {[page |-> r, turn |-> turnaround]}]
  BY DEF extractUrlAndDownload
<1> QED
  BY <1>4, <1>5, <1>6

(* A worker of the first turn goes on after a call.                        *)
LEMMA FirstContinue ==
  ASSUME WorkerShape, NEW w \in Workers, job[w] # NoJob, FirstWorker(w),
         NEW calls \in Seq(CallRecords), Whole(calls), Continue(w, calls),
         calls # <<>> => Head(job[w].calls).name \notin {"emitResult", "extract"}
  PROVE  /\ \A v \in Workers : v # w => job'[v] = job[v]
         /\ job'[w].turn = 0 \/ ExtractsOnly(job'[w].calls)
         /\ Paired(job'[w].calls)
         /\ Cardinality(Uncounted(job'[w].calls)) + (IF Call(w, "count") THEN 1 ELSE 0)
              = Cardinality(Uncounted(job[w].calls)) + Cardinality(Uncounted(calls))
         /\ Call(w, "count")' <=> Call(w, "emitResult")
         /\ ~ExtractsOnly(job[w].calls) => job[w].turn = 0
<1>1. /\ \A v \in Workers : v # w => job'[v] = job[v]
      /\ job'[w] = NoJob \/ job'[w].turn = job[w].turn
      /\ job'[w].calls = calls \o Tail(job[w].calls)
      /\ Paired(job'[w].calls)
      /\ Cardinality(Uncounted(job'[w].calls)) + (IF Call(w, "count") THEN 1 ELSE 0)
           = Cardinality(Uncounted(job[w].calls)) + Cardinality(Uncounted(calls))
      /\ Call(w, "count")' <=> Call(w, "emitResult")
  BY ContinueOnce DEF FirstWorker
<1>2. job[w].turn = 0 \/ ExtractsOnly(job[w].calls)
  BY DEF FirstWorker
<1>3. job'[w].turn = 0 \/ ExtractsOnly(job'[w].calls)
  <2>1. CASE job'[w] = NoJob
    BY <2>1 DEF NoJob, ExtractsOnly
  <2>2. CASE job'[w].turn = job[w].turn /\ job[w].turn = 0
    BY <2>2
  <2>3. CASE ExtractsOnly(job[w].calls)
    <3> DEFINE q == job[w].calls
    <3>1. q \in Seq(CallRecords) /\ q # <<>>
      BY DEF WorkerShape
    <3>2. /\ 1 \in DOMAIN q /\ Head(q) = q[1] /\ Tail(q) \in Seq(CallRecords)
          /\ \A i \in DOMAIN Tail(q) : i + 1 \in DOMAIN q /\ Tail(q)[i] = q[i + 1]
      BY <3>1
    <3>3. calls = <<>>
      BY <2>3, <3>2 DEF ExtractsOnly
    <3>4. calls \o Tail(q) = Tail(q)
      BY <3>2, <3>3
    <3>5. ExtractsOnly(Tail(q))
      BY <2>3, <3>2 DEF ExtractsOnly
    <3> QED
      BY <1>1, <3>4, <3>5
  <2> QED
    BY <1>1, <1>2, <2>1, <2>2, <2>3
<1> QED
  BY <1>1, <1>2, <1>3

(* A handler may go on with no further call.                               *)
LEMMA EmptyWhole == <<>> \in Seq(CallRecords) /\ Whole(<<>>) /\ Cardinality(Uncounted(<<>>)) = 0
<1>1. Uncounted(<<>>) = {}
  BY DEF Uncounted
<1> QED
  BY <1>1, FS_EmptySet DEF Whole, Paired

(* What these lemmas use of the types and of the first turn.               *)
LEMMA FirstFacts ==
  ASSUME PipelineTypeOK, FirstTurn, NEW w \in Workers
  PROVE  /\ FirstWorker(w) /\ Within(modelQueue, "result", FirstResults)
         /\ inFlight \in [Workers -> SUBSET Downloads]
         /\ workerQueue \in [Workers -> Seq(WorkerEvents)]
         /\ job \in [Workers -> [turn : Int, calls : Seq(CallRecords)]]
         /\ WorkerShape
         /\ downloaderCrawledLinksCount \in Int /\ workersProcessedLinksCount \in Int
         /\ modelQueue \in Seq(ModelEvents) /\ turnaround = 0
<1>1. FirstWorker(w) /\ Within(modelQueue, "result", FirstResults) /\ turnaround = 0
  BY DEF FirstTurn, FirstQueues
<1>2. WorkerShape /\ StoreShape /\ ModelShape /\ workersProcessedLinksCount \in Int
  BY DEF PipelineTypeOK
<1>3. /\ inFlight \in [Workers -> SUBSET Downloads]
      /\ workerQueue \in [Workers -> Seq(WorkerEvents)]
      /\ job \in [Workers -> [turn : Int, calls : Seq(CallRecords)]]
  BY <1>2 DEF WorkerShape
<1>4. downloaderCrawledLinksCount \in Int /\ modelQueue \in Seq(ModelEvents)
  BY <1>2 DEF StoreShape, ModelShape
<1> QED
  BY <1>1, <1>2, <1>3, <1>4

(* Handlers that start a download or end one.                              *)
LEMMA LoadsBalanced ==
  ASSUME PipelineTypeOK, PipelineTypeOK', StoreInv, FirstTurn, Balanced, NEW w \in Workers,
         ExtractDue(w) \/ extract(w) \/ LoadingDone(w)
  PROVE  FirstTurn' /\ Balanced'
<1>0. /\ FirstWorker(w) /\ Within(modelQueue, "result", FirstResults)
      /\ inFlight \in [Workers -> SUBSET Downloads]
      /\ workerQueue \in [Workers -> Seq(WorkerEvents)]
      /\ job \in [Workers -> [turn : Int, calls : Seq(CallRecords)]]
      /\ WorkerShape
      /\ downloaderCrawledLinksCount \in Int /\ workersProcessedLinksCount \in Int
      /\ modelQueue \in Seq(ModelEvents)
  BY FirstFacts
<1>a. /\ Cardinality(Answers(workerQueue[w])) \in Nat
      /\ Cardinality(Uncounted(job[w].calls)) \in Nat /\ Cardinality(inFlight[w]) \in Nat
      /\ Counted(modelQueue, "result") \in Nat
  BY <1>0, TakenTyped, CountedTyped DEF FirstWorker
<1>1. CASE ExtractDue(w)
  <2>1. /\ extractUrlAndDownload(w)
        /\ job' = job /\ workerQueue' = workerQueue /\ modelQueue' = modelQueue
        /\ mainPc' = mainPc /\ mainQueue' = mainQueue /\ modelPc' = modelPc /\ turnaround' = turnaround
        /\ workersProcessedLinksCount' = workersProcessedLinksCount
        /\ modelControllerCrawledLinksCount' = modelControllerCrawledLinksCount
        /\ modelControllerAcceptedLinksCount' = modelControllerAcceptedLinksCount
        /\ sequencedDataCollectionLinksCount' = sequencedDataCollectionLinksCount
    BY <1>1 DEF ExtractDue, mainVars, sharedVars, modelVars
  <2>2. /\ crawledUrlList \subseteq crawledUrlList'
        /\ \A v \in Workers : v # w => inFlight'[v] = inFlight[v]
        /\ IsFiniteSet(inFlight'[w]) /\ inFlight'[w] \subseteq FirstLoads
        /\ \A load \in inFlight'[w] : load.page \in crawledUrlList'
        /\ downloaderCrawledLinksCount' + Cardinality(inFlight[w])
              = downloaderCrawledLinksCount + Cardinality(inFlight'[w])
        /\ Cardinality(inFlight'[w]) \in Nat
    BY <2>1, ExtractTakes
  <2>3. FirstWorker(w)'
    BY <1>0, <2>1, <2>2 DEF FirstWorker, Within, EventsAt, FirstLoads, FirstAnswers, Paired, ExtractsOnly
  <2>4. downloaderCrawledLinksCount' + workersProcessedLinksCount + Taken(w)
           = downloaderCrawledLinksCount + workersProcessedLinksCount' + Taken(w)'
    <3>1. /\ Taken(w) = Cardinality(inFlight[w]) + Cardinality(Answers(workerQueue[w]))
                          + Cardinality(Uncounted(job[w].calls))
          /\ Taken(w)' = Cardinality(inFlight'[w]) + Cardinality(Answers(workerQueue[w]))
                          + Cardinality(Uncounted(job[w].calls))
      BY <2>1 DEF Taken
    <3>2. downloaderCrawledLinksCount' \in Int
      BY DEF PipelineTypeOK, StoreShape
    <3> DEFINE a == Cardinality(inFlight[w])
               b == Cardinality(Answers(workerQueue[w]))
               c == Cardinality(Uncounted(job[w].calls))
               ap == Cardinality(inFlight'[w])
               d == downloaderCrawledLinksCount
               dp == downloaderCrawledLinksCount'
               u == workersProcessedLinksCount
               t == Taken(w)
               tp == Taken(w)'
    <3>3. /\ a \in Int /\ b \in Int /\ c \in Int /\ ap \in Int /\ d \in Int /\ dp \in Int /\ u \in Int
          /\ dp + a = d + ap /\ t = a + b + c /\ tp = ap + b + c
      BY <1>0, <1>a, <2>2, <3>1, <3>2
    <3> HIDE DEF a, b, c, ap, d, dp, u, t, tp
    <3>4. dp + u + t = d + u + tp
      BY <3>3
    <3> QED
      BY <2>1, <3>4 DEF d, dp, u, t, tp
  <2>5. Call(w, "count")' <=> Call(w, "count")
    BY <2>1 DEF Call
  <2>6. workersProcessedLinksCount' + (IF Call(w, "count")' THEN 1 ELSE 0) + Counted(modelQueue, "result")
           = workersProcessedLinksCount + (IF Call(w, "count") THEN 1 ELSE 0) + Counted(modelQueue', "result")
    BY <2>1, <2>5
  <2> QED
    BY <1>0, <2>1, <2>2, <2>3, <2>4, <2>6, WorkerBalanced
<1>2. CASE extract(w)
  <2>1. /\ extractUrlAndDownload(w) /\ Call(w, "extract") /\ Continue(w, <<>>)
        /\ workerQueue' = workerQueue /\ modelQueue' = modelQueue
        /\ mainPc' = mainPc /\ mainQueue' = mainQueue /\ modelPc' = modelPc /\ turnaround' = turnaround
        /\ workersProcessedLinksCount' = workersProcessedLinksCount
        /\ modelControllerCrawledLinksCount' = modelControllerCrawledLinksCount
        /\ modelControllerAcceptedLinksCount' = modelControllerAcceptedLinksCount
        /\ sequencedDataCollectionLinksCount' = sequencedDataCollectionLinksCount
    BY <1>2 DEF extract, mainVars, sharedVars, modelVars
  <2>2. /\ crawledUrlList \subseteq crawledUrlList'
        /\ \A v \in Workers : v # w => inFlight'[v] = inFlight[v]
        /\ IsFiniteSet(inFlight'[w]) /\ inFlight'[w] \subseteq FirstLoads
        /\ \A load \in inFlight'[w] : load.page \in crawledUrlList'
        /\ downloaderCrawledLinksCount' + Cardinality(inFlight[w])
              = downloaderCrawledLinksCount + Cardinality(inFlight'[w])
        /\ Cardinality(inFlight'[w]) \in Nat
    BY <2>1, ExtractTakes
  <2>3. job[w] # NoJob /\ Head(job[w].calls).name = "extract"
    BY <2>1 DEF Call
  <2>4. /\ \A v \in Workers : v # w => job'[v] = job[v]
        /\ job'[w].turn = 0 \/ ExtractsOnly(job'[w].calls)
        /\ Paired(job'[w].calls)
        /\ Cardinality(Uncounted(job'[w].calls)) + (IF Call(w, "count") THEN 1 ELSE 0)
             = Cardinality(Uncounted(job[w].calls)) + 0
        /\ Call(w, "count")' <=> Call(w, "emitResult")
    BY <1>0, <2>1, <2>3, EmptyWhole, FirstContinue
  <2>5. ~Call(w, "count") /\ ~Call(w, "count")'
    BY <2>3, <2>4 DEF Call
  <2>6. Cardinality(Uncounted(job'[w].calls)) = Cardinality(Uncounted(job[w].calls))
    <3>1. Cardinality(Uncounted(job'[w].calls)) \in Nat
      <4>1. job'[w].calls \in Seq(CallRecords)
        BY DEF PipelineTypeOK, WorkerShape
      <4> QED
        BY <4>1, UncountedParts
    <3> QED
      BY <1>a, <2>4, <2>5, <3>1
  <2>7. FirstWorker(w)'
    BY <1>0, <2>1, <2>2, <2>4 DEF FirstWorker, Within, EventsAt, FirstLoads, FirstAnswers, Paired, ExtractsOnly
  <2>8. downloaderCrawledLinksCount' + workersProcessedLinksCount + Taken(w)
           = downloaderCrawledLinksCount + workersProcessedLinksCount' + Taken(w)'
    <3>1. /\ Taken(w) = Cardinality(inFlight[w]) + Cardinality(Answers(workerQueue[w]))
                          + Cardinality(Uncounted(job[w].calls))
          /\ Taken(w)' = Cardinality(inFlight'[w]) + Cardinality(Answers(workerQueue[w]))
                          + Cardinality(Uncounted(job[w].calls))
      BY <2>1, <2>6 DEF Taken
    <3>2. downloaderCrawledLinksCount' \in Int
      BY DEF PipelineTypeOK, StoreShape
    <3> DEFINE a == Cardinality(inFlight[w])
               b == Cardinality(Answers(workerQueue[w]))
               c == Cardinality(Uncounted(job[w].calls))
               ap == Cardinality(inFlight'[w])
               d == downloaderCrawledLinksCount
               dp == downloaderCrawledLinksCount'
               u == workersProcessedLinksCount
               t == Taken(w)
               tp == Taken(w)'
    <3>3. /\ a \in Int /\ b \in Int /\ c \in Int /\ ap \in Int /\ d \in Int /\ dp \in Int /\ u \in Int
          /\ dp + a = d + ap /\ t = a + b + c /\ tp = ap + b + c
      BY <1>0, <1>a, <2>2, <3>1, <3>2
    <3> HIDE DEF a, b, c, ap, d, dp, u, t, tp
    <3>4. dp + u + t = d + u + tp
      BY <3>3
    <3> QED
      BY <2>1, <3>4 DEF d, dp, u, t, tp
  <2>9. workersProcessedLinksCount' + (IF Call(w, "count")' THEN 1 ELSE 0) + Counted(modelQueue, "result")
           = workersProcessedLinksCount + (IF Call(w, "count") THEN 1 ELSE 0) + Counted(modelQueue', "result")
    BY <2>1, <2>5
  <2>10. \A v \in Workers : v # w =>
           inFlight'[v] = inFlight[v] /\ workerQueue'[v] = workerQueue[v] /\ job'[v] = job[v]
    BY <2>1, <2>2, <2>4
  <2> QED
    BY <1>0, <2>1, <2>2, <2>7, <2>8, <2>9, <2>10, WorkerBalanced
<1>3. CASE LoadingDone(w)
  <2>1. PICK load \in inFlight[w] :
          /\ inFlight' = [inFlight EXCEPT ![w] = @ \ {load}]
          /\ workerQueue' = [workerQueue EXCEPT
               ![w] = Append(@, [event |-> "pageLoaded", load |-> load])]
    BY <1>3 DEF LoadingDone
  <2> DEFINE e == [event |-> "pageLoaded", load |-> load]
  <2>2. e \in WorkerEvents /\ e \in FirstAnswers /\ e.event = "pageLoaded"
    BY <1>0, <2>1 DEF FirstWorker, FirstAnswers, WorkerEvents
  <2>3. /\ inFlight'[w] = inFlight[w] \ {load} /\ workerQueue'[w] = Append(workerQueue[w], e)
        /\ \A v \in Workers : v # w => inFlight'[v] = inFlight[v] /\ workerQueue'[v] = workerQueue[v]
    BY <1>0, <2>1
  <2> HIDE DEF e
  <2>4. /\ job' = job /\ modelQueue' = modelQueue
        /\ mainPc' = mainPc /\ mainQueue' = mainQueue /\ modelPc' = modelPc /\ turnaround' = turnaround
        /\ workersProcessedLinksCount' = workersProcessedLinksCount
        /\ modelControllerCrawledLinksCount' = modelControllerCrawledLinksCount
        /\ modelControllerAcceptedLinksCount' = modelControllerAcceptedLinksCount
        /\ sequencedDataCollectionLinksCount' = sequencedDataCollectionLinksCount
        /\ crawledUrlList' = crawledUrlList
        /\ downloaderCrawledLinksCount' = downloaderCrawledLinksCount
    BY <1>3 DEF LoadingDone, mainVars, sharedVars, modelVars, storeVars, listVars, counterVars
  <2>5. /\ IsFiniteSet(inFlight[w] \ {load})
        /\ Cardinality(inFlight[w] \ {load}) = Cardinality(inFlight[w]) - 1
    BY <1>0, <2>1, FS_RemoveElement DEF FirstWorker
  <2>6. Cardinality(Answers(workerQueue'[w])) = Cardinality(Answers(workerQueue[w])) + 1
    BY <1>0, <2>2, <2>3, AnswersCount
  <2>7. /\ EventsAt(workerQueue'[w], "clear") = {}
        /\ Within(workerQueue'[w], "pageLoaded", FirstAnswers)
    <3>1. EventsAt(workerQueue'[w], "clear") = EventsAt(workerQueue[w], "clear")
      BY <1>0, <2>2, <2>3, EventsAppend
    <3>2. Within(workerQueue'[w], "pageLoaded", FirstAnswers)
      BY <1>0, <2>2, <2>3, WithinQueue DEF FirstWorker
    <3> QED
      BY <1>0, <3>1, <3>2 DEF FirstWorker
  <2>8. FirstWorker(w)'
    BY <1>0, <2>3, <2>4, <2>5, <2>7 DEF FirstWorker, Within, FirstLoads, FirstAnswers, Paired, ExtractsOnly
  <2>9. downloaderCrawledLinksCount' + workersProcessedLinksCount + Taken(w)
           = downloaderCrawledLinksCount + workersProcessedLinksCount' + Taken(w)'
    <3>1. /\ Taken(w) = Cardinality(inFlight[w]) + Cardinality(Answers(workerQueue[w]))
                          + Cardinality(Uncounted(job[w].calls))
          /\ Taken(w)' = (Cardinality(inFlight[w]) - 1) + (Cardinality(Answers(workerQueue[w])) + 1)
                          + Cardinality(Uncounted(job[w].calls))
      BY <2>3, <2>4, <2>5, <2>6 DEF Taken
    <3>2. Taken(w)' = Taken(w)
      BY <1>a, <3>1
    <3> QED
      BY <2>4, <3>2
  <2>10. Call(w, "count")' <=> Call(w, "count")
    BY <2>4 DEF Call
  <2>11. workersProcessedLinksCount' + (IF Call(w, "count")' THEN 1 ELSE 0) + Counted(modelQueue, "result")
           = workersProcessedLinksCount + (IF Call(w, "count") THEN 1 ELSE 0) + Counted(modelQueue', "result")
    BY <2>4, <2>10
  <2> QED
    BY <1>0, <2>3, <2>4, <2>8, <2>9, <2>11, WorkerBalanced
<1> QED
  BY <1>1, <1>2, <1>3

(* An event taken by a worker of the first turn.                           *)
LEMMA FirstEvent ==
  ASSUME WorkerShape, NEW w \in Workers, FirstWorker(w), NEW name, Receives(w, name),
         NEW q, q = Tail(workerQueue[w])
  PROVE  /\ EventsAt(q, "clear") = {} /\ Within(q, "pageLoaded", FirstAnswers)
         /\ q \in Seq(WorkerEvents) /\ name # "clear"
         /\ name = "pageLoaded" =>
              /\ Head(workerQueue[w]).load.turn = 0
              /\ Head(workerQueue[w]).load.page \in Requests
         /\ Cardinality(Answers(workerQueue[w]))
              = Cardinality(Answers(q)) + (IF name = "pageLoaded" THEN 1 ELSE 0)
         /\ Cardinality(Answers(q)) \in Nat
         /\ job[w] = NoJob /\ Cardinality(Uncounted(job[w].calls)) = 0 /\ ~Call(w, "count")
<1>1. workerQueue[w] \in Seq(WorkerEvents) /\ workerQueue[w] # <<>> /\ Head(workerQueue[w]).event = name
  BY DEF WorkerShape, Receives
<1>2. q \in Seq(WorkerEvents)
  BY <1>1
<1>3. /\ EventsAt(workerQueue[w], "clear") = {}
      /\ Within(workerQueue[w], "pageLoaded", FirstAnswers)
  BY DEF FirstWorker
<1>4. EventsAt(q, "clear") = {}
  BY <1>1, <1>3, EventsShift
<1>5. name # "clear"
  <2>1. Head(workerQueue[w]).event = "clear" <=> 1 \in EventsAt(workerQueue[w], "clear")
    BY <1>1, EventsShift
  <2> QED
    BY <1>1, <1>3, <2>1
<1>6. Within(q, "pageLoaded", FirstAnswers)
  BY <1>1, <1>3, WithinQueue
<1>7. name = "pageLoaded" => Head(workerQueue[w]) \in FirstAnswers
  BY <1>1, <1>3, WithinQueue
<1>8. name = "pageLoaded" =>
        Head(workerQueue[w]).load.turn = 0 /\ Head(workerQueue[w]).load.page \in Requests
  BY <1>7 DEF FirstAnswers, FirstLoads, Downloads
<1>9. Cardinality(Answers(workerQueue[w]))
        = Cardinality(Answers(q)) + (IF name = "pageLoaded" THEN 1 ELSE 0)
  BY <1>1, AnswersCount
<1>10. Cardinality(Answers(q)) \in Nat
  BY <1>2, AnswersCount
<1>11. job[w] = NoJob /\ Cardinality(Uncounted(job[w].calls)) = 0 /\ ~Call(w, "count")
  BY EmptyWhole DEF Receives, NoJob, Call
<1> QED
  BY <1>2, <1>4, <1>5, <1>6, <1>8, <1>9, <1>10, <1>11

(* Handlers that begin with an event.                                      *)
LEMMA EventsBalanced ==
  ASSUME PipelineTypeOK, PipelineTypeOK', StoreInv, FirstTurn, Balanced, NEW w \in Workers,
         onLoadingDone(w) \/ start(w) \/ workerClear(w)
  PROVE  FirstTurn' /\ Balanced'
<1>0. /\ FirstWorker(w) /\ Within(modelQueue, "result", FirstResults)
      /\ inFlight \in [Workers -> SUBSET Downloads]
      /\ workerQueue \in [Workers -> Seq(WorkerEvents)]
      /\ job \in [Workers -> [turn : Int, calls : Seq(CallRecords)]]
      /\ WorkerShape
      /\ downloaderCrawledLinksCount \in Int /\ workersProcessedLinksCount \in Int
      /\ modelQueue \in Seq(ModelEvents) /\ turnaround = 0
  BY FirstFacts
<1>a. Cardinality(inFlight[w]) \in Nat
  BY <1>0, FS_CardinalityType DEF FirstWorker
<1>b. ~workerClear(w)
  BY <1>0, FirstEvent DEF workerClear, Event
<1> DEFINE q == Tail(workerQueue[w])
<1>c. ASSUME NEW name, Event(w, name)
      PROVE  /\ workerQueue'[w] = q
             /\ \A v \in Workers : v # w => workerQueue'[v] = workerQueue[v]
             /\ EventsAt(q, "clear") = {} /\ Within(q, "pageLoaded", FirstAnswers)
  <2>1. EventsAt(q, "clear") = {} /\ Within(q, "pageLoaded", FirstAnswers)
    BY <1>0, <1>c, FirstEvent DEF Event
  <2>2. workerQueue' = [workerQueue EXCEPT ![w] = q]
    BY <1>c DEF Event
  <2> HIDE DEF q
  <2> QED
    BY <1>0, <2>1, <2>2
<1>1. CASE onLoadingDone(w)
  <2> DEFINE page == Head(workerQueue[w]).load.page
  <2>1. Event(w, "pageLoaded") /\ Receives(w, "pageLoaded")
    BY <1>1 DEF onLoadingDone, Event
  <2>2. /\ page \in Requests
        /\ Cardinality(Answers(workerQueue[w])) = Cardinality(Answers(q)) + 1
        /\ Cardinality(Answers(q)) \in Nat
        /\ Cardinality(Uncounted(job[w].calls)) = 0 /\ ~Call(w, "count")
    BY <1>0, <2>1, FirstEvent
  <2>3. AcceptsLoad(w, Head(workerQueue[w]).load)
    BY <1>0, <2>1, FirstEvent DEF AcceptsLoad
  <2> DEFINE calls == handleResponseData(page)
             new == [turn |-> 0, calls |-> calls]
  <2>4. activeRequestReceived(page) /\ job' = [job EXCEPT ![w] = new]
    <3>1. activeRequestReceived(page)
      BY <1>1, <2>3 DEF onLoadingDone
    <3>2. Head(workerQueue[w]).load.turn = 0
      BY <1>0, <2>1, FirstEvent
    <3> QED
      BY <1>1, <2>3, <3>1, <3>2 DEF onLoadingDone
  <2>5. /\ calls \in Seq(CallRecords) /\ calls # <<>> /\ calls[1].name = "extract" /\ Paired(calls)
        /\ Cardinality(Uncounted(calls)) = 1
    BY <2>2, LoadedOnce
  <2>6. crawledUrlList' = crawledUrlList /\ downloaderCrawledLinksCount' = downloaderCrawledLinksCount
    BY <2>2, <2>4, StoreCounts
  <2>7. /\ inFlight' = inFlight /\ modelQueue' = modelQueue
        /\ mainPc' = mainPc /\ mainQueue' = mainQueue /\ modelPc' = modelPc /\ turnaround' = turnaround
        /\ workersProcessedLinksCount' = workersProcessedLinksCount
        /\ modelControllerCrawledLinksCount' = modelControllerCrawledLinksCount
        /\ modelControllerAcceptedLinksCount' = modelControllerAcceptedLinksCount
        /\ sequencedDataCollectionLinksCount' = sequencedDataCollectionLinksCount
    BY <1>1 DEF onLoadingDone, mainVars, sharedVars, modelVars
  <2>8. /\ workerQueue'[w] = q
        /\ \A v \in Workers : v # w => workerQueue'[v] = workerQueue[v]
        /\ EventsAt(q, "clear") = {} /\ Within(q, "pageLoaded", FirstAnswers)
    BY <1>c, <2>1
  <2> HIDE DEF q, calls, page
  <2>9. /\ job'[w] = new
        /\ \A v \in Workers : v # w => job'[v] = job[v]
    BY <1>0, <2>4
  <2>10. FirstWorker(w)'
    <3>1. /\ IsFiniteSet(inFlight[w]) /\ inFlight[w] \subseteq FirstLoads
          /\ \A load \in inFlight[w] : load.page \in crawledUrlList
      BY <1>0 DEF FirstWorker
    <3>2. job'[w].turn = 0 /\ job'[w].calls = calls
      BY <2>9
    <3> QED
      BY <2>5, <2>6, <2>7, <2>8, <3>1, <3>2
         DEF FirstWorker, Within, FirstLoads, FirstAnswers, Paired, ExtractsOnly
  <2>11. Taken(w)' = Taken(w)
    <3>1. Taken(w) = Cardinality(inFlight[w]) + (Cardinality(Answers(q)) + 1) + 0
      BY <2>2 DEF Taken
    <3>2. Taken(w)' = Cardinality(inFlight[w]) + Cardinality(Answers(q)) + 1
      BY <2>5, <2>7, <2>8, <2>9 DEF Taken
    <3> QED
      BY <1>a, <2>2, <3>1, <3>2
  <2>12. ~Call(w, "count")'
    <3>1. Head(calls).name = "extract"
      BY <2>5
    <3> QED
      BY <2>9, <3>1 DEF Call
  <2> QED
    BY <1>0, <2>2, <2>6, <2>7, <2>8, <2>9, <2>10, <2>11, <2>12, WorkerBalanced
<1>2. CASE start(w)
  <2>1. Event(w, "start") /\ Receives(w, "start")
    BY <1>2 DEF start, Event
  <2>2. /\ Cardinality(Answers(workerQueue[w])) = Cardinality(Answers(q)) + 0
        /\ Cardinality(Answers(q)) \in Nat
        /\ Cardinality(Uncounted(job[w].calls)) = 0 /\ ~Call(w, "count")
    <3>1. /\ Cardinality(Answers(workerQueue[w]))
               = Cardinality(Answers(q)) + (IF "start" = "pageLoaded" THEN 1 ELSE 0)
          /\ Cardinality(Answers(q)) \in Nat
          /\ Cardinality(Uncounted(job[w].calls)) = 0 /\ ~Call(w, "count")
      BY <1>0, <2>1, FirstEvent
    <3>2. (IF "start" = "pageLoaded" THEN 1 ELSE 0) = 0
      OBVIOUS
    <3> QED
      BY <3>1, <3>2, Zenon
  <2> DEFINE calls == Calls("extract", <<StartPage>>)
             new == [turn |-> -1, calls |-> calls]
  <2>4. job' = [job EXCEPT ![w] = new]
    BY <1>2 DEF start
  <2>5. /\ calls \in Seq(CallRecords) /\ calls # <<>> /\ ExtractsOnly(calls) /\ Paired(calls)
        /\ Cardinality(Uncounted(calls)) = 0
    <3>1. <<StartPage>> \in Seq(Requests) /\ Len(<<StartPage>>) = 1
      BY PipelineAssumption
    <3>2. calls \in Seq(CallRecords) /\ Whole(calls) /\ Cardinality(Uncounted(calls)) = 0
      BY <3>1, PlainCalls
    <3>3. /\ Len(calls) = Len(<<StartPage>>)
          /\ \A i \in 1..Len(<<StartPage>>) :
               calls[i] = [name |-> "extract", page |-> <<StartPage>>[i]]
      BY <3>1, CallsTyped
    <3> HIDE DEF calls
    <3>4. calls # <<>> /\ DOMAIN calls = 1..Len(<<StartPage>>)
      <4>1. Len(calls) = 1
        BY <3>1, <3>3, Zenon
      <4>a. calls \in Seq(CallRecords)
        BY <3>2
      <4>2. DOMAIN calls = 1..Len(calls) /\ calls # <<>>
        BY <4>1, <4>a
      <4> QED
        BY <3>3, <4>2, Zenon
    <3>5. ExtractsOnly(calls)
      <4>1. \A i \in 1..Len(<<StartPage>>) : calls[i].name = "extract"
        BY <3>3
      <4> QED
        BY <3>4, <4>1, Zenon DEF ExtractsOnly
    <3> QED
      BY <3>2, <3>4, <3>5 DEF Whole
  <2>7. /\ inFlight' = inFlight /\ modelQueue' = modelQueue
        /\ mainPc' = mainPc /\ mainQueue' = mainQueue /\ modelPc' = modelPc /\ turnaround' = turnaround
        /\ workersProcessedLinksCount' = workersProcessedLinksCount
        /\ modelControllerCrawledLinksCount' = modelControllerCrawledLinksCount
        /\ modelControllerAcceptedLinksCount' = modelControllerAcceptedLinksCount
        /\ sequencedDataCollectionLinksCount' = sequencedDataCollectionLinksCount
        /\ crawledUrlList' = crawledUrlList /\ downloaderCrawledLinksCount' = downloaderCrawledLinksCount
    BY <1>2 DEF start, mainVars, sharedVars, modelVars, storeVars, listVars, counterVars
  <2>8. /\ workerQueue'[w] = q
        /\ \A v \in Workers : v # w => workerQueue'[v] = workerQueue[v]
        /\ EventsAt(q, "clear") = {} /\ Within(q, "pageLoaded", FirstAnswers)
    BY <1>c, <2>1
  <2> HIDE DEF q, calls
  <2>9. /\ job'[w] = new
        /\ \A v \in Workers : v # w => job'[v] = job[v]
    BY <1>0, <2>4
  <2>10. FirstWorker(w)'
    <3>1. /\ IsFiniteSet(inFlight[w]) /\ inFlight[w] \subseteq FirstLoads
          /\ \A load \in inFlight[w] : load.page \in crawledUrlList
      BY <1>0 DEF FirstWorker
    <3>2. job'[w].calls = calls
      BY <2>9
    <3> QED
      BY <2>5, <2>7, <2>8, <3>1, <3>2
         DEF FirstWorker, Within, FirstLoads, FirstAnswers, Paired, ExtractsOnly
  <2>11. Taken(w)' = Taken(w)
    <3>1. Taken(w) = Cardinality(inFlight[w]) + (Cardinality(Answers(q)) + 0) + 0
      BY <2>2 DEF Taken
    <3>2. Taken(w)' = Cardinality(inFlight[w]) + Cardinality(Answers(q)) + 0
      BY <2>5, <2>7, <2>8, <2>9 DEF Taken
    <3> QED
      BY <1>a, <2>2, <3>1, <3>2
  <2>12. ~Call(w, "count")'
    <3>1. Head(calls).name = "extract"
      BY <2>5 DEF ExtractsOnly
    <3> QED
      BY <2>9, <3>1 DEF Call
  <2> QED
    BY <1>0, <2>2, <2>7, <2>8, <2>9, <2>10, <2>11, <2>12, WorkerBalanced
<1> QED
  BY <1>1, <1>2, <1>b

(* A call of a handler keeps the balances when what it takes, counts and   *)
(* emits is what its place in the handler says.                            *)
LEMMA CallBalanced ==
  ASSUME PipelineTypeOK, PipelineTypeOK', FirstTurn, Balanced, NEW w \in Workers, job[w] # NoJob,
         NEW calls \in Seq(CallRecords), Whole(calls), Continue(w, calls),
         calls # <<>> => Head(job[w].calls).name \notin {"emitResult", "extract"},
         inFlight' = inFlight, workerQueue' = workerQueue, crawledUrlList \subseteq crawledUrlList',
         mainPc' = mainPc, mainQueue' = mainQueue, modelPc' = modelPc, turnaround' = turnaround,
         modelControllerCrawledLinksCount' = modelControllerCrawledLinksCount,
         modelControllerAcceptedLinksCount' = modelControllerAcceptedLinksCount,
         sequencedDataCollectionLinksCount' = sequencedDataCollectionLinksCount,
         Within(modelQueue', "result", FirstResults),
         downloaderCrawledLinksCount'
           = downloaderCrawledLinksCount + Cardinality(Uncounted(calls)),
         workersProcessedLinksCount'
           = workersProcessedLinksCount + (IF Call(w, "count") THEN 1 ELSE 0),
         Counted(modelQueue', "result")
           = Counted(modelQueue, "result") + (IF Call(w, "emitResult") THEN 1 ELSE 0)
  PROVE  FirstTurn' /\ Balanced'
<1>0. /\ FirstWorker(w) /\ WorkerShape /\ WorkerShape'
      /\ downloaderCrawledLinksCount \in Int /\ workersProcessedLinksCount \in Int
      /\ modelQueue \in Seq(ModelEvents)
  BY FirstFacts DEF PipelineTypeOK
<1>1. /\ \A v \in Workers : v # w => job'[v] = job[v]
      /\ job'[w].turn = 0 \/ ExtractsOnly(job'[w].calls)
      /\ Paired(job'[w].calls)
      /\ Cardinality(Uncounted(job'[w].calls)) + (IF Call(w, "count") THEN 1 ELSE 0)
           = Cardinality(Uncounted(job[w].calls)) + Cardinality(Uncounted(calls))
      /\ Call(w, "count")' <=> Call(w, "emitResult")
  BY <1>0, FirstContinue
<1>2. FirstWorker(w)'
  BY <1>0, <1>1 DEF FirstWorker, Within, EventsAt, FirstLoads, FirstAnswers, Paired, ExtractsOnly
<1>3. /\ Cardinality(Answers(workerQueue[w])) \in Int
      /\ Cardinality(Uncounted(job[w].calls)) \in Int /\ Cardinality(inFlight[w]) \in Int
      /\ Cardinality(Uncounted(calls)) \in Int
  BY <1>0, TakenTyped, UncountedParts DEF FirstWorker
<1>4. Cardinality(Uncounted(job'[w].calls)) \in Int
  <2>1. job'[w].calls \in Seq(CallRecords)
    BY <1>0 DEF WorkerShape
  <2> QED
    BY <2>1, UncountedParts
<1>5. Counted(modelQueue, "result") \in Int
  BY <1>0, CountedTyped
<1> DEFINE a == Cardinality(inFlight[w])
           b == Cardinality(Answers(workerQueue[w]))
           c == Cardinality(Uncounted(job[w].calls))
           cp == Cardinality(Uncounted(job'[w].calls))
           n == Cardinality(Uncounted(calls))
           k == IF Call(w, "count") THEN 1 ELSE 0
           kp == IF Call(w, "count")' THEN 1 ELSE 0
           m == IF Call(w, "emitResult") THEN 1 ELSE 0
           d == downloaderCrawledLinksCount
           dp == downloaderCrawledLinksCount'
           u == workersProcessedLinksCount
           up == workersProcessedLinksCount'
           q == Counted(modelQueue, "result")
           qp == Counted(modelQueue', "result")
           t == Taken(w)
           tp == Taken(w)'
<1>6. t = a + b + c /\ tp = a + b + cp
  BY DEF Taken
<1>7. k \in Int /\ kp = m /\ m \in Int
  BY <1>1
<1>8. /\ a \in Int /\ b \in Int /\ c \in Int /\ cp \in Int /\ n \in Int
      /\ d \in Int /\ u \in Int /\ q \in Int
      /\ cp + k = c + n /\ dp = d + n /\ up = u + k /\ qp = q + m
  BY <1>0, <1>1, <1>3, <1>4, <1>5
<1> HIDE DEF a, b, c, cp, n, k, kp, m, d, dp, u, up, q, qp, t, tp
<1>9. dp + u + t = d + up + tp
  BY <1>6, <1>7, <1>8
<1>10. up + kp + q = u + k + qp
  BY <1>7, <1>8
<1>11. downloaderCrawledLinksCount' + workersProcessedLinksCount + Taken(w)
         = downloaderCrawledLinksCount + workersProcessedLinksCount' + Taken(w)'
  BY <1>9 DEF d, dp, u, up, t, tp
<1>12. workersProcessedLinksCount' + (IF Call(w, "count")' THEN 1 ELSE 0) + Counted(modelQueue, "result")
         = workersProcessedLinksCount + (IF Call(w, "count") THEN 1 ELSE 0) + Counted(modelQueue', "result")
  BY <1>10 DEF u, up, k, kp, q, qp
<1>13. \A v \in Workers : v # w =>
         inFlight'[v] = inFlight[v] /\ workerQueue'[v] = workerQueue[v] /\ job'[v] = job[v]
  BY <1>1
<1> QED
  BY <1>2, <1>11, <1>12, <1>13, WorkerBalanced

(* The calls of a handler, but for the download it starts.                 *)
LEMMA CallsBalanced ==
  ASSUME PipelineTypeOK, PipelineTypeOK', StoreInv, FirstTurn, Balanced, NEW w \in Workers,
         addLinks(w) \/ emitResult(w) \/ count(w) \/ claimHop(w) \/ claimBlocked(w)
  PROVE  FirstTurn' /\ Balanced'
<1>0. /\ FirstWorker(w) /\ Within(modelQueue, "result", FirstResults) /\ WorkerShape
      /\ downloaderCrawledLinksCount \in Int /\ workersProcessedLinksCount \in Int
      /\ modelQueue \in Seq(ModelEvents)
  BY FirstFacts
<1>a. Counted(modelQueue, "result") \in Int
  BY <1>0, CountedTyped
<1>b. ASSUME NEW name, Call(w, name)
      PROVE  /\ job[w] # NoJob /\ Head(job[w].calls).name = name
             /\ Head(job[w].calls) \in CallRecords
             /\ \A other : Call(w, other) <=> name = other
  <2>1. job[w].calls \in Seq(CallRecords) /\ job[w].calls # <<>>
    BY <1>0, <1>b DEF WorkerShape, Call
  <2> QED
    BY <1>b, <2>1 DEF Call
<1> DEFINE Kept == /\ inFlight' = inFlight /\ workerQueue' = workerQueue
                   /\ mainPc' = mainPc /\ mainQueue' = mainQueue /\ modelPc' = modelPc
                   /\ turnaround' = turnaround
                   /\ modelControllerCrawledLinksCount' = modelControllerCrawledLinksCount
                   /\ modelControllerAcceptedLinksCount' = modelControllerAcceptedLinksCount
                   /\ sequencedDataCollectionLinksCount' = sequencedDataCollectionLinksCount
<1>1. CASE addLinks(w)
  <2>1. Call(w, "addLinks") /\ Continue(w, <<>>) /\ addUrlList(Head(job[w].calls).links)
    BY <1>1 DEF addLinks
  <2>2. Kept /\ modelQueue' = modelQueue /\ workersProcessedLinksCount' = workersProcessedLinksCount
    BY <1>1 DEF addLinks, mainVars, sharedVars, modelVars
  <2>3. /\ job[w] # NoJob /\ ~Call(w, "count") /\ ~Call(w, "emitResult")
    BY <1>b, <2>1
  <2>4. crawledUrlList' = crawledUrlList /\ downloaderCrawledLinksCount' = downloaderCrawledLinksCount
    BY <2>1 DEF addUrlList
  <2>5. /\ downloaderCrawledLinksCount' = downloaderCrawledLinksCount + Cardinality(Uncounted(<<>>))
        /\ workersProcessedLinksCount'
             = workersProcessedLinksCount + (IF Call(w, "count") THEN 1 ELSE 0)
        /\ Counted(modelQueue', "result")
             = Counted(modelQueue, "result") + (IF Call(w, "emitResult") THEN 1 ELSE 0)
    BY <1>0, <1>a, <2>2, <2>3, <2>4, EmptyWhole
  <2> QED
    BY <1>0, <2>1, <2>2, <2>3, <2>4, <2>5, EmptyWhole, CallBalanced
<1>2. CASE emitResult(w)
  <2> DEFINE e == [event |-> "result", page |-> CalledPage(w), turn |-> job[w].turn]
  <2>1. Call(w, "emitResult") /\ Continue(w, <<>>) /\ modelQueue' = Append(modelQueue, e)
    BY <1>2 DEF emitResult
  <2>2. Kept /\ workersProcessedLinksCount' = workersProcessedLinksCount
        /\ crawledUrlList' = crawledUrlList /\ downloaderCrawledLinksCount' = downloaderCrawledLinksCount
    BY <1>2 DEF emitResult, mainVars, sharedVars, storeVars, listVars, counterVars
  <2>3. /\ job[w] # NoJob /\ ~Call(w, "count") /\ Call(w, "emitResult")
        /\ Head(job[w].calls).name = "emitResult" /\ Head(job[w].calls) \in CallRecords
    BY <1>b, <2>1
  <2>4. ~ExtractsOnly(job[w].calls)
    <3>1. job[w].calls \in Seq(CallRecords) /\ job[w].calls # <<>>
      BY <1>0, <2>3 DEF WorkerShape
    <3>2. 1 \in DOMAIN job[w].calls /\ Head(job[w].calls) = job[w].calls[1]
      BY <3>1
    <3> QED
      BY <2>3, <3>2 DEF ExtractsOnly
  <2>5. job[w].turn = 0
    BY <1>0, <2>4 DEF FirstWorker
  <2>6. /\ e \in ModelEvents /\ e.event = "result" /\ e \in FirstResults
    <3>1. CalledPage(w) \in Requests
      BY <2>3 DEF CalledPage, CallRecords
    <3> QED
      BY <2>5, <3>1 DEF ModelEvents, FirstResults
  <2> HIDE DEF e
  <2>7. Within(modelQueue', "result", FirstResults)
    BY <1>0, <2>1, <2>6, WithinQueue
  <2>8. Counted(modelQueue', "result") = Counted(modelQueue, "result") + (IF e.event = "result" THEN 1 ELSE 0)
    BY <1>0, <2>1, <2>6, EventsAppend
  <2>9. /\ downloaderCrawledLinksCount' = downloaderCrawledLinksCount + Cardinality(Uncounted(<<>>))
        /\ workersProcessedLinksCount'
             = workersProcessedLinksCount + (IF Call(w, "count") THEN 1 ELSE 0)
        /\ Counted(modelQueue', "result")
             = Counted(modelQueue, "result") + (IF Call(w, "emitResult") THEN 1 ELSE 0)
    BY <1>0, <1>a, <2>2, <2>3, <2>6, <2>8, EmptyWhole
  <2> QED
    BY <1>0, <2>1, <2>2, <2>3, <2>7, <2>9, EmptyWhole, CallBalanced
<1>3. CASE count(w)
  <2>1. Call(w, "count") /\ Continue(w, <<>>)
        /\ workersProcessedLinksCount' = workersProcessedLinksCount + 1
    BY <1>3 DEF count
  <2>2. Kept /\ modelQueue' = modelQueue
        /\ crawledUrlList' = crawledUrlList /\ downloaderCrawledLinksCount' = downloaderCrawledLinksCount
    BY <1>3 DEF count, mainVars, modelVars, storeVars, listVars, counterVars
  <2>3. /\ job[w] # NoJob /\ ~Call(w, "emitResult")
    BY <1>b, <2>1
  <2>5. /\ downloaderCrawledLinksCount' = downloaderCrawledLinksCount + Cardinality(Uncounted(<<>>))
        /\ workersProcessedLinksCount'
             = workersProcessedLinksCount + (IF Call(w, "count") THEN 1 ELSE 0)
        /\ Counted(modelQueue', "result")
             = Counted(modelQueue, "result") + (IF Call(w, "emitResult") THEN 1 ELSE 0)
    BY <1>0, <1>a, <2>1, <2>2, <2>3, EmptyWhole
  <2> QED
    BY <1>0, <2>1, <2>2, <2>3, <2>5, EmptyWhole, CallBalanced
<1>4. ASSUME NEW name \in {"claimHop", "claimBlocked"}, Call(w, name),
             NEW claimed \in Seq(CallRecords), Whole(claimed), Cardinality(Uncounted(claimed)) = 1,
             addCrawledUrl(CalledPage(w)),
             Continue(w, IF addCrawledUrlReturns(CalledPage(w)) THEN claimed ELSE <<>>),
             UNCHANGED <<mainVars, sharedVars, isRunning, requester, inFlight, extractDue,
                         workerQueue, modelVars>>
      PROVE  FirstTurn' /\ Balanced'
  <2> DEFINE calls == IF addCrawledUrlReturns(CalledPage(w)) THEN claimed ELSE <<>>
  <2>1. Kept /\ modelQueue' = modelQueue /\ workersProcessedLinksCount' = workersProcessedLinksCount
    BY <1>4 DEF mainVars, sharedVars, modelVars
  <2>2. /\ job[w] # NoJob /\ ~Call(w, "count") /\ ~Call(w, "emitResult")
        /\ Head(job[w].calls).name \notin {"emitResult", "extract"}
        /\ CalledPage(w) \in Requests
    <3>1. Head(job[w].calls).name = name /\ Head(job[w].calls) \in CallRecords
          /\ job[w] # NoJob /\ ~Call(w, "count") /\ ~Call(w, "emitResult")
      BY <1>b, <1>4
    <3> QED
      BY <3>1 DEF CalledPage, CallRecords
  <2>3. /\ calls \in Seq(CallRecords) /\ Whole(calls)
        /\ Cardinality(Uncounted(calls)) = IF addCrawledUrlReturns(CalledPage(w)) THEN 1 ELSE 0
    BY <1>4, EmptyWhole
  <2>4. /\ crawledUrlList \subseteq crawledUrlList'
        /\ downloaderCrawledLinksCount'
             = downloaderCrawledLinksCount + (IF addCrawledUrlReturns(CalledPage(w)) THEN 1 ELSE 0)
    BY <1>4, <2>2, StoreCounts
  <2>5. Continue(w, calls)
    BY <1>4
  <2> HIDE DEF calls
  <2>6. /\ downloaderCrawledLinksCount' = downloaderCrawledLinksCount + Cardinality(Uncounted(calls))
        /\ workersProcessedLinksCount'
             = workersProcessedLinksCount + (IF Call(w, "count") THEN 1 ELSE 0)
        /\ Counted(modelQueue', "result")
             = Counted(modelQueue, "result") + (IF Call(w, "emitResult") THEN 1 ELSE 0)
    BY <1>0, <1>a, <2>1, <2>2, <2>3, <2>4
  <2> QED
    BY <1>0, <2>1, <2>2, <2>3, <2>4, <2>5, <2>6, CallBalanced
<1>c. ASSUME NEW name, Call(w, name), name \in {"claimHop", "claimBlocked"} PROVE CalledPage(w) \in Requests
  BY <1>b, <1>c DEF CalledPage, CallRecords
<1>5. CASE claimHop(w)
  <2>1. Call(w, "claimHop") /\ CalledPage(w) \in Requests
    BY <1>5, <1>c DEF claimHop
  <2>2. /\ handlePage(CalledPage(w)) \in Seq(CallRecords) /\ Whole(handlePage(CalledPage(w)))
        /\ Cardinality(Uncounted(handlePage(CalledPage(w)))) = 1
    BY <2>1, HandledOnce
  <2>3. /\ addCrawledUrl(CalledPage(w))
        /\ Continue(w, IF addCrawledUrlReturns(CalledPage(w)) THEN handlePage(CalledPage(w)) ELSE <<>>)
        /\ UNCHANGED <<mainVars, sharedVars, isRunning, requester, inFlight, extractDue,
                       workerQueue, modelVars>>
    BY <1>5 DEF claimHop
  <2> QED
    BY <1>4, <2>1, <2>2, <2>3
<1>6. CASE claimBlocked(w)
  <2> DEFINE pair == Calls("emitResult", <<CalledPage(w)>>) \o Calls("count", <<CalledPage(w)>>)
  <2>1. Call(w, "claimBlocked") /\ CalledPage(w) \in Requests
    BY <1>6, <1>c DEF claimBlocked
  <2>2. /\ pair \in Seq(CallRecords) /\ Whole(pair) /\ Cardinality(Uncounted(pair)) = 1
    BY <2>1, BlockedOnce
  <2>3. /\ addCrawledUrl(CalledPage(w))
        /\ Continue(w, IF addCrawledUrlReturns(CalledPage(w)) THEN pair ELSE <<>>)
        /\ UNCHANGED <<mainVars, sharedVars, isRunning, requester, inFlight, extractDue,
                       workerQueue, modelVars>>
    BY <1>6 DEF claimBlocked
  <2> HIDE DEF pair
  <2> QED
    BY <1>4, <2>1, <2>2, <2>3
<1> QED
  BY <1>1, <1>2, <1>3, <1>5, <1>6

(* What the other threads do to a worker's queue while nothing is cleared. *)
Told(v) ==
  \/ workerQueue'[v] = workerQueue[v]
  \/ \E e \in WorkerEvents :
       e.event \in {"start", "stop"} /\ workerQueue'[v] = Append(workerQueue[v], e)

(* What the control steps do to the workers' queues.                       *)
LEMMA ControlTold ==
  ASSUME WorkerShape, NEW w \in Workers,
         \/ stop(w) \/ startCrawling \/ stopCrawling \/ decideCrawlingEnded
  PROVE  \A v \in Workers :
           \/ Told(v)
           \/ v = w /\ Receives(v, "stop") /\ workerQueue'[v] = Tail(workerQueue[v])
<1>0. /\ workerQueue \in [Workers -> Seq(WorkerEvents)] /\ 1 \in Workers
      /\ [event |-> "stop"] \in WorkerEvents /\ [event |-> "start"] \in WorkerEvents
  BY PipelineAssumption DEF WorkerShape, WorkerEvents, Workers
<1>1. CASE stop(w)
  <2>1. CASE w < WorkerCount
    <3>1. workerQueue' = [workerQueue EXCEPT ![w] = Tail(@),
                                 ![w + 1] = Append(@, [event |-> "stop"])]
          /\ w + 1 \in Workers /\ w + 1 # w
      BY <1>1, <2>1, PipelineAssumption DEF stop, Workers
    <3>2. /\ workerQueue'[w] = Tail(workerQueue[w])
          /\ workerQueue'[w + 1] = Append(workerQueue[w + 1], [event |-> "stop"])
          /\ \A v \in Workers : v # w /\ v # w + 1 => workerQueue'[v] = workerQueue[v]
      BY <1>0, <3>1
    <3> QED
      BY <1>0, <1>1, <3>2 DEF Told, stop
  <2>2. CASE ~(w < WorkerCount)
    <3>1. workerQueue' = [workerQueue EXCEPT ![w] = Tail(@)]
      BY <1>1, <2>2 DEF stop
    <3>2. /\ workerQueue'[w] = Tail(workerQueue[w])
          /\ \A v \in Workers : v # w => workerQueue'[v] = workerQueue[v]
      BY <1>0, <3>1
    <3> QED
      BY <1>1, <3>2 DEF Told, stop
  <2> QED
    BY <2>1, <2>2
<1>2. ASSUME NEW pc, BeginStop(pc) PROVE \A v \in Workers : Told(v)
  <2>1. workerQueue' = [workerQueue EXCEPT ![1] = Append(@, [event |-> "stop"])]
    BY <1>2 DEF BeginStop
  <2>2. /\ workerQueue'[1] = Append(workerQueue[1], [event |-> "stop"])
        /\ \A v \in Workers : v # 1 => workerQueue'[v] = workerQueue[v]
    BY <1>0, <2>1
  <2> QED
    BY <1>0, <2>2 DEF Told
<1>3. CASE startCrawling
  BY <1>0, <1>3 DEF startCrawling, Told
<1>4. CASE stopCrawling
  BY <1>2, <1>4 DEF stopCrawling
<1>5. CASE decideCrawlingEnded
  <2>1. BeginStop("endStop") \/ workerQueue' = workerQueue
    BY <1>5 DEF decideCrawlingEnded
  <2> QED
    BY <1>2, <2>1 DEF Told
<1> QED
  BY <1>1, <1>3, <1>4, <1>5

(* Commands are neither clears nor answers.                                *)
LEMMA CommandAppend ==
  ASSUME NEW q \in Seq(WorkerEvents), NEW e \in WorkerEvents, e.event \in {"start", "stop"}
  PROVE  /\ EventsAt(Append(q, e), "clear") = EventsAt(q, "clear")
         /\ EventsAt(Append(q, e), "pageLoaded") = EventsAt(q, "pageLoaded")
<1>1. ASSUME NEW name
      PROVE  EventsAt(Append(q, e), name)
               = IF e.event = name THEN EventsAt(q, name) \union {Len(q) + 1}
                 ELSE EventsAt(q, name)
  BY EventsAppend
<1> QED
  BY <1>1

(* A worker that is told something has the same pages to handle.           *)
LEMMA ToldKeeps ==
  ASSUME WorkerShape, NEW v \in Workers, FirstWorker(v), Told(v),
         inFlight' = inFlight, job' = job, crawledUrlList' = crawledUrlList
  PROVE  FirstWorker(v)' /\ Answers(workerQueue'[v]) = Answers(workerQueue[v])
<1>1. CASE workerQueue'[v] = workerQueue[v]
  BY <1>1, OtherWorker
<1>2. ASSUME NEW e \in WorkerEvents, e.event \in {"start", "stop"},
             workerQueue'[v] = Append(workerQueue[v], e)
      PROVE  FirstWorker(v)' /\ Answers(workerQueue'[v]) = Answers(workerQueue[v])
  <2>1. workerQueue[v] \in Seq(WorkerEvents)
    BY DEF WorkerShape
  <2>2. /\ EventsAt(workerQueue'[v], "clear") = EventsAt(workerQueue[v], "clear")
        /\ EventsAt(workerQueue'[v], "pageLoaded") = EventsAt(workerQueue[v], "pageLoaded")
    BY <1>2, <2>1, CommandAppend
  <2>3. Within(workerQueue'[v], "pageLoaded", FirstAnswers)
    BY <1>2, <2>1, WithinQueue DEF FirstWorker
  <2>4. FirstWorker(v)'
    <3>1. Within(workerQueue'[v], "pageLoaded", FirstAnswers')
      BY <2>3 DEF FirstAnswers, FirstLoads
    <3> QED
      BY <2>2, <3>1 DEF FirstWorker, Within, FirstLoads, FirstAnswers, Paired, ExtractsOnly
  <2> QED
    BY <2>2, <2>4 DEF Answers
<1> QED
  BY <1>1, <1>2 DEF Told

(* Steps in which no worker takes a page or counts one.                    *)
LEMMA ElsewhereBalanced ==
  ASSUME PipelineTypeOK, PipelineTypeOK', FirstTurn, Balanced, NEW w \in Workers,
         inFlight' = inFlight, job' = job, crawledUrlList' = crawledUrlList,
         downloaderCrawledLinksCount' = downloaderCrawledLinksCount,
         workersProcessedLinksCount' = workersProcessedLinksCount,
         turnaround' = turnaround, ~Clearing',
         \A v \in Workers : v # w => Told(v),
         \/ Told(w)
         \/ Receives(w, "stop") /\ workerQueue'[w] = Tail(workerQueue[w]),
         FirstQueues',
         modelControllerCrawledLinksCount + Counted(modelQueue, "result")
             + (IF modelPc # Idle THEN 1 ELSE 0)
           = modelControllerCrawledLinksCount' + Counted(modelQueue', "result")
               + (IF modelPc' # Idle THEN 1 ELSE 0),
         ShownBalance'
  PROVE  FirstTurn' /\ Balanced'
<1>0. /\ WorkerShape /\ \A v \in Workers : FirstWorker(v)
      /\ downloaderCrawledLinksCount \in Int /\ workersProcessedLinksCount \in Int
      /\ modelControllerCrawledLinksCount \in Int /\ modelControllerCrawledLinksCount' \in Int
      /\ modelQueue \in Seq(ModelEvents) /\ modelQueue' \in Seq(ModelEvents)
  <2>1. modelQueue' \in Seq(ModelEvents) /\ modelControllerCrawledLinksCount \in Int
        /\ modelControllerCrawledLinksCount' \in Int
    BY DEF PipelineTypeOK, ModelShape
  <2> QED
    BY <2>1, FirstFacts DEF FirstTurn
<1>1. \A v \in Workers : v # w => FirstWorker(v)' /\ Answers(workerQueue'[v]) = Answers(workerQueue[v])
  BY <1>0, ToldKeeps
<1>2. FirstWorker(w)' /\ Cardinality(Answers(workerQueue'[w])) = Cardinality(Answers(workerQueue[w]))
  <2>1. CASE Told(w)
    BY <1>0, <2>1, ToldKeeps
  <2>2. CASE Receives(w, "stop") /\ workerQueue'[w] = Tail(workerQueue[w])
    <3>1. /\ EventsAt(workerQueue'[w], "clear") = {}
          /\ Within(workerQueue'[w], "pageLoaded", FirstAnswers)
          /\ Cardinality(Answers(workerQueue[w]))
               = Cardinality(Answers(workerQueue'[w])) + (IF "stop" = "pageLoaded" THEN 1 ELSE 0)
          /\ Cardinality(Answers(workerQueue'[w])) \in Nat
      BY <1>0, <2>2, FirstEvent
    <3>2. (IF "stop" = "pageLoaded" THEN 1 ELSE 0) = 0
      OBVIOUS
    <3>3. Within(workerQueue'[w], "pageLoaded", FirstAnswers')
      BY <3>1 DEF FirstAnswers, FirstLoads
    <3>4. FirstWorker(w)'
      BY <1>0, <3>1, <3>3 DEF FirstWorker, Within, FirstLoads, FirstAnswers, Paired, ExtractsOnly
    <3> QED
      BY <3>1, <3>2, <3>4
  <2> QED
    BY <2>1, <2>2
<1>3. Taken(w)' = Taken(w) /\ Taken(w) \in Int
  <2>1. /\ Cardinality(Answers(workerQueue[w])) \in Int
        /\ Cardinality(Uncounted(job[w].calls)) \in Int /\ Cardinality(inFlight[w]) \in Int
    BY <1>0, TakenTyped DEF FirstWorker
  <2> QED
    BY <1>2, <2>1 DEF Taken
<1>4. Call(w, "count")' <=> Call(w, "count")
  BY DEF Call
<1>5. downloaderCrawledLinksCount' + workersProcessedLinksCount + Taken(w)
        = downloaderCrawledLinksCount + workersProcessedLinksCount' + Taken(w)'
  BY <1>3
<1>6. workersProcessedLinksCount' + (IF Call(w, "count")' THEN 1 ELSE 0)
          + modelControllerCrawledLinksCount + Counted(modelQueue, "result")
          + (IF modelPc # Idle THEN 1 ELSE 0)
        = workersProcessedLinksCount + (IF Call(w, "count") THEN 1 ELSE 0)
            + modelControllerCrawledLinksCount' + Counted(modelQueue', "result")
            + (IF modelPc' # Idle THEN 1 ELSE 0)
  <2> DEFINE p == IF modelPc # Idle THEN 1 ELSE 0
             pp == IF modelPc' # Idle THEN 1 ELSE 0
             k == IF Call(w, "count") THEN 1 ELSE 0
             kp == IF Call(w, "count")' THEN 1 ELSE 0
             u == workersProcessedLinksCount
             up == workersProcessedLinksCount'
             m == modelControllerCrawledLinksCount
             mp == modelControllerCrawledLinksCount'
             q == Counted(modelQueue, "result")
             qp == Counted(modelQueue', "result")
  <2>1. q \in Int /\ qp \in Int
    BY <1>0, CountedTyped
  <2>2. /\ p \in Int /\ pp \in Int /\ k \in Int /\ kp = k /\ u \in Int /\ up = u
        /\ m \in Int /\ mp \in Int /\ m + q + p = mp + qp + pp
    BY <1>0, <1>4
  <2> HIDE DEF p, pp, k, kp, u, up, m, mp, q, qp
  <2>3. up + kp + m + q + p = u + k + mp + qp + pp
    BY <2>1, <2>2
  <2> QED
    BY <2>3 DEF p, pp, k, kp, u, up, m, mp, q, qp
<1>7. \A v \in Workers : v # w =>
        /\ inFlight'[v] = inFlight[v] /\ job'[v] = job[v]
        /\ Answers(workerQueue'[v]) = Answers(workerQueue[v])
  BY <1>1
<1>8. \A v \in Workers : FirstWorker(v)'
  BY <1>1, <1>2
<1> QED
  BY <1>5, <1>6, <1>7, <1>8, StepBalanced

(* Starting and stopping.                                                  *)
LEMMA ControlBalanced ==
  ASSUME PipelineTypeOK, PipelineTypeOK', FirstTurn, Balanced, NEW w \in Workers,
         \/ stop(w) \/ startCrawling \/ stopCrawling \/ decideCrawlingEnded
         \/ onAboutCrawlingState \/ loadCounter \/ crawlerFinished
         \/ UNCHANGED pipelineVars
  PROVE  FirstTurn' /\ Balanced'
<1>0. WorkerShape /\ ~Clearing /\ workerQueue \in [Workers -> Seq(WorkerEvents)] /\ FirstQueues
  BY FirstFacts DEF FirstTurn
<1> DEFINE Kept == /\ inFlight' = inFlight /\ job' = job /\ turnaround' = turnaround
                   /\ modelQueue' = modelQueue /\ modelPc' = modelPc /\ mainQueue' = mainQueue
                   /\ workersProcessedLinksCount' = workersProcessedLinksCount
                   /\ modelControllerCrawledLinksCount' = modelControllerCrawledLinksCount
                   /\ modelControllerAcceptedLinksCount' = modelControllerAcceptedLinksCount
                   /\ sequencedDataCollectionLinksCount' = sequencedDataCollectionLinksCount
                   /\ crawledUrlList' = crawledUrlList
                   /\ downloaderCrawledLinksCount' = downloaderCrawledLinksCount
<1>1. ASSUME NEW s \in Workers, Kept, ~Clearing', \A v \in Workers : v # s => Told(v),
             \/ Told(s)
             \/ Receives(s, "stop") /\ workerQueue'[s] = Tail(workerQueue[s])
      PROVE  FirstTurn' /\ Balanced'
  <2>1. FirstQueues'
    BY <1>0, <1>1 DEF FirstQueues, FirstResults, FirstPages, Idle
  <2>2. ShownBalance'
    BY <1>1 DEF Balanced, ShownBalance
  <2>3. modelControllerCrawledLinksCount + Counted(modelQueue, "result")
             + (IF modelPc # Idle THEN 1 ELSE 0)
           = modelControllerCrawledLinksCount' + Counted(modelQueue', "result")
               + (IF modelPc' # Idle THEN 1 ELSE 0)
    BY <1>1, Zenon DEF Idle
  <2> QED
    BY <1>1, <2>1, <2>2, <2>3, ElsewhereBalanced
<1>2. CASE stop(w) \/ startCrawling \/ stopCrawling \/ decideCrawlingEnded
  <2>1. Kept
    BY <1>2 DEF stop, startCrawling, addUrlList, stopCrawling, decideCrawlingEnded,
       userVars, sharedVars, modelVars, storeVars, listVars, counterVars
  <2>2. ~Clearing'
    BY <1>0, <1>2 DEF stop, startCrawling, stopCrawling, decideCrawlingEnded, BeginStop, Clearing
  <2>3. \A v \in Workers :
          \/ Told(v)
          \/ v = w /\ Receives(v, "stop") /\ workerQueue'[v] = Tail(workerQueue[v])
    BY <1>0, <1>2, ControlTold
  <2> HIDE DEF Kept
  <2> QED
    BY <1>1, <2>1, <2>2, <2>3
<1>3. ASSUME Kept, workerQueue' = workerQueue, ~Clearing' PROVE FirstTurn' /\ Balanced'
  <2>1. \A v \in Workers : Told(v)
    BY <1>3 DEF Told
  <2> QED
    BY <1>1, <1>3, <2>1
<1>4. CASE onAboutCrawlingState
  BY <1>3, <1>4 DEF onAboutCrawlingState, sharedVars, workerVars, modelVars, storeVars, listVars,
                    counterVars, Clearing
<1>5. CASE loadCounter
  BY <1>0, <1>3, <1>5 DEF loadCounter, sharedVars, workerVars, modelVars, storeVars, listVars,
                    counterVars, Clearing
<1>6. CASE crawlerFinished
  BY <1>3, <1>6 DEF crawlerFinished, sharedVars, workerVars, modelVars, storeVars, listVars,
                    counterVars, Clearing
<1>7. CASE UNCHANGED pipelineVars
  BY <1>0, <1>3, <1>7 DEF pipelineVars, mainVars, sharedVars, workerVars, modelVars, storeVars, listVars,
                    counterVars, Clearing
<1> QED
  BY <1>2, <1>4, <1>5, <1>6, <1>7

(* The model controller.                                                   *)
LEMMA ModelBalanced ==
  ASSUME PipelineTypeOK, PipelineTypeOK', ClearInv, FirstTurn, Balanced, Model
  PROVE  FirstTurn' /\ Balanced'
<1>v. 1 \in Workers
  BY PipelineAssumption DEF Workers
<1>w. PICK w \in Workers : TRUE
  BY <1>v
<1>0. /\ ~Clearing /\ turnaround = 0 /\ FirstQueues
      /\ modelQueue \in Seq(ModelEvents) /\ mainQueue \in Seq(MainEvents)
      /\ modelControllerCrawledLinksCount \in Int /\ modelControllerAcceptedLinksCount \in Int
      /\ sequencedDataCollectionLinksCount \in Int
      /\ \/ modelPc = Idle
         \/ modelPc \in [call : {"add", "accept", "count"}, url : Urls, turn : Int]
  BY DEF FirstTurn, PipelineTypeOK, ModelShape, MainShape
<1>a. Counted(modelQueue, "result") \in Int /\ Counted(mainQueue, "added") \in Int
  BY <1>0, CountedTyped
<1>b. ~modelClear
  <2> SUFFICES ASSUME modelClear PROVE FALSE
    OBVIOUS
  <2>1. modelQueue # <<>> /\ Head(modelQueue).event = "clear"
    BY DEF modelClear, ModelEvent
  <2> QED
    BY <1>0, <2>1, ClearHead DEF Clearing
<1> DEFINE Kept == /\ inFlight' = inFlight /\ job' = job /\ workerQueue' = workerQueue
                   /\ turnaround' = turnaround /\ mainPc' = mainPc
                   /\ workersProcessedLinksCount' = workersProcessedLinksCount
                   /\ sequencedDataCollectionLinksCount' = sequencedDataCollectionLinksCount
                   /\ crawledUrlList' = crawledUrlList
                   /\ downloaderCrawledLinksCount' = downloaderCrawledLinksCount
<1>1. ASSUME Kept, FirstQueues', ShownBalance',
             modelControllerCrawledLinksCount + Counted(modelQueue, "result")
                 + (IF modelPc # Idle THEN 1 ELSE 0)
               = modelControllerCrawledLinksCount' + Counted(modelQueue', "result")
                   + (IF modelPc' # Idle THEN 1 ELSE 0)
      PROVE  FirstTurn' /\ Balanced'
  <2>1. \A v \in Workers : Told(v)
    BY <1>1 DEF Told
  <2>2. ~Clearing'
    BY <1>0, <1>1 DEF Clearing
  <2> QED
    BY <1>w, <1>1, <2>1, <2>2, ElsewhereBalanced
<1>c. modelControllerAcceptedLinksCount + (IF modelPc.call = "accept" THEN 1 ELSE 0)
        = sequencedDataCollectionLinksCount + Counted(mainQueue, "added")
  BY DEF Balanced, ShownBalance
<1>2. CASE handleWorkerResult
  <2> DEFINE result == Head(modelQueue)
             pc == [call |-> IF result.page \in Filtered \/ PageUrl[result.page] \in crawledStorage
                             THEN "count" ELSE "add",
                    url |-> PageUrl[result.page], turn |-> result.turn]
  <2>1. /\ Kept /\ mainQueue' = mainQueue
        /\ modelControllerCrawledLinksCount' = modelControllerCrawledLinksCount
        /\ modelControllerAcceptedLinksCount' = modelControllerAcceptedLinksCount
    BY <1>2 DEF handleWorkerResult, mainVars, sharedVars, workerVars, storeVars, listVars, counterVars
  <2>2. /\ modelPc = Idle /\ modelQueue # <<>> /\ result.event = "result"
        /\ modelQueue' = Tail(modelQueue)
    BY <1>2 DEF handleWorkerResult, ModelEvent
  <2>3. Within(modelQueue', "result", FirstResults) /\ result \in FirstResults
    BY <1>0, <2>2, WithinQueue DEF FirstQueues
  <2>4. result.turn = 0 /\ AcceptsResult(result)
    BY <1>0, <2>3 DEF FirstResults, AcceptsResult
  <2>5. modelPc' = pc
    BY <1>2, <2>4 DEF handleWorkerResult
  <2>6. pc # Idle /\ pc.call # "accept" /\ pc.turn = 0 /\ Idle.call # "accept"
    <3>1. pc.call \in {"count", "add"} /\ Idle.call = "none" /\ pc.turn = 0
      BY <2>4 DEF Idle
    <3> QED
      BY <3>1
  <2>7. Counted(modelQueue, "result") = Counted(modelQueue', "result") + 1
        /\ Counted(modelQueue', "result") \in Int
    BY <1>0, <2>2, EventsTail
  <2> HIDE DEF pc, result
  <2>8. FirstQueues'
    BY <1>0, <2>1, <2>3, <2>5, <2>6 DEF FirstQueues, FirstResults, FirstPages
  <2>9. ShownBalance'
    BY <1>0, <1>a, <1>c, <2>1, <2>2, <2>5, <2>6 DEF ShownBalance
  <2>10. modelControllerCrawledLinksCount + Counted(modelQueue, "result")
                 + (IF modelPc # Idle THEN 1 ELSE 0)
               = modelControllerCrawledLinksCount' + Counted(modelQueue', "result")
                   + (IF modelPc' # Idle THEN 1 ELSE 0)
    BY <1>0, <1>a, <2>1, <2>2, <2>5, <2>6, <2>7
  <2> QED
    BY <1>1, <2>1, <2>8, <2>9, <2>10
<1>d. ASSUME NEW call \in {"add", "accept", "count"}, modelPc.call = call
      PROVE  modelPc # Idle /\ modelPc.turn = 0
             /\ modelPc \in [call : {"add", "accept", "count"}, url : Urls, turn : Int]
  <2>1. modelPc # Idle
    BY <1>d DEF Idle
  <2> QED
    BY <1>0, <2>1 DEF FirstQueues
<1>3. CASE modelAdd
  <2> DEFINE e == [event |-> "added", url |-> modelPc.url, turn |-> modelPc.turn]
             pc == [modelPc EXCEPT !.call = "accept"]
  <2>1. /\ Kept /\ modelQueue' = modelQueue /\ mainQueue' = Append(mainQueue, e) /\ modelPc' = pc
        /\ modelControllerCrawledLinksCount' = modelControllerCrawledLinksCount
        /\ modelControllerAcceptedLinksCount' = modelControllerAcceptedLinksCount
        /\ modelPc.call = "add"
    BY <1>3 DEF modelAdd, userVars, sharedVars, workerVars, storeVars, listVars, counterVars
  <2>2. /\ modelPc # Idle /\ modelPc.turn = 0
        /\ modelPc \in [call : {"add", "accept", "count"}, url : Urls, turn : Int]
    BY <1>d, <2>1
  <2>3. pc # Idle /\ pc.call = "accept" /\ pc.turn = 0
    <3>1. pc.call = "accept" /\ pc.turn = 0 /\ Idle.call = "none"
      BY <2>2 DEF Idle
    <3> QED
      BY <3>1
  <2>4. e \in MainEvents /\ e \in FirstPages /\ e.event = "added"
    BY <2>2 DEF MainEvents, FirstPages
  <2> HIDE DEF e, pc
  <2>5. /\ EventsAt(mainQueue', "cleared") = EventsAt(mainQueue, "cleared")
        /\ Counted(mainQueue', "added") = Counted(mainQueue, "added") + 1
    <3>1. ASSUME NEW name
          PROVE  /\ EventsAt(Append(mainQueue, e), name)
                      = IF e.event = name THEN EventsAt(mainQueue, name) \union {Len(mainQueue) + 1}
                        ELSE EventsAt(mainQueue, name)
                 /\ Counted(Append(mainQueue, e), name)
                      = Counted(mainQueue, name) + (IF e.event = name THEN 1 ELSE 0)
      BY <1>0, <2>4, EventsAppend
    <3> QED
      BY <2>1, <2>4, <3>1
  <2>6. Within(mainQueue', "added", FirstPages)
    BY <1>0, <2>1, <2>4, WithinQueue DEF FirstQueues
  <2>8. FirstQueues'
    BY <1>0, <2>1, <2>3, <2>5, <2>6 DEF FirstQueues, FirstResults, FirstPages
  <2>9. ShownBalance'
    BY <1>0, <1>a, <1>c, <2>1, <2>2, <2>3, <2>5 DEF ShownBalance
  <2>10. modelControllerCrawledLinksCount + Counted(modelQueue, "result")
                 + (IF modelPc # Idle THEN 1 ELSE 0)
               = modelControllerCrawledLinksCount' + Counted(modelQueue', "result")
                   + (IF modelPc' # Idle THEN 1 ELSE 0)
    BY <1>0, <1>a, <2>1, <2>2, <2>3
  <2> QED
    BY <1>1, <2>1, <2>8, <2>9, <2>10
<1>4. CASE modelAccept
  <2> DEFINE pc == [modelPc EXCEPT !.call = "count"]
  <2>1. /\ Kept /\ modelQueue' = modelQueue /\ mainQueue' = mainQueue /\ modelPc' = pc
        /\ modelControllerCrawledLinksCount' = modelControllerCrawledLinksCount
        /\ modelControllerAcceptedLinksCount' = modelControllerAcceptedLinksCount + 1
        /\ modelPc.call = "accept"
    BY <1>4 DEF modelAccept, mainVars, workerVars, storeVars, listVars, counterVars
  <2>2. /\ modelPc # Idle /\ modelPc.turn = 0
        /\ modelPc \in [call : {"add", "accept", "count"}, url : Urls, turn : Int]
    BY <1>d, <2>1
  <2>3. pc # Idle /\ pc.call = "count" /\ pc.turn = 0
    <3>1. pc.call = "count" /\ pc.turn = 0 /\ Idle.call = "none"
      BY <2>2 DEF Idle
    <3> QED
      BY <3>1
  <2> HIDE DEF pc
  <2>8. FirstQueues'
    BY <1>0, <2>1, <2>3 DEF FirstQueues, FirstResults, FirstPages
  <2>9. ShownBalance'
    BY <1>0, <1>a, <1>c, <2>1, <2>3 DEF ShownBalance
  <2>10. modelControllerCrawledLinksCount + Counted(modelQueue, "result")
                 + (IF modelPc # Idle THEN 1 ELSE 0)
               = modelControllerCrawledLinksCount' + Counted(modelQueue', "result")
                   + (IF modelPc' # Idle THEN 1 ELSE 0)
    BY <1>0, <1>a, <2>1, <2>2, <2>3
  <2> QED
    BY <1>1, <2>1, <2>8, <2>9, <2>10
<1>5. CASE modelCount
  <2>1. /\ Kept /\ modelQueue' = modelQueue /\ mainQueue' = mainQueue /\ modelPc' = Idle
        /\ modelControllerCrawledLinksCount' = modelControllerCrawledLinksCount + 1
        /\ modelControllerAcceptedLinksCount' = modelControllerAcceptedLinksCount
        /\ modelPc.call = "count"
    BY <1>5 DEF modelCount, mainVars, workerVars, storeVars, listVars, counterVars
  <2>2. modelPc # Idle
    BY <1>d, <2>1
  <2>8. FirstQueues'
    BY <1>0, <2>1 DEF FirstQueues, FirstResults, FirstPages
  <2>a. Idle.call = "none"
    BY DEF Idle
  <2>9. ShownBalance'
    BY <1>0, <1>a, <1>c, <2>1, <2>a DEF ShownBalance
  <2>10. modelControllerCrawledLinksCount + Counted(modelQueue, "result")
                 + (IF modelPc # Idle THEN 1 ELSE 0)
               = modelControllerCrawledLinksCount' + Counted(modelQueue', "result")
                   + (IF modelPc' # Idle THEN 1 ELSE 0)
    BY <1>0, <1>a, <2>1, <2>2
  <2> QED
    BY <1>1, <2>1, <2>8, <2>9, <2>10
<1> QED
  BY <1>b, <1>2, <1>3, <1>4, <1>5 DEF Model

(* The main thread's queue.                                                *)
LEMMA MainBalanced ==
  ASSUME PipelineTypeOK, PipelineTypeOK', FirstTurn, Balanced, MainQueue
  PROVE  FirstTurn' /\ Balanced'
<1>v. 1 \in Workers
  BY PipelineAssumption DEF Workers
<1>w. PICK w \in Workers : TRUE
  BY <1>v
<1>0. /\ ~Clearing /\ turnaround = 0 /\ FirstQueues /\ mainQueue \in Seq(MainEvents)
      /\ modelControllerAcceptedLinksCount \in Int /\ sequencedDataCollectionLinksCount \in Int
  BY DEF FirstTurn, PipelineTypeOK, MainShape
<1>1. mainQueue # <<>> /\ mainQueue' = Tail(mainQueue)
  BY DEF MainQueue, addParsedPage, onDataCleared, MainEvent
<1>2. Head(mainQueue).event # "cleared"
  BY <1>0, <1>1, EventsShift DEF FirstQueues
<1>3. addParsedPage /\ Head(mainQueue).event = "added"
  BY <1>2 DEF MainQueue, onDataCleared, addParsedPage, MainEvent
<1>4. Within(mainQueue', "added", FirstPages) /\ Head(mainQueue) \in FirstPages
  BY <1>0, <1>1, <1>3, WithinQueue DEF FirstQueues
<1>5. sequencedDataCollectionLinksCount' = sequencedDataCollectionLinksCount + 1
  BY <1>0, <1>3, <1>4 DEF addParsedPage, FirstPages
<1>6. EventsAt(mainQueue', "cleared") = {}
  BY <1>0, <1>1, EventsShift DEF FirstQueues
<1>7. Counted(mainQueue, "added") = Counted(mainQueue', "added") + 1
      /\ Counted(mainQueue', "added") \in Int
  BY <1>0, <1>1, <1>3, EventsTail
<1>8. /\ inFlight' = inFlight /\ job' = job /\ workerQueue' = workerQueue
      /\ turnaround' = turnaround /\ mainPc' = mainPc
      /\ workersProcessedLinksCount' = workersProcessedLinksCount
      /\ modelControllerCrawledLinksCount' = modelControllerCrawledLinksCount
      /\ modelControllerAcceptedLinksCount' = modelControllerAcceptedLinksCount
      /\ crawledUrlList' = crawledUrlList
      /\ downloaderCrawledLinksCount' = downloaderCrawledLinksCount
      /\ modelQueue' = modelQueue /\ modelPc' = modelPc
  BY <1>3 DEF addParsedPage, workerVars, modelVars, storeVars, listVars, counterVars
<1>9. FirstQueues'
  BY <1>0, <1>4, <1>6, <1>8 DEF FirstQueues, FirstResults, FirstPages, Idle
<1>10. ShownBalance'
  <2>1. modelControllerAcceptedLinksCount + (IF modelPc.call = "accept" THEN 1 ELSE 0)
          = sequencedDataCollectionLinksCount + Counted(mainQueue, "added")
    BY DEF Balanced, ShownBalance
  <2> QED
    BY <1>0, <1>5, <1>7, <1>8, <2>1 DEF ShownBalance
<1>11. \A v \in Workers : Told(v)
  BY <1>8 DEF Told
<1>12. ~Clearing'
  BY <1>0, <1>8 DEF Clearing
<1>13. modelControllerCrawledLinksCount + Counted(modelQueue, "result")
             + (IF modelPc # Idle THEN 1 ELSE 0)
           = modelControllerCrawledLinksCount' + Counted(modelQueue', "result")
               + (IF modelPc' # Idle THEN 1 ELSE 0)
  BY <1>8, Zenon DEF Idle
<1> QED
  BY <1>w, <1>8, <1>9, <1>10, <1>11, <1>12, <1>13, ElsewhereBalanced

(* One call of the store, but for those that clear it.                     *)
StoreCalled ==
  \/ UNCHANGED storeVars
  \/ \E urls \in SUBSET Requests : addUrlList(urls)
  \/ \E r \in Requests : extractUrl(r) \/ addCrawledUrl(r) \/ activeRequestReceived(r)

(* The crawl calls the store as the store's own specification allows.      *)
LEMMA PipelineStoreStep ==
  ASSUME PipelineTypeOK, [Next]_pipelineVars, ~clearStore, ~clearData
  PROVE  StoreCalled
<1>0. /\ pendingUrlList \subseteq Requests
      /\ job \in [Workers -> [turn : Int, calls : Seq(CallRecords)]]
      /\ workerQueue \in [Workers -> Seq(WorkerEvents)] /\ WorkerShape
  BY DEF PipelineTypeOK, StoreShape, WorkerShape
<1>1. ASSUME NEW r \in Requests, extractUrl(r) \/ addCrawledUrl(r) \/ activeRequestReceived(r)
      PROVE  StoreCalled
  BY <1>1 DEF StoreCalled
<1>2. ASSUME NEW urls \in SUBSET Requests, addUrlList(urls) PROVE StoreCalled
  BY <1>2 DEF StoreCalled
<1>3. ASSUME NEW w \in Workers, extractUrlAndDownload(w) PROVE StoreCalled
  BY <1>0, <1>1, <1>3 DEF extractUrlAndDownload, StoreCalled
<1>4. ASSUME NEW w \in Workers, NEW name, Call(w, name)
      PROVE  Head(job[w].calls) \in CallRecords /\ Head(job[w].calls).name = name
  BY <1>0, <1>4 DEF Call, WorkerShape
<1>5. ASSUME NEW w \in Workers, Worker(w) \/ LoadingDone(w) PROVE StoreCalled
  <2>1. CASE onLoadingDone(w)
    <3>1. Receives(w, "pageLoaded")
      BY <2>1 DEF onLoadingDone, Event
    <3>2. Head(workerQueue[w]).load.page \in Requests
      BY <1>0, <3>1, EventTyped
    <3> QED
      BY <1>1, <2>1, <3>2 DEF onLoadingDone, StoreCalled
  <2>2. CASE addLinks(w)
    <3>1. Head(job[w].calls).links \in SUBSET Requests
      BY <1>4, <2>2 DEF addLinks, CallRecords
    <3> QED
      BY <1>2, <2>2, <3>1 DEF addLinks
  <2>3. CASE claimHop(w) \/ claimBlocked(w)
    <3>1. CalledPage(w) \in Requests
      BY <1>4, <2>3 DEF claimHop, claimBlocked, CalledPage, CallRecords
    <3> QED
      BY <1>1, <2>3, <3>1 DEF claimHop, claimBlocked
  <2>4. CASE ExtractDue(w) \/ extract(w)
    BY <1>3, <2>4 DEF ExtractDue, extract
  <2>5. CASE LoadingDone(w) \/ start(w) \/ stop(w) \/ workerClear(w) \/ emitResult(w) \/ count(w)
    BY <2>5 DEF LoadingDone, StoreCalled, start, stop, workerClear, emitResult, count
  <2> QED
    BY <1>5, <2>1, <2>2, <2>3, <2>4, <2>5 DEF Worker
<1>6. CASE Model
  BY <1>6 DEF Model, StoreCalled, handleWorkerResult, modelAdd, modelAccept, modelCount, modelClear
<1>7. CASE startCrawling
  <2>1. {StartPage} \in SUBSET Requests
    BY PipelineAssumption
  <2> QED
    BY <1>2, <1>7, <2>1 DEF startCrawling
<1>8. CASE stopCrawling \/ MainStep
  BY <1>8 DEF stopCrawling, StoreCalled, MainStep, MainQueue, addParsedPage, onDataCleared,
     onAboutCrawlingState, loadCounter, decideCrawlingEnded, crawlerFinished
<1>9. CASE UNCHANGED pipelineVars \/ AtRest
  BY <1>9 DEF AtRest, pipelineVars, StoreCalled
<1> QED
  BY <1>5, <1>6, <1>7, <1>8, <1>9 DEF Next, User

(* Until the data is cleared: nothing counted or lost twice.               *)
BalanceInv == clears = 0 => StoreInv /\ FirstTurn /\ Balanced

(* At first everything is empty.                                           *)
LEMMA BalanceInit == Init => BalanceInv
<1> SUFFICES ASSUME Init PROVE StoreInv /\ FirstTurn /\ Balanced
  BY DEF BalanceInv
<1>1. StoreInv
  <2>1. /\ pendingUrlList = {} /\ crawledUrlList = {} /\ activeUrlList = {} /\ refreshUrlList = <<>>
        /\ downloaderCrawledLinksCount = 0 /\ downloaderPendingLinksCount = 0
        /\ limitCrawledLinksCount \in Int /\ isTrialLicense \in BOOLEAN
    BY StoreAssumption, PipelineAssumption DEF Init, EmptyStore
  <2> QED
    BY <2>1, FS_EmptySet DEF StoreInv, StoreTypeOK, ListsConsistent, CountersExact
<1>2. \A w \in Workers : /\ inFlight[w] = {} /\ workerQueue[w] = <<>> /\ job[w] = NoJob
  BY DEF Init
<1>3. modelQueue = <<>> /\ mainQueue = <<>> /\ modelPc = Idle
  BY DEF Init
<1>4. FirstTurn
  <2>1. turnaround = 0 /\ ~Clearing
    BY DEF Init, Clearing
  <2>2. \A w \in Workers : FirstWorker(w)
    <3> SUFFICES ASSUME NEW w \in Workers PROVE FirstWorker(w)
      OBVIOUS
    <3>1. inFlight[w] = {} /\ workerQueue[w] = <<>> /\ job[w].calls = <<>>
      BY <1>2 DEF NoJob
    <3>2. EventsAt(workerQueue[w], "clear") = {} /\ Within(workerQueue[w], "pageLoaded", FirstAnswers)
      BY <3>1 DEF EventsAt, Within
    <3>3. IsFiniteSet(inFlight[w])
      BY <3>1, FS_EmptySet
    <3>4. Paired(job[w].calls) /\ ExtractsOnly(job[w].calls)
      BY <3>1 DEF Paired, ExtractsOnly
    <3> QED
      BY <3>1, <3>2, <3>3, <3>4 DEF FirstWorker
  <2>3. FirstQueues
    BY <1>3 DEF FirstQueues, Within, EventsAt
  <2> QED
    BY <2>1, <2>2, <2>3 DEF FirstTurn
<1>5. InHand = 0
  <2> DEFINE A == [w \in Workers |-> Answers(workerQueue[w])]
             U == [w \in Workers |-> Uncounted(job[w].calls)]
  <2>a. \A w \in Workers : A[w] = {} /\ U[w] = {}
    BY <1>2 DEF Answers, EventsAt, Uncounted, NoJob
  <2> HIDE DEF A, U
  <2>1. SizeOf(inFlight) = 0
    BY <1>2, FS_EmptySet, SizeOfEmpty
  <2>2. SizeOf(A) = 0
    BY <2>a, FS_EmptySet, SizeOfEmpty
  <2>3. SizeOf(U) = 0
    BY <2>a, FS_EmptySet, SizeOfEmpty
  <2> QED
    BY <2>1, <2>2, <2>3 DEF InHand, A, U
<1>6. CountsDue = {} /\ Counted(modelQueue, "result") = 0 /\ Counted(mainQueue, "added") = 0
  <2>1. CountsDue = {}
    BY <1>2 DEF CountsDue, Call
  <2>2. EventsAt(modelQueue, "result") = {} /\ EventsAt(mainQueue, "added") = {}
    BY <1>3 DEF EventsAt
  <2> QED
    BY <2>1, <2>2, FS_EmptySet DEF Counted
<1>7. Cardinality(CountsDue) = 0 /\ Idle.call = "none"
  BY <1>6, FS_EmptySet DEF Idle
<1>8. Balanced
  BY <1>3, <1>5, <1>6, <1>7 DEF Init, EmptyStore, Balanced, TakenBalance, CountedBalance, ShownBalance
<1> QED
  BY <1>1, <1>4, <1>8

(* No step before the first clear loses or doubles a page.                 *)
LEMMA BalanceKept ==
  ASSUME PipelineTypeOK, PipelineTypeOK', ClearInv, StoreInv, FirstTurn, Balanced,
         [Next]_pipelineVars, clears' = clears
  PROVE  StoreInv' /\ FirstTurn' /\ Balanced'
<1>v. 1 \in Workers
  BY PipelineAssumption DEF Workers
<1>w. PICK w \in Workers : TRUE
  BY <1>v
<1>0. ~Clearing /\ clears \in Nat
  BY DEF FirstTurn, PipelineTypeOK, MainShape
<1>1. StoreInv'
  <2>1. ~clearStore /\ ~clearData
    BY <1>0 DEF clearStore, clearData, Clearing
  <2> QED
    BY <2>1, PipelineStoreStep, StoreNextInv DEF StoreCalled, StoreNext
<1>2. ASSUME NEW v \in Workers, Worker(v) \/ LoadingDone(v) PROVE FirstTurn' /\ Balanced'
  BY <1>2, LoadsBalanced, EventsBalanced, CallsBalanced, ControlBalanced DEF Worker
<1>3. CASE Model
  BY <1>1, <1>3, ModelBalanced
<1>4. CASE startCrawling \/ stopCrawling
  BY <1>1, <1>w, <1>4, ControlBalanced
<1>5. CASE MainStep
  <2>1. ~clearStore
    BY <1>0 DEF clearStore, Clearing
  <2> QED
    BY <1>1, <1>w, <1>5, <2>1, MainBalanced, ControlBalanced DEF MainStep
<1>6. ~clearData
  BY <1>0 DEF clearData
<1>7. CASE UNCHANGED pipelineVars \/ AtRest
  BY <1>1, <1>w, <1>7, ControlBalanced DEF AtRest
<1> QED
  BY <1>1, <1>2, <1>3, <1>4, <1>5, <1>6, <1>7 DEF Next, User

(* No step takes a clear back.                                             *)
LEMMA ClearsGrow ==
  ASSUME PipelineTypeOK, [Next]_pipelineVars
  PROVE  clears' = clears \/ clears' = clears + 1
<1>1. ASSUME NEW w \in Workers, Worker(w) \/ LoadingDone(w) PROVE clears' = clears
  BY <1>1 DEF Worker, LoadingDone, ExtractDue, onLoadingDone, start, stop, workerClear, extract,
     addLinks, emitResult, count, claimHop, claimBlocked, mainVars, userVars
<1>2. CASE Model
  BY <1>2 DEF Model, handleWorkerResult, modelAdd, modelAccept, modelCount, modelClear, mainVars, userVars
<1>3. CASE User
  BY <1>3 DEF User, startCrawling, stopCrawling, clearData
<1>4. CASE MainStep
  BY <1>4 DEF MainStep, MainQueue, addParsedPage, onDataCleared, onAboutCrawlingState, loadCounter,
     decideCrawlingEnded, crawlerFinished, clearStore, userVars
<1>5. CASE UNCHANGED pipelineVars \/ AtRest
  BY <1>5 DEF AtRest, pipelineVars, mainVars, userVars
<1> QED
  BY <1>1, <1>2, <1>3, <1>4, <1>5 DEF Next

(* Every page a worker took is in one place of the pipeline or in the      *)
(* counter behind it.                                                      *)
LEMMA BalanceHolds == Spec => []BalanceInv
<1>1. PipelineTypeOK /\ PipelineTypeOK' /\ ClearInv /\ BalanceInv /\ [Next]_pipelineVars => BalanceInv'
  <2> SUFFICES ASSUME PipelineTypeOK, PipelineTypeOK', ClearInv, BalanceInv, [Next]_pipelineVars, clears' = 0
               PROVE  StoreInv' /\ FirstTurn' /\ Balanced'
    BY DEF BalanceInv
  <2>1. clears = 0 /\ clears' = clears
    <3>1. clears \in Nat
      BY DEF PipelineTypeOK, MainShape
    <3> QED
      BY <3>1, ClearsGrow
  <2> QED
    BY <2>1, BalanceKept DEF BalanceInv
<1> QED
  BY <1>1, BalanceInit, PipelineTypeCorrect, StopControl, PTL DEF Spec

(* Until the data is cleared, every page a worker took from the store is   *)
(* in exactly one place of the pipeline or in the counter behind it,       *)
(* across stops and starts, for any site and any number of workers.        *)
THEOREM PagesBalanced == Spec => []PipelineBalanced
<1>1. BalanceInv => PipelineBalanced
  BY DEF BalanceInv, PipelineBalanced, Balanced, TakenBalance, CountedBalance, ShownBalance, CountsDue
<1> QED
  BY <1>1, BalanceHolds, PTL

-----------------------------------------------------------------------------
(***************************************************************************)
(* What is crawled, shown and followed.                                    *)
(***************************************************************************)

EventsOf(queue, name) == {queue[i] : i \in EventsAt(queue, name)}

(* What the store knows.                                                   *)
Known == pendingUrlList \union crawledUrlList

(* The download of a page is under way, or its answer is queued.           *)
Loading(r) ==
  \E w \in Workers :
    \/ \E load \in inFlight[w] : load.page = r
    \/ \E e \in EventsOf(workerQueue[w], "pageLoaded") : e.load.page = r

(* The calls the handlers of all workers have still to make.               *)
DueCalls == UNION {ToSet(job[w].calls) : w \in Workers}

(* The results on their way to the model.                                  *)
Results == EventsOf(modelQueue, "result")

(* The url the model is about to store, if any.                            *)
Adding == IF modelPc.call = "add" THEN {modelPc.url} ELSE {}

(* The urls stored, and those that what is crawled may lead to.            *)
Stored == crawledStorage \union Adding
Reach == {PageUrl[r] : r \in crawledUrlList \ Filtered}

(* A page crawled is under way to the storage of the model, or there, or   *)
(* filtered.                                                               *)
Accounted(r) ==
  \/ Loading(r) \/ [name |-> "emitResult", page |-> r] \in DueCalls
  \/ \E e \in Results : e.page = r
  \/ r \in Filtered \/ PageUrl[r] \in Stored

(* A page crawled has been followed as far as its handler went: what it    *)
(* leads to is in the store, or the call that puts it there is due.        *)
Followed(r) ==
  \/ Loading(r)
  \/ /\ \A i \in DOMAIN Links[r] :
          \/ Links[r][i] \subseteq Known
          \/ [name |-> "addLinks", page |-> r, links |-> Links[r][i]] \in DueCalls
     /\ \A b \in ToSet(Blocked[r]) :
          b \in crawledUrlList \/ [name |-> "claimBlocked", page |-> b] \in DueCalls
     /\ \/ r \in HopPages
        \/ \A h \in ToSet(Hops[r]) :
             h \in crawledUrlList \/ [name |-> "claimHop", page |-> h] \in DueCalls

(* A call that is due comes from a page crawled.                           *)
DueFrom(call) ==
  /\ call.name = "emitResult" => call.page \in crawledUrlList
  /\ call.name = "claimBlocked" => call.page \in BlockedPages
  /\ call.name = "claimHop" => call.page \in HopPages
  /\ call.name # "extract" => Known # {}

(* Nothing under way is of a page that is not crawled.                     *)
SourcesInv ==
  /\ \A r \in Requests : Loading(r) => r \in crawledUrlList
  /\ \A call \in DueCalls : DueFrom(call)
  /\ \A e \in Results : e.page \in crawledUrlList
  /\ Stored \subseteq Reach

(* No page crawled gets lost, and none is left unfollowed unless a limit   *)
(* is reached.                                                             *)
AccountedInv == \A r \in crawledUrlList : Accounted(r)
FollowedInv ==
  ~LimitReached =>
    /\ Known = {} \/ StartPage \in Known
    /\ \A r \in crawledUrlList \ BlockedPages : Followed(r)
CrawlInv == SourcesInv /\ AccountedInv /\ FollowedInv

(* The events of a name, as a queue grows and is served.                   *)
LEMMA EventsOfQueue ==
  ASSUME NEW T, NEW q \in Seq(T), NEW name
  PROVE  /\ \A e \in T : EventsOf(Append(q, e), name)
              = EventsOf(q, name) \union (IF e.event = name THEN {e} ELSE {})
         /\ q # <<>> => EventsOf(q, name)
              = EventsOf(Tail(q), name) \union (IF Head(q).event = name THEN {Head(q)} ELSE {})
<1>1. ASSUME NEW e \in T
      PROVE  EventsOf(Append(q, e), name)
              = EventsOf(q, name) \union (IF e.event = name THEN {e} ELSE {})
  <2> DEFINE a == Append(q, e)
             n == Len(q) + 1
  <2>1. /\ EventsAt(q, name) \subseteq 1..Len(q) /\ Len(q) \in Nat
        /\ \A i \in 1..Len(q) : a[i] = q[i]
        /\ a[n] = e
        /\ EventsAt(a, name) = IF e.event = name THEN EventsAt(q, name) \union {n}
                               ELSE EventsAt(q, name)
    BY EventsAppend
  <2> HIDE DEF a, n
  <2>2. \A i \in EventsAt(q, name) : a[i] = q[i]
    BY <2>1
  <2>3. CASE e.event = name
    BY <2>1, <2>2, <2>3 DEF EventsOf, a
  <2>4. CASE e.event # name
    BY <2>1, <2>2, <2>4 DEF EventsOf, a
  <2> QED
    BY <2>3, <2>4
<1>2. ASSUME q # <<>>
      PROVE  EventsOf(q, name)
              = EventsOf(Tail(q), name) \union (IF Head(q).event = name THEN {Head(q)} ELSE {})
  <2> DEFINE t == Tail(q)
             h == Head(q)
  <2>1. /\ \A i \in EventsAt(t, name) : i + 1 \in EventsAt(q, name) /\ t[i] = q[i + 1]
        /\ \A k \in EventsAt(q, name) :
             /\ k \in Nat
             /\ \/ k = 1 /\ h.event = name
                \/ k # 1 /\ k - 1 \in EventsAt(t, name)
        /\ h.event = name <=> 1 \in EventsAt(q, name)
        /\ h = q[1]
    BY <1>2, EventsShift
  <2> HIDE DEF t, h
  <2>2. \A k \in EventsAt(q, name) :
         (k = 1 /\ q[k] = h) \/ (k - 1 \in EventsAt(t, name) /\ t[k - 1] = q[k])
    <3> SUFFICES ASSUME NEW k \in EventsAt(q, name), k # 1
                 PROVE  k - 1 \in EventsAt(t, name) /\ t[k - 1] = q[k]
      BY <2>1
    <3>1. k \in Nat /\ k - 1 \in EventsAt(t, name)
      BY <2>1
    <3>2. t[k - 1] = q[(k - 1) + 1]
      BY <2>1, <3>1, Zenon
    <3>3. (k - 1) + 1 = k
      BY <3>1
    <3> QED
      BY <3>1, <3>2, <3>3
  <2>3. ASSUME NEW e \in EventsOf(q, name)
        PROVE  e \in EventsOf(t, name) \union (IF h.event = name THEN {h} ELSE {})
    BY <2>1, <2>2 DEF EventsOf, EventsAt
  <2>4. ASSUME NEW e \in EventsOf(t, name) \union (IF h.event = name THEN {h} ELSE {})
        PROVE  e \in EventsOf(q, name)
    BY <2>1 DEF EventsOf
  <2> QED
    BY <2>3, <2>4 DEF t, h
<1> QED
  BY <1>1, <1>2

(* The elements of a sequence, as it is built and taken apart.             *)
LEMMA SetOfSequence ==
  ASSUME NEW T, NEW s \in Seq(T), NEW t \in Seq(T)
  PROVE  /\ ToSet(s \o t) = ToSet(s) \union ToSet(t)
         /\ s # <<>> => ToSet(s) = {Head(s)} \union ToSet(Tail(s))
<1>1. ToSet(s \o t) = ToSet(s) \union ToSet(t)
  <2> DEFINE c == s \o t
             n == Len(s)
             m == Len(t)
  <2>1. /\ n \in Nat /\ m \in Nat /\ DOMAIN s = 1..n /\ DOMAIN t = 1..m /\ DOMAIN c = 1..(n + m)
        /\ \A i \in 1..n : c[i] = s[i]
        /\ \A i \in 1..m : c[n + i] = t[i]
    <3>1. c \in Seq(T) /\ Len(c) = n + m
      BY ConcatElements
    <3> QED
      BY <3>1, ConcatElements
  <2> HIDE DEF c, n, m
  <2>2. ASSUME NEW i \in DOMAIN c PROVE c[i] \in ToSet(s) \union ToSet(t)
    <3>1. CASE i \in 1..n
      BY <2>1, <3>1 DEF ToSet
    <3>2. CASE i \notin 1..n
      <4>1. i - n \in 1..m /\ n + (i - n) = i
        BY <2>1, <3>2
      <4> QED
        BY <2>1, <4>1 DEF ToSet
    <3> QED
      BY <3>1, <3>2
  <2>3. ASSUME NEW i \in DOMAIN s PROVE s[i] \in ToSet(c)
    BY <2>1 DEF ToSet
  <2>4. ASSUME NEW i \in DOMAIN t PROVE t[i] \in ToSet(c)
    BY <2>1 DEF ToSet
  <2> QED
    BY <2>2, <2>3, <2>4 DEF ToSet, c
<1>2. ASSUME s # <<>> PROVE ToSet(s) = {Head(s)} \union ToSet(Tail(s))
  <2> DEFINE h == Head(s)
             r == Tail(s)
             n == Len(s)
  <2>1. /\ n \in Nat /\ n >= 1 /\ DOMAIN s = 1..n /\ DOMAIN r = 1..(n - 1) /\ h = s[1]
        /\ \A i \in 1..(n - 1) : r[i] = s[i + 1]
    BY <1>2
  <2> HIDE DEF h, r, n
  <2>2. ASSUME NEW i \in DOMAIN s PROVE s[i] \in {h} \union ToSet(r)
    <3>1. CASE i = 1
      BY <2>1, <3>1
    <3>2. CASE i # 1
      <4>1. i - 1 \in 1..(n - 1) /\ (i - 1) + 1 = i
        BY <2>1, <3>2
      <4> QED
        BY <2>1, <4>1 DEF ToSet
    <3> QED
      BY <3>1, <3>2
  <2>3. ASSUME NEW i \in DOMAIN r PROVE r[i] \in ToSet(s)
    <3>1. i + 1 \in DOMAIN s /\ r[i] = s[i + 1]
      BY <2>1
    <3> QED
      BY <3>1 DEF ToSet
  <2>4. h \in ToSet(s)
    BY <2>1 DEF ToSet
  <2> QED
    BY <2>2, <2>3, <2>4 DEF ToSet, h, r
<1> QED
  BY <1>1, <1>2

(* The calls of a name, one for every page.                                *)
LEMMA SetOfCalls ==
  ASSUME NEW name \in {"extract", "emitResult", "count", "claimHop", "claimBlocked"},
         NEW pages \in Seq(Requests), NEW call
  PROVE  call \in ToSet(Calls(name, pages))
           <=> \E p \in ToSet(pages) : call = [name |-> name, page |-> p]
<1> DEFINE c == Calls(name, pages)
<1>1. /\ DOMAIN c = 1..Len(pages) /\ DOMAIN pages = 1..Len(pages)
      /\ \A i \in 1..Len(pages) : c[i] = [name |-> name, page |-> pages[i]]
  BY CallsTyped DEF Calls
<1> HIDE DEF c
<1> QED
  BY <1>1 DEF ToSet, c

(* What a page handled leads to.                                           *)
LEMMA HandledSet ==
  ASSUME NEW r \in Requests
  PROVE  /\ \A call : call \in ToSet(handlePage(r)) <=>
              \/ \E i \in DOMAIN Links[r] :
                   call = [name |-> "addLinks", page |-> r, links |-> Links[r][i]]
              \/ call = [name |-> "emitResult", page |-> r]
              \/ call = [name |-> "count", page |-> r]
              \/ \E b \in ToSet(Blocked[r]) : call = [name |-> "claimBlocked", page |-> b]
         /\ \A call : call \in ToSet(handleResponseData(r)) <=>
              \/ call = [name |-> "extract", page |-> r]
              \/ call \in ToSet(handlePage(r))
              \/ \E h \in ToSet(Hops[r]) : call = [name |-> "claimHop", page |-> h]
<1> DEFINE X == Calls("extract", <<r>>)
           A == AddLinks(r)
           E == Calls("emitResult", <<r>>)
           C == Calls("count", <<r>>)
           B == Calls("claimBlocked", Blocked[r])
           P == Calls("claimHop", Hops[r])
           H == handlePage(r)
<1>1. <<r>> \in Seq(Requests) /\ Blocked[r] \in Seq(Requests) /\ Hops[r] \in Seq(Requests)
      /\ ToSet(<<r>>) = {r}
  BY PipelineAssumption DEF ToSet
<1>2. /\ \A call : call \in ToSet(X) <=> call = [name |-> "extract", page |-> r]
      /\ \A call : call \in ToSet(E) <=> call = [name |-> "emitResult", page |-> r]
      /\ \A call : call \in ToSet(C) <=> call = [name |-> "count", page |-> r]
  <2> DEFINE one == <<r>>
  <2>1. one \in Seq(Requests) /\ \A p : p \in ToSet(one) <=> p = r
    BY <1>1
  <2> HIDE DEF one
  <2>2. ASSUME NEW name \in {"extract", "emitResult", "count"}, NEW call
        PROVE  call \in ToSet(Calls(name, one)) <=> call = [name |-> name, page |-> r]
    <3>1. call \in ToSet(Calls(name, one)) <=> \E p \in ToSet(one) : call = [name |-> name, page |-> p]
      BY <2>1, SetOfCalls
    <3> QED
      BY <3>1, <2>1
  <2> QED
    BY <2>2 DEF one
<1>3. /\ \A call : call \in ToSet(B) <=>
           \E b \in ToSet(Blocked[r]) : call = [name |-> "claimBlocked", page |-> b]
      /\ \A call : call \in ToSet(P) <=>
           \E h \in ToSet(Hops[r]) : call = [name |-> "claimHop", page |-> h]
  BY <1>1, SetOfCalls
<1>4. \A call : call \in ToSet(A) <=>
        \E i \in DOMAIN Links[r] : call = [name |-> "addLinks", page |-> r, links |-> Links[r][i]]
  <2>1. /\ DOMAIN A = 1..Len(Links[r])
        /\ \A i \in 1..Len(Links[r]) :
             A[i] = [name |-> "addLinks", page |-> r, links |-> Links[r][i]]
    BY AddLinksTyped DEF AddLinks
  <2>2. DOMAIN Links[r] = 1..Len(Links[r])
    BY PipelineAssumption
  <2> HIDE DEF A
  <2> QED
    BY <2>1, <2>2 DEF ToSet
<1>5. /\ X \in Seq(CallRecords) /\ A \in Seq(CallRecords) /\ E \in Seq(CallRecords)
      /\ C \in Seq(CallRecords) /\ B \in Seq(CallRecords) /\ P \in Seq(CallRecords)
      /\ H \in Seq(CallRecords)
  BY <1>1, CallsTyped, AddLinksTyped, HandledOnce
<1>6. H = A \o E \o C \o B /\ handleResponseData(r) = X \o H \o P
  BY DEF handlePage, handleResponseData
<1> HIDE DEF X, A, E, C, B, P, H
<1>7. ToSet(A \o E \o C \o B) = ToSet(A) \union ToSet(E) \union ToSet(C) \union ToSet(B)
  <2> DEFINE AE == A \o E
             AEC == AE \o C
  <2>1. AE \in Seq(CallRecords) /\ ToSet(AE) = ToSet(A) \union ToSet(E)
    BY <1>5, SetOfSequence, ConcatElements
  <2> HIDE DEF AE
  <2>2. AEC \in Seq(CallRecords) /\ ToSet(AEC) = ToSet(AE) \union ToSet(C)
    BY <1>5, <2>1, SetOfSequence, ConcatElements
  <2> HIDE DEF AEC
  <2>3. ToSet(AEC \o B) = ToSet(AEC) \union ToSet(B)
    BY <1>5, <2>2, SetOfSequence
  <2> QED
    BY <2>1, <2>2, <2>3 DEF AE, AEC
<1>8. ToSet(X \o H \o P) = ToSet(X) \union ToSet(H) \union ToSet(P)
  <2> DEFINE XH == X \o H
  <2>1. XH \in Seq(CallRecords) /\ ToSet(XH) = ToSet(X) \union ToSet(H)
    BY <1>5, SetOfSequence, ConcatElements
  <2> HIDE DEF XH
  <2>2. ToSet(XH \o P) = ToSet(XH) \union ToSet(P)
    BY <1>5, <2>1, SetOfSequence
  <2> QED
    BY <2>1, <2>2 DEF XH
<1>9. \A call : call \in ToSet(H) <=>
        call \in ToSet(A) \/ call \in ToSet(E) \/ call \in ToSet(C) \/ call \in ToSet(B)
  BY <1>6, <1>7
<1>10. \A call : call \in ToSet(handleResponseData(r)) <=>
        call \in ToSet(X) \/ call \in ToSet(H) \/ call \in ToSet(P)
  BY <1>6, <1>8
<1>11. \A call : call \in ToSet(H) <=>
              \/ \E i \in DOMAIN Links[r] :
                   call = [name |-> "addLinks", page |-> r, links |-> Links[r][i]]
              \/ call = [name |-> "emitResult", page |-> r]
              \/ call = [name |-> "count", page |-> r]
              \/ \E b \in ToSet(Blocked[r]) : call = [name |-> "claimBlocked", page |-> b]
  BY <1>2, <1>3, <1>4, <1>9, Zenon
<1>12. \A call : call \in ToSet(handleResponseData(r)) <=>
              \/ call = [name |-> "extract", page |-> r]
              \/ call \in ToSet(H)
              \/ \E h \in ToSet(Hops[r]) : call = [name |-> "claimHop", page |-> h]
  BY <1>2, <1>3, <1>10, Zenon
<1> QED
  BY <1>11, <1>12, Zenon DEF H

(* The calls that are due, as a handler goes on.                           *)
LEMMA ContinueDue ==
  ASSUME WorkerShape, NEW w \in Workers, job[w] # NoJob,
         NEW calls \in Seq(CallRecords), Continue(w, calls)
  PROVE  /\ Head(job[w].calls) \in DueCalls /\ Head(job[w].calls) \in CallRecords
         /\ \A call \in DueCalls : call = Head(job[w].calls) \/ call \in DueCalls'
         /\ \A call \in ToSet(calls) : call \in DueCalls'
         /\ \A call \in DueCalls' : call \in DueCalls \/ call \in ToSet(calls)
<1> DEFINE q == job[w].calls
           t == Tail(q)
           rest == calls \o t
<1>1. /\ job \in [Workers -> [turn : Int, calls : Seq(CallRecords)]]
      /\ q \in Seq(CallRecords) /\ q # <<>> /\ t \in Seq(CallRecords) /\ Head(q) \in CallRecords
  <2>1. /\ job \in [Workers -> [turn : Int, calls : Seq(CallRecords)]]
        /\ q \in Seq(CallRecords) /\ q # <<>>
    BY DEF WorkerShape
  <2> QED
    BY <2>1, EventsTail
<1>2. ToSet(rest) = ToSet(calls) \union ToSet(t) /\ ToSet(q) = {Head(q)} \union ToSet(t)
  <2> HIDE DEF q, t
  <2>1. ToSet(calls \o t) = ToSet(calls) \union ToSet(t)
    BY <1>1, SetOfSequence
  <2>2. ToSet(q) = {Head(q)} \union ToSet(Tail(q))
    BY <1>1, SetOfSequence
  <2> QED
    BY <2>1, <2>2 DEF t
<1>3. job' = [job EXCEPT ![w] = IF rest = <<>> THEN NoJob ELSE [turn |-> job[w].turn, calls |-> rest]]
  BY DEF Continue
<1>4. /\ \A v \in Workers : v # w => job'[v] = job[v]
      /\ job'[w].calls = rest
  <2> HIDE DEF rest
  <2>1. /\ \A v \in Workers : v # w => job'[v] = job[v]
        /\ job'[w] = IF rest = <<>> THEN NoJob ELSE [turn |-> job[w].turn, calls |-> rest]
    BY <1>1, <1>3
  <2> QED
    BY <2>1 DEF NoJob
<1> HIDE DEF rest, t
<1>5. \A call : call \in DueCalls <=> \E v \in Workers : call \in ToSet(job[v].calls)
  BY DEF DueCalls
<1>6. \A call : call \in DueCalls' <=> \E v \in Workers : call \in ToSet(job'[v].calls)
  BY DEF DueCalls, ToSet
<1>7. \A v \in Workers : ToSet(job'[v].calls) = IF v = w THEN ToSet(rest) ELSE ToSet(job[v].calls)
  BY <1>4
<1>8. ToSet(job[w].calls) = {Head(q)} \union ToSet(t)
  BY <1>2
<1> QED
  BY <1>1, <1>2, <1>5, <1>6, <1>7, <1>8

(* The same when a worker without a handler begins one.                    *)
LEMMA BeginDue ==
  ASSUME WorkerShape, NEW w \in Workers, job[w] = NoJob, NEW turn, NEW calls,
         job' = [job EXCEPT ![w] = [turn |-> turn, calls |-> calls]]
  PROVE  \A call : call \in DueCalls' <=> call \in DueCalls \/ call \in ToSet(calls)
<1>1. /\ \A v \in Workers : v # w => job'[v] = job[v]
      /\ job'[w].calls = calls
  BY DEF WorkerShape
<1>2. ToSet(job[w].calls) = {}
  BY DEF NoJob, ToSet
<1>3. \A v \in Workers : ToSet(job'[v].calls) = IF v = w THEN ToSet(calls) ELSE ToSet(job[v].calls)
  BY <1>1
<1>4. \A call : call \in DueCalls <=> \E v \in Workers : call \in ToSet(job[v].calls)
  BY DEF DueCalls
<1>5. \A call : call \in DueCalls' <=> \E v \in Workers : call \in ToSet(job'[v].calls)
  BY DEF DueCalls, ToSet
<1> QED
  BY <1>2, <1>3, <1>4, <1>5

(* The sizes of the lists.                                                 *)
LEMMA KnownCount ==
  ASSUME StoreInv
  PROVE  /\ IsFiniteSet(Known) /\ Known \subseteq Requests
         /\ countLinks = Cardinality(Known) /\ countLinks \in Nat
<1>1. /\ IsFiniteSet(pendingUrlList) /\ IsFiniteSet(crawledUrlList)
      /\ Cardinality(pendingUrlList) \in Nat /\ Cardinality(crawledUrlList) \in Nat
      /\ countLinks \in Nat
  BY ListsFinite DEF StoreInv
<1>2. pendingUrlList \intersect crawledUrlList = {}
  BY DEF StoreInv, ListsConsistent
<1>3. /\ IsFiniteSet(Known)
      /\ Cardinality(Known) = Cardinality(pendingUrlList) + Cardinality(crawledUrlList) - Cardinality({})
  BY <1>1, <1>2, FS_Union DEF Known
<1>4. Cardinality({}) = 0
  BY FS_EmptySet
<1>5. Known \subseteq Requests
  BY DEF StoreInv, StoreTypeOK, Known
<1> QED
  BY <1>1, <1>3, <1>4, <1>5 DEF countLinks

(* What the store knows stays known, and a limit reached stays reached.    *)
LEMMA StoreGrows ==
  ASSUME StoreInv, StoreInv', StoreCalled
  PROVE  /\ crawledUrlList \subseteq crawledUrlList' /\ Known \subseteq Known'
         /\ ~LimitReached' => ~LimitReached
         /\ limitCrawledLinksCount' = limitCrawledLinksCount /\ isTrialLicense' = isTrialLicense
<1>1. /\ crawledUrlList \subseteq crawledUrlList' /\ Known \subseteq Known'
      /\ limitCrawledLinksCount' = limitCrawledLinksCount /\ isTrialLicense' = isTrialLicense
  BY DEF StoreCalled, Known, addUrlList, extractUrl, addCrawledUrl, activeRequestReceived,
         storeVars, listVars, optionVars, counterVars
<1>2. /\ countLinks = Cardinality(Known) /\ countLinks \in Nat
  BY KnownCount
<1>3. /\ IsFiniteSet(Known') /\ countLinks' = Cardinality(Known') /\ countLinks' \in Nat
  <2>1. /\ IsFiniteSet(pendingUrlList') /\ IsFiniteSet(crawledUrlList')
        /\ Cardinality(pendingUrlList') \in Nat /\ Cardinality(crawledUrlList') \in Nat
    BY StoreAssumption, FS_Subset, FS_CardinalityType DEF StoreInv, StoreTypeOK
  <2>2. pendingUrlList' \intersect crawledUrlList' = {}
    BY DEF StoreInv, ListsConsistent
  <2>3. /\ IsFiniteSet(Known')
        /\ Cardinality(Known') = Cardinality(pendingUrlList') + Cardinality(crawledUrlList') - Cardinality({})
    BY <2>1, <2>2, FS_Union DEF Known
  <2>4. Cardinality({}) = 0
    BY FS_EmptySet
  <2> QED
    BY <2>1, <2>3, <2>4 DEF countLinks
<1>4. countLinks <= countLinks'
  BY <1>1, <1>2, <1>3, FS_Subset
<1>5. limitCrawledLinksCount \in Int /\ TrialCap \in Nat
  BY StoreAssumption DEF StoreInv, StoreTypeOK
<1>6. ~LimitReached' => ~LimitReached
  BY <1>1, <1>2, <1>3, <1>4, <1>5 DEF LimitReached
<1> QED
  BY <1>1, <1>6

(* A list of links gets in whole unless a limit stops it.                  *)
LEMMA AllGetIn ==
  ASSUME StoreInv, StoreInv', NEW urls \in SUBSET Requests, addUrlList(urls), ~LimitReached'
  PROVE  urls \subseteq Known'
<1> DEFINE new == NewLinks(urls)
           n == Cardinality(new)
<1>1. PICK added \in SUBSET new :
        /\ Cardinality(added) = Fitting(n)
        /\ pendingUrlList' = pendingUrlList \union added
        /\ crawledUrlList' = crawledUrlList
        /\ limitCrawledLinksCount' = limitCrawledLinksCount /\ isTrialLicense' = isTrialLicense
  BY DEF addUrlList, optionVars
<1>2. IsFiniteSet(new) /\ n \in Nat /\ IsFiniteSet(added)
  BY RequestsFinite, FS_Subset DEF NewLinks
<1>3. countLinks' = countLinks + Fitting(n)
  <2>1. Cardinality(pendingUrlList \union added) = Cardinality(pendingUrlList) + Cardinality(added)
    BY AddedCount DEF StoreInv, NewLinks
  <2>2. Cardinality(pendingUrlList) \in Int /\ Cardinality(crawledUrlList) \in Int
        /\ Cardinality(added) \in Int
    BY <1>2, ListsFinite, FS_CardinalityType DEF StoreInv
  <2> QED
    BY <1>1, <2>1, <2>2 DEF countLinks
<1>4. countLinks \in Nat /\ limitCrawledLinksCount \in Int /\ TrialCap \in Nat
      /\ isTrialLicense \in BOOLEAN
  BY KnownCount, StoreAssumption DEF StoreInv, StoreTypeOK
<1>5. /\ limitCrawledLinksCount > 0 => countLinks + Fitting(n) < limitCrawledLinksCount
      /\ isTrialLicense => countLinks + Fitting(n) < TrialCap
  <2>1. Fitting(n) \in Nat
    BY <1>2, FittingBounds DEF StoreInv
  <2> QED
    BY <1>1, <1>3, <1>4, <2>1 DEF LimitReached
<1> HIDE DEF n
<1>6. Fitting(n) = n
  BY <1>2, <1>4, <1>5 DEF Fitting
<1>7. added = new
  BY <1>1, <1>2, <1>6, FS_Subset DEF n
<1> QED
  BY <1>1, <1>7 DEF NewLinks, Known

(* What a step brings in comes from the pages crawled.                     *)
NewFromCrawled ==
  /\ \A r \in Requests : Loading(r)' => Loading(r) \/ r \in crawledUrlList'
  /\ \A call \in DueCalls' : call \in DueCalls \/ DueFrom(call)'
  /\ \A e \in Results' : e \in Results \/ e.page \in crawledUrlList'
  /\ Stored' \subseteq Stored \union Reach'

(* What a call that is no longer due has left behind.                      *)
Done(call) ==
  /\ call.name = "emitResult" => Accounted(call.page)'
  /\ call.name = "addLinks" /\ ~LimitReached' => call.links \subseteq Known'
  /\ call.name \in {"claimBlocked", "claimHop"} /\ ~LimitReached' => call.page \in crawledUrlList'

(* What a step takes away has led to something.                            *)
NothingDropped ==
  /\ \A r \in Requests : Loading(r) => Loading(r)' \/ (Accounted(r)' /\ Followed(r)')
  /\ \A call \in DueCalls : call \in DueCalls' \/ Done(call)
  /\ \A e \in Results : e \in Results' \/ Accounted(e.page)'
  /\ Stored \subseteq Stored'

(* A page newly crawled is under way, and the start page comes first.      *)
NewUnderWay ==
  /\ \A r \in crawledUrlList' \ crawledUrlList :
       Accounted(r)' /\ (r \in BlockedPages \/ Followed(r)')
  /\ ~LimitReached' /\ Known = {} => Known' = {} \/ StartPage \in Known'

(* The store takes in more, and a limit reached stays reached.             *)
StoreGrown ==
  /\ crawledUrlList \subseteq crawledUrlList' /\ Known \subseteq Known'
  /\ ~LimitReached' => ~LimitReached

(* The invariant is kept by a step that brings in, takes away and adds     *)
(* what the definitions above say.                                         *)
LEMMA CrawlInvStep ==
  ASSUME CrawlInv, crawledUrlList \subseteq Requests, crawledUrlList' \subseteq Requests,
         StoreGrown, NewFromCrawled, NothingDropped, NewUnderWay
  PROVE  CrawlInv'
<1>1. crawledUrlList \subseteq crawledUrlList' /\ Known \subseteq Known'
  BY DEF StoreGrown
<1>2. SourcesInv'
  <2>1. ASSUME NEW r \in Requests, Loading(r)' PROVE r \in crawledUrlList'
    BY <1>1, <2>1 DEF NewFromCrawled, CrawlInv, SourcesInv
  <2>2. ASSUME NEW call \in DueCalls' PROVE DueFrom(call)'
    <3>1. CASE call \in DueCalls
      <4>1. DueFrom(call)
        BY <3>1 DEF CrawlInv, SourcesInv
      <4> QED
        BY <1>1, <4>1 DEF DueFrom
    <3> QED
      BY <3>1 DEF NewFromCrawled
  <2>3. ASSUME NEW e \in Results' PROVE e.page \in crawledUrlList'
    BY <1>1 DEF NewFromCrawled, CrawlInv, SourcesInv
  <2>4. Stored' \subseteq Reach'
    <3>1. Reach \subseteq Reach'
      BY <1>1 DEF Reach
    <3> QED
      BY <3>1 DEF NewFromCrawled, CrawlInv, SourcesInv
  <2> QED
    BY <2>1, <2>2, <2>3, <2>4 DEF SourcesInv
<1>3. ASSUME NEW r \in crawledUrlList' PROVE Accounted(r)'
  <2>1. CASE r \notin crawledUrlList
    BY <2>1 DEF NewUnderWay
  <2>2. CASE r \in crawledUrlList
    <3>1. Accounted(r) /\ r \in Requests
      BY <2>2 DEF CrawlInv, AccountedInv
    <3>2. CASE Loading(r)
      BY <3>1, <3>2 DEF NothingDropped, Accounted
    <3>3. CASE [name |-> "emitResult", page |-> r] \in DueCalls
      BY <3>3 DEF NothingDropped, Done, Accounted
    <3>4. CASE \E e \in Results : e.page = r
      BY <3>4 DEF NothingDropped, Accounted
    <3>5. CASE r \in Filtered \/ PageUrl[r] \in Stored
      BY <3>5 DEF NothingDropped, Accounted
    <3> QED
      BY <3>1, <3>2, <3>3, <3>4, <3>5 DEF Accounted
  <2> QED
    BY <2>1, <2>2
<1>4. ASSUME ~LimitReached' PROVE Known' = {} \/ StartPage \in Known'
  BY <1>1, <1>4 DEF StoreGrown, NewUnderWay, CrawlInv, FollowedInv
<1>5. ASSUME ~LimitReached', NEW r \in crawledUrlList' \ BlockedPages PROVE Followed(r)'
  <2>1. CASE r \notin crawledUrlList
    BY <2>1 DEF NewUnderWay
  <2>2. CASE r \in crawledUrlList
    <3>1. Followed(r) /\ r \in Requests
      BY <1>5, <2>2 DEF CrawlInv, FollowedInv, StoreGrown
    <3>2. CASE Loading(r)
      BY <3>1, <3>2 DEF NothingDropped, Followed
    <3>3. CASE ~Loading(r)
      <4>1. ASSUME NEW i \in DOMAIN Links[r]
            PROVE  \/ Links[r][i] \subseteq Known'
                   \/ [name |-> "addLinks", page |-> r, links |-> Links[r][i]] \in DueCalls'
        <5> DEFINE call == [name |-> "addLinks", page |-> r, links |-> Links[r][i]]
        <5>1. Links[r][i] \subseteq Known \/ call \in DueCalls
          BY <3>1, <3>3 DEF Followed
        <5>2. call \in DueCalls => call \in DueCalls' \/ call.links \subseteq Known'
          BY <1>5 DEF NothingDropped, Done
        <5> QED
          BY <1>1, <5>1, <5>2
      <4>2. ASSUME NEW name \in {"claimBlocked", "claimHop"}, NEW b,
                   b \in crawledUrlList \/ [name |-> name, page |-> b] \in DueCalls
            PROVE  b \in crawledUrlList' \/ [name |-> name, page |-> b] \in DueCalls'
        <5> DEFINE call == [name |-> name, page |-> b]
        <5>1. call \in DueCalls => call \in DueCalls' \/ call.page \in crawledUrlList'
          BY <1>5 DEF NothingDropped, Done
        <5> QED
          BY <1>1, <4>2, <5>1
      <4>3. \A b \in ToSet(Blocked[r]) :
              b \in crawledUrlList' \/ [name |-> "claimBlocked", page |-> b] \in DueCalls'
        BY <3>1, <3>3, <4>2 DEF Followed
      <4>4. \/ r \in HopPages
            \/ \A h \in ToSet(Hops[r]) :
                 h \in crawledUrlList' \/ [name |-> "claimHop", page |-> h] \in DueCalls'
        BY <3>1, <3>3, <4>2 DEF Followed
      <4> QED
        BY <4>1, <4>3, <4>4 DEF Followed, ToSet, HopPages
    <3> QED
      BY <3>2, <3>3
  <2> QED
    BY <2>1, <2>2
<1> QED
  BY <1>2, <1>3, <1>4, <1>5 DEF CrawlInv, AccountedInv, FollowedInv

(* What is loading follows from the downloads and the answers queued.      *)
LEMMA LoadingSame ==
  ASSUME inFlight' = inFlight,
         \A v \in Workers : EventsOf(workerQueue'[v], "pageLoaded") = EventsOf(workerQueue[v], "pageLoaded")
  PROVE  \A r : Loading(r)' <=> Loading(r)
BY DEF Loading, EventsOf, EventsAt

(* The calls due are those of the jobs.                                    *)
LEMMA DueSame == ASSUME job' = job PROVE DueCalls' = DueCalls
BY DEF DueCalls, ToSet

(* A step that leaves the lists alone.                                     *)
LEMMA StoreSame ==
  ASSUME pendingUrlList' = pendingUrlList, crawledUrlList' = crawledUrlList,
         limitCrawledLinksCount' = limitCrawledLinksCount, isTrialLicense' = isTrialLicense
  PROVE  /\ Known' = Known /\ (LimitReached' <=> LimitReached) /\ Reach' = Reach /\ StoreGrown
         /\ NewUnderWay
<1>1. Known' = Known /\ (LimitReached' <=> LimitReached) /\ Reach' = Reach
  BY DEF Known, LimitReached, countLinks, Reach
<1> QED
  BY <1>1 DEF StoreGrown, NewUnderWay

(* Commands and stops leave the answers in the queues.                     *)
LEMMA AnswersStay ==
  ASSUME WorkerShape, NEW v \in Workers,
         Told(v) \/ (Receives(v, "stop") /\ workerQueue'[v] = Tail(workerQueue[v]))
                 \/ (Receives(v, "start") /\ workerQueue'[v] = Tail(workerQueue[v]))
  PROVE  EventsOf(workerQueue'[v], "pageLoaded") = EventsOf(workerQueue[v], "pageLoaded")
<1>1. workerQueue[v] \in Seq(WorkerEvents)
  BY DEF WorkerShape
<1>2. CASE workerQueue'[v] = workerQueue[v]
  BY <1>2
<1>3. ASSUME NEW e \in WorkerEvents, e.event \in {"start", "stop"},
             workerQueue'[v] = Append(workerQueue[v], e)
      PROVE  EventsOf(workerQueue'[v], "pageLoaded") = EventsOf(workerQueue[v], "pageLoaded")
  <2>1. EventsOf(Append(workerQueue[v], e), "pageLoaded")
          = EventsOf(workerQueue[v], "pageLoaded") \union (IF e.event = "pageLoaded" THEN {e} ELSE {})
    BY <1>1, EventsOfQueue
  <2> QED
    BY <1>3, <2>1
<1>4. ASSUME NEW name \in {"start", "stop"}, Receives(v, name), workerQueue'[v] = Tail(workerQueue[v])
      PROVE  EventsOf(workerQueue'[v], "pageLoaded") = EventsOf(workerQueue[v], "pageLoaded")
  <2>1. workerQueue[v] # <<>> /\ Head(workerQueue[v]).event = name
    BY <1>4 DEF Receives
  <2>2. EventsOf(workerQueue[v], "pageLoaded")
          = EventsOf(Tail(workerQueue[v]), "pageLoaded")
              \union (IF Head(workerQueue[v]).event = "pageLoaded" THEN {Head(workerQueue[v])} ELSE {})
    BY <1>1, <2>1, EventsOfQueue
  <2> QED
    BY <1>4, <2>1, <2>2
<1> QED
  BY <1>2, <1>3, <1>4 DEF Told

(* Steps in which the workers' pages stay where they are.                  *)
LEMMA ElsewhereCrawl ==
  ASSUME CrawlInv, crawledUrlList \subseteq Requests,
         pendingUrlList' = pendingUrlList, crawledUrlList' = crawledUrlList,
         limitCrawledLinksCount' = limitCrawledLinksCount, isTrialLicense' = isTrialLicense,
         \A r : Loading(r)' <=> Loading(r), DueCalls' = DueCalls,
         Results' \subseteq Results, \A e \in Results : e \in Results' \/ Accounted(e.page)',
         Stored \subseteq Stored', Stored' \subseteq Stored \union Reach
  PROVE  CrawlInv'
<1>1. Reach' = Reach /\ StoreGrown /\ NewUnderWay
  BY StoreSame
<1>2. NewFromCrawled
  BY <1>1 DEF NewFromCrawled
<1>3. NothingDropped
  BY DEF NothingDropped
<1> QED
  BY <1>1, <1>2, <1>3, CrawlInvStep

(* The model's steps move a page on from the results to the storage.       *)
LEMMA ModelCrawl ==
  ASSUME PipelineTypeOK, ClearInv, FirstTurn, CrawlInv, Model
  PROVE  CrawlInv'
<1>1. /\ crawledUrlList \subseteq Requests /\ modelQueue \in Seq(ModelEvents)
      /\ ModelShape /\ turnaround = 0 /\ mainPc # "clearModel"
  BY DEF PipelineTypeOK, StoreShape, ModelShape, FirstTurn, Clearing
<1>2. ~modelClear
  <2>1. EventsAt(modelQueue, "clear") = {}
    BY <1>1 DEF ClearInv
  <2>2. modelQueue # <<>> => 1 \in DOMAIN modelQueue /\ Head(modelQueue) = modelQueue[1]
    BY <1>1
  <2> QED
    BY <2>1, <2>2 DEF modelClear, ModelEvent, EventsAt
<1>3. /\ pendingUrlList' = pendingUrlList /\ crawledUrlList' = crawledUrlList
      /\ limitCrawledLinksCount' = limitCrawledLinksCount /\ isTrialLicense' = isTrialLicense
      /\ inFlight' = inFlight /\ workerQueue' = workerQueue /\ job' = job
  BY <1>2 DEF Model, handleWorkerResult, modelAdd, modelAccept, modelCount,
     storeVars, listVars, optionVars, workerVars
<1>4. (\A r : Loading(r)' <=> Loading(r)) /\ DueCalls' = DueCalls
  BY <1>3, LoadingSame, DueSame
<1>5. CASE modelAdd \/ modelAccept \/ modelCount
  <2>1. Results' = Results
    BY <1>5 DEF modelAdd, modelAccept, modelCount, Results, EventsOf, EventsAt
  <2>2. modelPc # Idle /\ modelPc \in [call : {"add", "accept", "count"}, url : Urls, turn : Int]
    BY <1>1, <1>5 DEF modelAdd, modelAccept, modelCount, Idle, ModelShape
  <2>3. Stored' = Stored
    <3>1. CASE modelAdd
      <4>1. modelPc'.call = "accept" /\ modelPc.call = "add"
        BY <2>2, <3>1 DEF modelAdd
      <4> QED
        BY <3>1, <4>1 DEF modelAdd, Stored, Adding
    <3>2. CASE modelAccept
      <4>1. modelPc'.call = "count" /\ modelPc.call = "accept"
        BY <2>2, <3>2 DEF modelAccept
      <4> QED
        BY <3>2, <4>1 DEF modelAccept, Stored, Adding
    <3>3. CASE modelCount
      BY <3>3 DEF modelCount, Stored, Adding, Idle
    <3> QED
      BY <1>5, <3>1, <3>2, <3>3
  <2> QED
    BY <1>1, <1>3, <1>4, <2>1, <2>3, ElsewhereCrawl
<1>6. CASE handleWorkerResult
  <2>e. PICK e : e = Head(modelQueue)
    OBVIOUS
  <2>r. PICK r : r = e.page
    OBVIOUS
  <2>1. /\ modelPc = Idle /\ modelQueue # <<>> /\ e.event = "result" /\ modelQueue' = Tail(modelQueue)
        /\ crawledStorage' = crawledStorage
        /\ modelPc' = IF ~AcceptsResult(e) THEN Idle
                      ELSE [call |-> IF r \in Filtered \/ PageUrl[r] \in crawledStorage
                                     THEN "count" ELSE "add",
                            url |-> PageUrl[r], turn |-> e.turn]
    BY <1>6, <2>e, <2>r DEF handleWorkerResult, ModelEvent
  <2>2. Results = Results' \union {e}
    <3>1. EventsOf(modelQueue, "result")
            = EventsOf(Tail(modelQueue), "result") \union (IF e.event = "result" THEN {e} ELSE {})
      BY <1>1, <2>1, <2>e, EventsOfQueue
    <3>2. Results' = EventsOf(Tail(modelQueue), "result")
      BY <2>1 DEF Results, EventsOf, EventsAt
    <3> QED
      BY <2>1, <3>1, <3>2 DEF Results
  <2>3. e \in FirstResults
    <3>1. 1 \in EventsAt(modelQueue, "result") /\ e = modelQueue[1]
      BY <1>1, <2>1, <2>e DEF EventsAt
    <3> QED
      BY <3>1 DEF FirstTurn, FirstQueues, Within
  <2>4. AcceptsResult(e)
    BY <1>1, <2>3 DEF AcceptsResult, FirstResults
  <2>5. r \in crawledUrlList
    BY <2>2, <2>r DEF CrawlInv, SourcesInv
  <2>6. Stored = crawledStorage
    BY <2>1 DEF Stored, Adding, Idle
  <2>7. Stored' = crawledStorage \union
                    (IF r \in Filtered \/ PageUrl[r] \in crawledStorage THEN {} ELSE {PageUrl[r]})
    BY <2>1, <2>4 DEF Stored, Adding
  <2>8. Accounted(r)'
    BY <2>7 DEF Accounted
  <2>9. PageUrl[r] \in Reach \/ r \in Filtered
    BY <2>5 DEF Reach
  <2> QED
    <3>1. \A f \in Results : f \in Results' \/ Accounted(f.page)'
      BY <2>2, <2>8, <2>r
    <3>2. Stored \subseteq Stored' /\ Stored' \subseteq Stored \union Reach
      BY <2>6, <2>7, <2>9
    <3> QED
      BY <1>1, <1>3, <1>4, <2>2, <3>1, <3>2, ElsewhereCrawl
<1> QED
  BY <1>2, <1>5, <1>6 DEF Model

(* The main thread and the commands leave the pages where they are.        *)
LEMMA ControlCrawl ==
  ASSUME PipelineTypeOK, StoreInv, StoreInv', StoreCalled, CrawlInv, ~Clearing, NEW w \in Workers,
         \/ stop(w) \/ startCrawling \/ stopCrawling \/ MainStep \/ UNCHANGED pipelineVars
  PROVE  CrawlInv'
<1>1. /\ WorkerShape /\ crawledUrlList \subseteq Requests /\ crawledUrlList' \subseteq Requests
      /\ ~clearStore
  BY DEF PipelineTypeOK, StoreShape, StoreInv, StoreTypeOK, clearStore, Clearing
<1>2. /\ inFlight' = inFlight /\ job' = job
      /\ modelQueue' = modelQueue /\ modelPc' = modelPc /\ crawledStorage' = crawledStorage
  BY <1>1 DEF MainStep, MainQueue, stop, startCrawling, stopCrawling, addParsedPage, onDataCleared,
     onAboutCrawlingState, loadCounter, decideCrawlingEnded, crawlerFinished, pipelineVars,
     workerVars, modelVars
<1>3. \/ workerQueue' = workerQueue
      \/ stop(w) \/ startCrawling \/ stopCrawling \/ decideCrawlingEnded
  BY <1>1 DEF MainStep, MainQueue, addParsedPage, onDataCleared, onAboutCrawlingState,
     loadCounter, crawlerFinished, pipelineVars, workerVars
<1>4. \A r : Loading(r)' <=> Loading(r)
  <2>1. \A v \in Workers : Told(v) \/ (Receives(v, "stop") /\ workerQueue'[v] = Tail(workerQueue[v]))
    BY <1>1, <1>3, ControlTold DEF Told
  <2> QED
    BY <1>1, <1>2, <2>1, AnswersStay, LoadingSame
<1>5. DueCalls' = DueCalls /\ Results' = Results /\ Stored' = Stored
  BY <1>2, DueSame DEF Results, EventsOf, EventsAt, Stored, Adding
<1>6. CASE startCrawling
  <2>1. addUrlList({StartPage}) /\ {StartPage} \in SUBSET Requests
    BY <1>6, PipelineAssumption DEF startCrawling
  <2>2. StoreGrown
    BY StoreGrows DEF StoreGrown
  <2>3. NewFromCrawled /\ NothingDropped
    BY <1>4, <1>5 DEF NewFromCrawled, NothingDropped
  <2>4. NewUnderWay
    <3>1. crawledUrlList' = crawledUrlList
      BY <2>1 DEF addUrlList
    <3>2. ~LimitReached' => {StartPage} \subseteq Known'
      BY <2>1, AllGetIn
    <3> QED
      BY <3>1, <3>2 DEF NewUnderWay
  <2> QED
    BY <1>1, <2>2, <2>3, <2>4, CrawlInvStep
<1>7. CASE ~startCrawling
  <2>1. /\ pendingUrlList' = pendingUrlList /\ crawledUrlList' = crawledUrlList
        /\ limitCrawledLinksCount' = limitCrawledLinksCount /\ isTrialLicense' = isTrialLicense
    BY <1>1, <1>7 DEF MainStep, MainQueue, stop, stopCrawling, addParsedPage, onDataCleared,
       onAboutCrawlingState, loadCounter, decideCrawlingEnded, crawlerFinished, pipelineVars,
       storeVars, listVars, optionVars
  <2> QED
    BY <1>1, <1>4, <1>5, <2>1, ElsewhereCrawl
<1> QED
  BY <1>6, <1>7

(* A worker goes on with the calls of its handler.                         *)
LEMMA CallCrawl ==
  ASSUME WorkerShape, CrawlInv, crawledUrlList \subseteq Requests, crawledUrlList' \subseteq Requests,
         StoreGrown, NewUnderWay, NEW w \in Workers, job[w] # NoJob,
         NEW calls \in Seq(CallRecords), Continue(w, calls),
         \A r \in Requests : Loading(r) => Loading(r)',
         \A r \in Requests : Loading(r)' => Loading(r) \/ r \in crawledUrlList',
         NEW call, call = Head(job[w].calls), Done(call),
         \A c \in ToSet(calls) : DueFrom(c)',
         Results \subseteq Results', \A e \in Results' : e \in Results \/ e.page \in crawledUrlList',
         Stored' = Stored
  PROVE  CrawlInv'
<1>1. /\ \A c \in DueCalls : c = Head(job[w].calls) \/ c \in DueCalls'
      /\ \A c \in DueCalls' : c \in DueCalls \/ c \in ToSet(calls)
  BY ContinueDue
<1>2. NewFromCrawled
  BY <1>1 DEF NewFromCrawled
<1>3. NothingDropped
  BY <1>1 DEF NothingDropped
<1> QED
  BY <1>2, <1>3, CrawlInvStep

(* What the loader takes from the store is loading.                        *)
LEMMA ExtractLoads ==
  ASSUME PipelineTypeOK, StoreInv, StoreInv', StoreCalled, FirstTurn, NEW w \in Workers,
         extractUrlAndDownload(w), workerQueue' = workerQueue
  PROVE  /\ \A r \in Requests : Loading(r) => Loading(r)'
         /\ \A r \in Requests : Loading(r)' => Loading(r) \/ r \in crawledUrlList'
         /\ \A r \in crawledUrlList' \ crawledUrlList : Loading(r)'
         /\ Known' = Known
<1>1. /\ inFlight \in [Workers -> SUBSET Downloads] /\ pendingUrlList \subseteq Requests
  BY DEF PipelineTypeOK, WorkerShape, StoreShape
<1>2. CASE inFlight' = inFlight /\ UNCHANGED storeVars
  BY <1>2 DEF Loading, EventsOf, EventsAt, storeVars, listVars, Known
<1>3. ASSUME NEW r \in pendingUrlList, extractUrl(r),
             inFlight' = [inFlight EXCEPT ![w] = @ \union {[page |-> r, turn |-> turnaround]}]
      PROVE  /\ \A s \in Requests : Loading(s) => Loading(s)'
             /\ \A s \in Requests : Loading(s)' => Loading(s) \/ s \in crawledUrlList'
             /\ \A s \in crawledUrlList' \ crawledUrlList : Loading(s)'
             /\ Known' = Known
  <2> DEFINE load == [page |-> r, turn |-> turnaround]
  <2>1. /\ \A v \in Workers : v # w => inFlight'[v] = inFlight[v]
        /\ inFlight'[w] = inFlight[w] \union {load}
        /\ load.page = r
    BY <1>1, <1>3
  <2>2. crawledUrlList' = crawledUrlList \union {r} /\ pendingUrlList' = pendingUrlList \ {r}
    BY <1>3 DEF extractUrl
  <2> HIDE DEF load
  <2>3. \A v \in Workers : EventsOf(workerQueue[v], "pageLoaded")'
                             = EventsOf(workerQueue[v], "pageLoaded")
    BY DEF EventsOf, EventsAt
  <2>4. \A s : Loading(s)' <=> Loading(s) \/ s = r
    BY <2>1, <2>3 DEF Loading
  <2>5. Known' = Known
    BY <1>3, <2>2 DEF Known
  <2> QED
    BY <2>2, <2>4, <2>5
<1> QED
  BY <1>2, <1>3 DEF extractUrlAndDownload

(* The loader takes a page.                                                *)
LEMMA ExtractCrawl ==
  ASSUME PipelineTypeOK, StoreInv, StoreInv', StoreCalled, FirstTurn, CrawlInv, NEW w \in Workers,
         ExtractDue(w) \/ extract(w)
  PROVE  CrawlInv'
<1>1. /\ WorkerShape /\ crawledUrlList \subseteq Requests /\ crawledUrlList' \subseteq Requests
  BY DEF PipelineTypeOK, StoreShape, StoreInv, StoreTypeOK
<1>2. /\ extractUrlAndDownload(w) /\ workerQueue' = workerQueue
      /\ modelQueue' = modelQueue /\ modelPc' = modelPc /\ crawledStorage' = crawledStorage
  BY DEF ExtractDue, extract, modelVars
<1>3. /\ \A r \in Requests : Loading(r) => Loading(r)'
      /\ \A r \in Requests : Loading(r)' => Loading(r) \/ r \in crawledUrlList'
      /\ \A r \in crawledUrlList' \ crawledUrlList : Loading(r)'
      /\ Known' = Known
  BY <1>2, ExtractLoads
<1>4. StoreGrown
  BY StoreGrows DEF StoreGrown
<1>5. NewUnderWay
  BY <1>3 DEF NewUnderWay, Accounted, Followed
<1>6. Results' = Results /\ Stored' = Stored
  BY <1>2 DEF Results, EventsOf, EventsAt, Stored, Adding
<1>7. CASE ExtractDue(w)
  <2>1. DueCalls' = DueCalls
    BY <1>7, DueSame DEF ExtractDue
  <2>2. NewFromCrawled /\ NothingDropped
    BY <1>3, <1>6, <2>1 DEF NewFromCrawled, NothingDropped
  <2> QED
    BY <1>1, <1>4, <1>5, <2>2, CrawlInvStep
<1>8. CASE extract(w)
  <2>1. job[w] # NoJob /\ Head(job[w].calls).name = "extract" /\ Continue(w, <<>>)
    BY <1>8 DEF extract, Call
  <2>2. <<>> \in Seq(CallRecords) /\ ToSet(<<>>) = {}
    BY DEF ToSet
  <2>3. PICK call : call = Head(job[w].calls)
    OBVIOUS
  <2>4. Done(call)
    BY <2>1, <2>3 DEF Done
  <2>5. \A c \in ToSet(<<>>) : DueFrom(c)'
    BY <2>2
  <2> QED
    BY <1>1, <1>3, <1>4, <1>5, <1>6, <2>1, <2>2, <2>3, <2>4, <2>5, CallCrawl
<1> QED
  BY <1>7, <1>8

(* The calls of a handler come from a page crawled.                        *)
LEMMA HandledFrom ==
  ASSUME NEW r \in Requests, r \in crawledUrlList
  PROVE  /\ \A call \in ToSet(handlePage(r)) : DueFrom(call)
         /\ \A call \in ToSet(handleResponseData(r)) : DueFrom(call)
<1>1. Known # {}
  BY DEF Known
<1>2. \A b \in ToSet(Blocked[r]) : b \in BlockedPages
  BY DEF BlockedPages
<1>3. \A h \in ToSet(Hops[r]) : h \in HopPages
  BY DEF HopPages
<1>4. ASSUME NEW call \in ToSet(handlePage(r)) PROVE DueFrom(call)
  <2>1. \/ \E i \in DOMAIN Links[r] :
             call = [name |-> "addLinks", page |-> r, links |-> Links[r][i]]
        \/ call = [name |-> "emitResult", page |-> r]
        \/ call = [name |-> "count", page |-> r]
        \/ \E b \in ToSet(Blocked[r]) : call = [name |-> "claimBlocked", page |-> b]
    BY HandledSet
  <2> QED
    BY <1>1, <1>2, <2>1 DEF DueFrom
<1>5. ASSUME NEW call \in ToSet(handleResponseData(r)) PROVE DueFrom(call)
  <2>1. \/ call = [name |-> "extract", page |-> r]
        \/ call \in ToSet(handlePage(r))
        \/ \E h \in ToSet(Hops[r]) : call = [name |-> "claimHop", page |-> h]
    BY HandledSet
  <2>2. call = [name |-> "extract", page |-> r] => DueFrom(call)
    BY DEF DueFrom
  <2>3. (\E h \in ToSet(Hops[r]) : call = [name |-> "claimHop", page |-> h]) => DueFrom(call)
    BY <1>1, <1>3 DEF DueFrom
  <2> QED
    BY <1>4, <2>1, <2>2, <2>3
<1> QED
  BY <1>4, <1>5

(* An answer is queued.                                                    *)
LEMMA LoadedCrawl ==
  ASSUME PipelineTypeOK, StoreInv, CrawlInv, FirstTurn, NEW w \in Workers, LoadingDone(w)
  PROVE  CrawlInv'
<1>1. /\ crawledUrlList \subseteq Requests
      /\ workerQueue \in [Workers -> Seq(WorkerEvents)] /\ inFlight \in [Workers -> SUBSET Downloads]
  BY DEF PipelineTypeOK, StoreShape, WorkerShape
<1>2. PICK load \in inFlight[w] :
        /\ inFlight' = [inFlight EXCEPT ![w] = @ \ {load}]
        /\ workerQueue' = [workerQueue EXCEPT
             ![w] = Append(@, [event |-> "pageLoaded", load |-> load])]
  BY DEF LoadingDone
<1>3. PICK e : e = [event |-> "pageLoaded", load |-> load]
  OBVIOUS
<1>4. e \in WorkerEvents /\ e.event = "pageLoaded" /\ e.load = load
  BY <1>1, <1>3 DEF WorkerEvents
<1>5. /\ \A v \in Workers : v # w => inFlight'[v] = inFlight[v] /\ workerQueue'[v] = workerQueue[v]
      /\ inFlight'[w] = inFlight[w] \ {load}
      /\ workerQueue'[w] = Append(workerQueue[w], e)
  BY <1>1, <1>2, <1>3
<1>6. \A v \in Workers : EventsOf(workerQueue[v], "pageLoaded")'
          = EventsOf(workerQueue[v], "pageLoaded") \union (IF v = w THEN {e} ELSE {})
  <2>1. EventsOf(Append(workerQueue[w], e), "pageLoaded")
          = EventsOf(workerQueue[w], "pageLoaded") \union (IF e.event = "pageLoaded" THEN {e} ELSE {})
    <3>1. workerQueue[w] \in Seq(WorkerEvents)
      BY <1>1
    <3> QED
      BY <1>4, <3>1, EventsOfQueue
  <2>2. \A v \in Workers : EventsOf(workerQueue[v], "pageLoaded")' = EventsOf(workerQueue'[v], "pageLoaded")
    BY DEF EventsOf, EventsAt
  <2> QED
    BY <1>4, <1>5, <2>1, <2>2
<1>7. \A r : Loading(r)' <=> Loading(r)
  <2> DEFINE With(v, r) == \/ \E l \in inFlight[v] : l.page = r
                           \/ \E f \in EventsOf(workerQueue[v], "pageLoaded") : f.load.page = r
             After(v, r) == \/ \E l \in inFlight'[v] : l.page = r
                            \/ \E f \in EventsOf(workerQueue[v], "pageLoaded")' : f.load.page = r
  <2>1. ASSUME NEW r, NEW v \in Workers PROVE After(v, r) <=> With(v, r)
    <3>1. CASE v # w
      BY <1>5, <1>6, <3>1
    <3>2. CASE v = w
      <4>1. /\ inFlight'[v] = inFlight[v] \ {load} /\ load \in inFlight[v] /\ e.load = load
            /\ EventsOf(workerQueue[v], "pageLoaded")'
                 = EventsOf(workerQueue[v], "pageLoaded") \union {e}
        BY <1>4, <1>5, <1>6, <3>2
      <4> HIDE DEF With, After
      <4>2. CASE load.page = r
        BY <4>1, <4>2 DEF With, After
      <4>3. CASE load.page # r
        BY <4>1, <4>3 DEF With, After
      <4> QED
        BY <4>2, <4>3
    <3> QED
      BY <3>1, <3>2
  <2>2. ASSUME NEW r PROVE Loading(r)' <=> Loading(r)
    <3>1. /\ Loading(r) <=> \E v \in Workers : With(v, r)
          /\ Loading(r)' <=> \E v \in Workers : After(v, r)
      BY DEF Loading
    <3> HIDE DEF With, After
    <3>2. \A v \in Workers : After(v, r) <=> With(v, r)
      BY <2>1
    <3> QED
      BY <3>1, <3>2
  <2> QED
    BY <2>2
<1>8. /\ DueCalls' = DueCalls /\ Results' = Results /\ Stored' = Stored
      /\ pendingUrlList' = pendingUrlList /\ crawledUrlList' = crawledUrlList
      /\ limitCrawledLinksCount' = limitCrawledLinksCount /\ isTrialLicense' = isTrialLicense
  BY DueSame DEF LoadingDone, Results, EventsOf, EventsAt, Stored, Adding, modelVars,
     storeVars, listVars, optionVars
<1> QED
  BY <1>1, <1>7, <1>8, ElsewhereCrawl

(* A worker is started.                                                    *)
LEMMA StartCrawl ==
  ASSUME PipelineTypeOK, CrawlInv, NEW w \in Workers, start(w)
  PROVE  CrawlInv'
<1>1. /\ WorkerShape /\ crawledUrlList \subseteq Requests
      /\ workerQueue \in [Workers -> Seq(WorkerEvents)]
  BY DEF PipelineTypeOK, StoreShape, WorkerShape
<1>2. /\ Receives(w, "start") /\ job[w] = NoJob
      /\ workerQueue'[w] = Tail(workerQueue[w])
      /\ \A v \in Workers : v # w => workerQueue'[v] = workerQueue[v]
      /\ inFlight' = inFlight
      /\ pendingUrlList' = pendingUrlList /\ crawledUrlList' = crawledUrlList
      /\ limitCrawledLinksCount' = limitCrawledLinksCount /\ isTrialLicense' = isTrialLicense
  BY <1>1 DEF start, Event, Receives, storeVars, listVars, optionVars
<1>3. \A r : Loading(r)' <=> Loading(r)
  <2>1. \A v \in Workers : EventsOf(workerQueue'[v], "pageLoaded") = EventsOf(workerQueue[v], "pageLoaded")
    BY <1>1, <1>2, AnswersStay DEF Told
  <2> QED
    BY <1>2, <2>1, LoadingSame
<1>4. Results' = Results /\ Stored' = Stored
  BY DEF start, Results, EventsOf, EventsAt, Stored, Adding, modelVars
<1>5. \A call : call \in DueCalls' <=> call \in DueCalls \/ call = [name |-> "extract", page |-> StartPage]
  <2> DEFINE one == <<StartPage>>
             c == Calls("extract", one)
  <2>1. job' = [job EXCEPT ![w] = [turn |-> -1, calls |-> c]]
    BY DEF start
  <2>2. one \in Seq(Requests) /\ ToSet(one) = {StartPage}
    BY PipelineAssumption DEF ToSet
  <2> HIDE DEF one
  <2>3. \A call : call \in ToSet(c) <=> call = [name |-> "extract", page |-> StartPage]
    BY <2>2, SetOfCalls
  <2> HIDE DEF c
  <2>4. \A call : call \in DueCalls' <=> call \in DueCalls \/ call \in ToSet(c)
    BY <1>1, <1>2, <2>1, BeginDue
  <2> QED
    BY <2>3, <2>4
<1>6. StoreGrown /\ NewUnderWay
  BY <1>2, StoreSame
<1>7. NewFromCrawled
  <2>1. DueFrom([name |-> "extract", page |-> StartPage])'
    BY DEF DueFrom
  <2> QED
    BY <1>3, <1>4, <1>5, <2>1 DEF NewFromCrawled
<1>8. NothingDropped
  BY <1>3, <1>4, <1>5 DEF NothingDropped
<1> QED
  BY <1>1, <1>2, <1>6, <1>7, <1>8, CrawlInvStep

(* A worker begins the handler of a page loaded.                           *)
LEMMA ResponseCrawl ==
  ASSUME PipelineTypeOK, StoreInv, CrawlInv, FirstTurn, NEW w \in Workers, onLoadingDone(w)
  PROVE  CrawlInv'
<1>1. /\ WorkerShape /\ crawledUrlList \subseteq Requests /\ FirstWorker(w) /\ turnaround = 0
      /\ workerQueue \in [Workers -> Seq(WorkerEvents)] /\ workerQueue[w] \in Seq(WorkerEvents)
  BY DEF PipelineTypeOK, StoreShape, WorkerShape, FirstTurn
<1>2. /\ job[w] = NoJob /\ workerQueue[w] # <<>> /\ Head(workerQueue[w]).event = "pageLoaded"
      /\ workerQueue' = [workerQueue EXCEPT ![w] = Tail(@)]
      /\ inFlight' = inFlight
      /\ modelQueue' = modelQueue /\ modelPc' = modelPc /\ crawledStorage' = crawledStorage
  BY DEF onLoadingDone, Event, Receives, modelVars
<1>3. PICK e : e = Head(workerQueue[w])
  OBVIOUS
<1>4. PICK r : r = e.load.page
  OBVIOUS
<1>5. \A v \in Workers : EventsOf(workerQueue[v], "pageLoaded")
          = EventsOf(workerQueue[v], "pageLoaded")' \union (IF v = w THEN {e} ELSE {})
  <2>1. EventsOf(workerQueue[w], "pageLoaded")
          = EventsOf(Tail(workerQueue[w]), "pageLoaded")
              \union (IF Head(workerQueue[w]).event = "pageLoaded" THEN {Head(workerQueue[w])} ELSE {})
    BY <1>1, <1>2, EventsOfQueue
  <2>2. \A v \in Workers : EventsOf(workerQueue[v], "pageLoaded")' = EventsOf(workerQueue'[v], "pageLoaded")
    BY DEF EventsOf, EventsAt
  <2>3. /\ \A v \in Workers : v # w => workerQueue'[v] = workerQueue[v]
        /\ workerQueue'[w] = Tail(workerQueue[w])
    BY <1>1, <1>2
  <2> QED
    BY <1>2, <1>3, <2>1, <2>2, <2>3
<1>6. \A s : Loading(s) <=> Loading(s)' \/ s = r
  <2> DEFINE With(v, s) == \/ \E l \in inFlight[v] : l.page = s
                           \/ \E f \in EventsOf(workerQueue[v], "pageLoaded") : f.load.page = s
             After(v, s) == \/ \E l \in inFlight'[v] : l.page = s
                            \/ \E f \in EventsOf(workerQueue[v], "pageLoaded")' : f.load.page = s
  <2>1. ASSUME NEW s, NEW v \in Workers PROVE With(v, s) <=> After(v, s) \/ (v = w /\ s = r)
    BY <1>2, <1>4, <1>5
  <2>2. ASSUME NEW s PROVE Loading(s) <=> Loading(s)' \/ s = r
    <3>1. /\ Loading(s) <=> \E v \in Workers : With(v, s)
          /\ Loading(s)' <=> \E v \in Workers : After(v, s)
      BY DEF Loading
    <3> HIDE DEF With, After
    <3>2. \A v \in Workers : With(v, s) <=> After(v, s) \/ (v = w /\ s = r)
      BY <2>1
    <3> QED
      BY <3>1, <3>2
  <2> QED
    BY <2>2
<1>7. e.load.turn = 0 /\ r \in Requests
  <2>1. 1 \in EventsAt(workerQueue[w], "pageLoaded") /\ e = workerQueue[w][1]
    BY <1>1, <1>2, <1>3 DEF EventsAt
  <2> QED
    BY <1>1, <1>4, <2>1 DEF FirstWorker, Within, FirstAnswers, FirstLoads, Downloads
<1>8. r \in crawledUrlList
  BY <1>6, <1>7 DEF CrawlInv, SourcesInv
<1>9. /\ activeRequestReceived(r)
      /\ job' = [job EXCEPT ![w] = [turn |-> e.load.turn, calls |-> handleResponseData(r)]]
  BY <1>1, <1>3, <1>4, <1>7 DEF onLoadingDone, AcceptsLoad
<1>10. \A call : call \in DueCalls' <=> call \in DueCalls \/ call \in ToSet(handleResponseData(r))
  BY <1>1, <1>2, <1>9, BeginDue
<1>11. /\ pendingUrlList' = pendingUrlList /\ crawledUrlList' = crawledUrlList
       /\ limitCrawledLinksCount' = limitCrawledLinksCount /\ isTrialLicense' = isTrialLicense
  BY <1>9 DEF activeRequestReceived, optionVars
<1>12. StoreGrown /\ NewUnderWay /\ Known' = Known
  BY <1>11, StoreSame
<1>13. Results' = Results /\ Stored' = Stored
  BY <1>2 DEF Results, EventsOf, EventsAt, Stored, Adding
<1>14. NewFromCrawled
  <2>1. \A call \in ToSet(handleResponseData(r)) : DueFrom(call)
    BY <1>7, <1>8, HandledFrom
  <2>2. \A call : DueFrom(call) => DueFrom(call)'
    BY <1>11, <1>12 DEF DueFrom
  <2> QED
    BY <1>6, <1>10, <1>13, <2>1, <2>2 DEF NewFromCrawled
<1>15. Accounted(r)' /\ Followed(r)'
  <2>1. /\ \A i \in DOMAIN Links[r] :
             [name |-> "addLinks", page |-> r, links |-> Links[r][i]] \in ToSet(handlePage(r))
        /\ [name |-> "emitResult", page |-> r] \in ToSet(handlePage(r))
        /\ \A b \in ToSet(Blocked[r]) : [name |-> "claimBlocked", page |-> b] \in ToSet(handlePage(r))
        /\ \A h \in ToSet(Hops[r]) : [name |-> "claimHop", page |-> h] \in ToSet(handleResponseData(r))
        /\ \A call \in ToSet(handlePage(r)) : call \in ToSet(handleResponseData(r))
    BY <1>7, HandledSet
  <2>2. \A b \in ToSet(Blocked[r]) : [name |-> "claimBlocked", page |-> b] \in DueCalls'
    BY <1>10, <2>1
  <2>3. \A h \in ToSet(Hops[r]) : [name |-> "claimHop", page |-> h] \in DueCalls'
    BY <1>10, <2>1
  <2>4. \A i \in DOMAIN Links[r] :
             [name |-> "addLinks", page |-> r, links |-> Links[r][i]] \in DueCalls'
    BY <1>10, <2>1
  <2>5. [name |-> "emitResult", page |-> r] \in DueCalls'
    BY <1>10, <2>1
  <2>6. Followed(r)'
    BY <2>2, <2>3, <2>4 DEF Followed, ToSet
  <2> QED
    BY <2>5, <2>6 DEF Accounted
<1>16. NothingDropped
  BY <1>6, <1>10, <1>13, <1>15 DEF NothingDropped
<1> QED
  BY <1>1, <1>11, <1>12, <1>14, <1>16, CrawlInvStep

(* A claim of the store gets the page in unless a limit is reached.        *)
LEMMA ClaimedPage ==
  ASSUME NEW p, addCrawledUrl(p)
  PROVE  /\ LimitReached => LimitReached' /\ crawledUrlList' = crawledUrlList
         /\ ~LimitReached => crawledUrlList' = crawledUrlList \union {p}
         /\ p \in crawledUrlList' \ crawledUrlList => addCrawledUrlReturns(p)
         /\ addCrawledUrlReturns(p) => p \in crawledUrlList'
BY DEF addCrawledUrl, addCrawledUrlReturns, LimitReached, countLinks, optionVars

(* The calls of a handler, but for extract.                                *)
LEMMA CallsCrawl ==
  ASSUME PipelineTypeOK, StoreInv, StoreInv', StoreCalled, CrawlInv, NEW w \in Workers,
         addLinks(w) \/ emitResult(w) \/ count(w) \/ claimHop(w) \/ claimBlocked(w)
  PROVE  CrawlInv'
<1>1. /\ WorkerShape /\ crawledUrlList \subseteq Requests /\ crawledUrlList' \subseteq Requests
      /\ modelQueue \in Seq(ModelEvents)
  BY DEF PipelineTypeOK, StoreShape, StoreInv, StoreTypeOK, ModelShape
<1>2. /\ inFlight' = inFlight /\ workerQueue' = workerQueue
      /\ modelPc' = modelPc /\ crawledStorage' = crawledStorage
      /\ job[w] # NoJob
  BY DEF addLinks, emitResult, count, claimHop, claimBlocked, modelVars, Call
<1>3. PICK call : call = Head(job[w].calls)
  OBVIOUS
<1>4. PICK p : p = call.page
  OBVIOUS
<1>5. call \in CallRecords /\ call \in DueCalls /\ DueFrom(call)
  <2>1. /\ job[w].calls \in Seq(CallRecords) /\ job[w].calls # <<>>
    BY <1>1, <1>2 DEF WorkerShape
  <2>2. call \in CallRecords /\ call \in ToSet(job[w].calls)
    BY <1>3, <2>1 DEF ToSet
  <2>3. call \in DueCalls
    BY <2>2 DEF DueCalls
  <2> QED
    BY <2>2, <2>3 DEF CrawlInv, SourcesInv
<1>6. \A r : Loading(r)' <=> Loading(r)
  BY <1>2, LoadingSame
<1>7. Stored' = Stored
  BY <1>2 DEF Stored, Adding
<1>8. StoreGrown
  BY StoreGrows DEF StoreGrown
<1>9. p \in Requests /\ CalledPage(w) = p
  BY <1>3, <1>4, <1>5 DEF CallRecords, CalledPage
<1>10. <<>> \in Seq(CallRecords) /\ ToSet(<<>>) = {}
  BY DEF ToSet
<1>11. CASE addLinks(w) \/ count(w)
  <2>1. Results' = Results /\ Continue(w, <<>>) /\ call.name \in {"addLinks", "count"}
    BY <1>3, <1>11 DEF addLinks, count, Call, Results, EventsOf, EventsAt, modelVars
  <2>2. crawledUrlList' = crawledUrlList
    BY <1>11 DEF addLinks, addUrlList, count, storeVars, listVars
  <2>3. Done(call)
    <3>1. CASE addLinks(w)
      <4>1. addUrlList(call.links) /\ call.name = "addLinks" /\ call.links \in SUBSET Requests
        BY <1>3, <1>5, <3>1 DEF addLinks, Call, CallRecords
      <4>2. ~LimitReached' => call.links \subseteq Known'
        BY <4>1, AllGetIn
      <4> QED
        BY <4>1, <4>2 DEF Done
    <3>2. CASE count(w)
      BY <1>3, <3>2 DEF count, Call, Done
    <3> QED
      BY <1>11, <3>1, <3>2
  <2>4. NewUnderWay
    BY <1>5, <2>1, <2>2 DEF NewUnderWay, DueFrom
  <2>5. \A c \in ToSet(<<>>) : DueFrom(c)'
    BY <1>10
  <2> QED
    BY <1>1, <1>2, <1>3, <1>6, <1>7, <1>8, <1>10, <2>1, <2>3, <2>4, <2>5, CallCrawl
<1>12. CASE emitResult(w)
  <2>1. PICK e : e = [event |-> "result", page |-> p, turn |-> job[w].turn]
    OBVIOUS
  <2>2. /\ Continue(w, <<>>) /\ call.name = "emitResult" /\ modelQueue' = Append(modelQueue, e)
        /\ crawledUrlList' = crawledUrlList
    BY <1>3, <1>9, <1>12, <2>1 DEF emitResult, Call, storeVars, listVars
  <2>3. Results' = Results \union {e}
    <3>1. e \in ModelEvents /\ e.event = "result"
      BY <1>1, <1>9, <2>1 DEF ModelEvents, WorkerShape
    <3>2. EventsOf(Append(modelQueue, e), "result")
            = EventsOf(modelQueue, "result") \union (IF e.event = "result" THEN {e} ELSE {})
      BY <1>1, <3>1, EventsOfQueue
    <3>3. Results' = EventsOf(modelQueue', "result")
      BY DEF Results, EventsOf, EventsAt
    <3> QED
      BY <2>2, <3>1, <3>2, <3>3 DEF Results
  <2>4. e.page = p /\ p \in crawledUrlList'
    BY <1>4, <1>5, <2>1, <2>2 DEF DueFrom
  <2>5. Done(call)
    <3>1. Accounted(p)'
      BY <2>3, <2>4 DEF Accounted
    <3> QED
      BY <1>4, <2>2, <3>1 DEF Done
  <2>6. NewUnderWay
    BY <1>5, <2>2 DEF NewUnderWay, DueFrom
  <2>7. \A c \in ToSet(<<>>) : DueFrom(c)'
    BY <1>10
  <2>8. Results \subseteq Results' /\ \A f \in Results' : f \in Results \/ f.page \in crawledUrlList'
    BY <2>3, <2>4
  <2> QED
    BY <1>1, <1>2, <1>3, <1>6, <1>7, <1>8, <1>10, <2>2, <2>5, <2>6, <2>7, <2>8, CallCrawl
<1>13. CASE claimHop(w) \/ claimBlocked(w)
  <2>1. PICK calls : calls =
          IF addCrawledUrlReturns(p)
          THEN IF call.name = "claimHop" THEN handlePage(p)
               ELSE Calls("emitResult", <<p>>) \o Calls("count", <<p>>)
          ELSE <<>>
    OBVIOUS
  <2>2. /\ addCrawledUrl(p) /\ Continue(w, calls) /\ call.name \in {"claimHop", "claimBlocked"}
        /\ Results' = Results
    BY <1>3, <1>9, <1>13, <2>1
       DEF claimHop, claimBlocked, Call, Results, EventsOf, EventsAt, modelVars
  <2>3. calls \in Seq(CallRecords)
    BY <1>9, <1>10, <2>1, HandledOnce, BlockedOnce
  <2>4. /\ LimitReached => LimitReached' /\ crawledUrlList' = crawledUrlList
        /\ ~LimitReached => crawledUrlList' = crawledUrlList \union {p}
        /\ p \in crawledUrlList' \ crawledUrlList => addCrawledUrlReturns(p)
        /\ addCrawledUrlReturns(p) => p \in crawledUrlList'
    BY <2>2, ClaimedPage
  <2>5. Done(call)
    BY <1>4, <2>2, <2>4 DEF Done
  <2>6. p \in crawledUrlList' => Known' # {}
    BY DEF Known
  <2>7. \A c \in ToSet(calls) :
          \/ addCrawledUrlReturns(p) /\ call.name = "claimHop" /\ c \in ToSet(handlePage(p))
          \/ addCrawledUrlReturns(p) /\ call.name = "claimBlocked"
             /\ c \in {[name |-> "emitResult", page |-> p], [name |-> "count", page |-> p]}
    <3>1. CASE addCrawledUrlReturns(p) /\ call.name = "claimBlocked"
      <4> DEFINE pair == Calls("emitResult", <<p>>) \o Calls("count", <<p>>)
      <4>1. /\ pair \in Seq(CallRecords) /\ Len(pair) = 2
            /\ pair[1] = [name |-> "emitResult", page |-> p]
            /\ pair[2] = [name |-> "count", page |-> p]
        BY <1>9, BlockedOnce
      <4>2. calls = pair
        BY <2>1, <3>1
      <4> HIDE DEF pair
      <4>3. DOMAIN pair = 1..2
        BY <4>1
      <4> QED
        BY <3>1, <4>1, <4>2, <4>3 DEF ToSet
    <3>2. CASE ~addCrawledUrlReturns(p)
      BY <1>10, <2>1, <3>2
    <3>3. CASE addCrawledUrlReturns(p) /\ call.name = "claimHop"
      BY <2>1, <3>3
    <3> QED
      BY <2>2, <3>1, <3>2, <3>3
  <2>8. \A c \in ToSet(calls) : DueFrom(c)'
    <3>1. ASSUME NEW c \in ToSet(calls) PROVE DueFrom(c)'
      <4>1. p \in crawledUrlList'
        BY <2>4, <2>7
      <4>2. CASE c \in ToSet(handlePage(p))
        <5>1. \/ \E i \in DOMAIN Links[p] :
                   c = [name |-> "addLinks", page |-> p, links |-> Links[p][i]]
              \/ c = [name |-> "emitResult", page |-> p]
              \/ c = [name |-> "count", page |-> p]
              \/ \E b \in ToSet(Blocked[p]) : c = [name |-> "claimBlocked", page |-> b]
          BY <1>9, <4>2, HandledSet
        <5>2. \A b \in ToSet(Blocked[p]) : b \in BlockedPages
          BY <1>9 DEF BlockedPages
        <5>3. /\ c.name = "emitResult" => c.page \in crawledUrlList'
              /\ c.name = "claimBlocked" => c.page \in BlockedPages
              /\ c.name # "claimHop"
          BY <4>1, <5>1, <5>2
        <5> QED
          BY <2>6, <4>1, <5>3 DEF DueFrom, BlockedPages, HopPages, ToSet
      <4>3. CASE c \in {[name |-> "emitResult", page |-> p], [name |-> "count", page |-> p]}
        BY <2>6, <4>1, <4>3 DEF DueFrom
      <4> QED
        BY <2>7, <4>2, <4>3
    <3> QED
      BY <3>1
  <2>9. \A c \in ToSet(calls) : c \in DueCalls'
    BY <1>1, <1>2, <2>2, <2>3, ContinueDue
  <2>10. NewUnderWay
    <3>1. Known # {}
      BY <1>5, <2>2 DEF DueFrom
    <3>2. ASSUME NEW r \in crawledUrlList' \ crawledUrlList
          PROVE  Accounted(r)' /\ (r \in BlockedPages \/ Followed(r)')
      <4>1. r = p /\ addCrawledUrlReturns(p)
        BY <2>4, <3>2
      <4>2. CASE call.name = "claimBlocked"
        <5> DEFINE pair == Calls("emitResult", <<p>>) \o Calls("count", <<p>>)
        <5>1. /\ pair \in Seq(CallRecords) /\ Len(pair) = 2
              /\ pair[1] = [name |-> "emitResult", page |-> p]
          BY <1>9, BlockedOnce
        <5>2. calls = pair
          BY <2>1, <4>1, <4>2
        <5> HIDE DEF pair
        <5>3. [name |-> "emitResult", page |-> p] \in ToSet(calls)
          BY <5>1, <5>2 DEF ToSet
        <5>4. [name |-> "emitResult", page |-> r] \in DueCalls'
          BY <2>9, <4>1, <5>3
        <5>5. r \in BlockedPages
          BY <1>4, <1>5, <4>1, <4>2 DEF DueFrom
        <5> QED
          BY <5>4, <5>5 DEF Accounted
      <4>3. CASE call.name = "claimHop"
        <5>1. calls = handlePage(r)
          BY <2>1, <4>1, <4>3
        <5>2. /\ \A i \in DOMAIN Links[r] :
                   [name |-> "addLinks", page |-> r, links |-> Links[r][i]] \in ToSet(calls)
              /\ [name |-> "emitResult", page |-> r] \in ToSet(calls)
              /\ \A b \in ToSet(Blocked[r]) : [name |-> "claimBlocked", page |-> b] \in ToSet(calls)
          BY <1>9, <4>1, <5>1, HandledSet
        <5>3. /\ \A i \in DOMAIN Links[r] :
                   [name |-> "addLinks", page |-> r, links |-> Links[r][i]] \in DueCalls'
              /\ [name |-> "emitResult", page |-> r] \in DueCalls'
              /\ \A b \in ToSet(Blocked[r]) : [name |-> "claimBlocked", page |-> b] \in DueCalls'
          BY <2>9, <5>2
        <5>4. r \in HopPages
          BY <1>4, <1>5, <4>1, <4>3 DEF DueFrom
        <5> QED
          BY <5>3, <5>4 DEF Accounted, Followed, HopPages, ToSet
      <4> QED
        BY <2>2, <4>2, <4>3
    <3> QED
      BY <3>1, <3>2 DEF NewUnderWay
  <2> QED
    BY <1>1, <1>2, <1>3, <1>6, <1>7, <1>8, <2>2, <2>3, <2>5, <2>8, <2>10, CallCrawl
<1> QED
  BY <1>11, <1>12, <1>13

(* The invariant, until the data is first cleared.                         *)
FirstCrawlInv == clears = 0 => CrawlInv

(* At first nothing is crawled.                                            *)
LEMMA CrawlInit == Init => FirstCrawlInv
<1> SUFFICES ASSUME Init PROVE CrawlInv
  BY DEF FirstCrawlInv
<1>1. Known = {} /\ crawledUrlList = {} /\ Stored = {}
  BY DEF Init, EmptyStore, Known, Stored, Adding, Idle
<1>2. DueCalls = {}
  <2>1. \A w \in Workers : ToSet(job[w].calls) = {}
    BY DEF Init, NoJob, ToSet
  <2> QED
    BY <2>1 DEF DueCalls
<1>3. Results = {}
  BY DEF Init, Results, EventsOf, EventsAt
<1>4. \A r : ~Loading(r)
  <2>1. \A w \in Workers : inFlight[w] = {} /\ workerQueue[w] = <<>>
    BY DEF Init
  <2> QED
    BY <2>1 DEF Loading, EventsOf, EventsAt
<1> QED
  BY <1>1, <1>2, <1>3, <1>4 DEF CrawlInv, SourcesInv, AccountedInv, FollowedInv

(* No step before the first clear loses a page or leaves one unfollowed.   *)
LEMMA CrawlKept ==
  ASSUME PipelineTypeOK, ClearInv, StoreInv, StoreInv', FirstTurn, CrawlInv,
         [Next]_pipelineVars, clears' = clears
  PROVE  CrawlInv'
<1>v. 1 \in Workers
  BY PipelineAssumption DEF Workers
<1>w. PICK w \in Workers : TRUE
  BY <1>v
<1>0. ~Clearing /\ clears \in Nat
  BY DEF FirstTurn, PipelineTypeOK, MainShape
<1>1. StoreCalled
  <2>1. ~clearStore /\ ~clearData
    BY <1>0 DEF clearStore, clearData, Clearing
  <2> QED
    BY <2>1, PipelineStoreStep
<1>2. ASSUME NEW v \in Workers PROVE ~workerClear(v)
  <2>1. EventsAt(workerQueue[v], "clear") = {} /\ workerQueue[v] \in Seq(WorkerEvents)
    BY DEF FirstTurn, FirstWorker, PipelineTypeOK, WorkerShape
  <2>2. workerQueue[v] # <<>> => 1 \in DOMAIN workerQueue[v] /\ Head(workerQueue[v]) = workerQueue[v][1]
    BY <2>1
  <2> QED
    BY <2>1, <2>2 DEF workerClear, Event, Receives, EventsAt
<1>3. ASSUME NEW v \in Workers, Worker(v) \/ LoadingDone(v) PROVE CrawlInv'
  BY <1>0, <1>1, <1>2, <1>3, ExtractCrawl, LoadedCrawl, StartCrawl, ResponseCrawl, CallsCrawl, ControlCrawl
     DEF Worker
<1>4. CASE Model
  BY <1>4, ModelCrawl
<1>5. CASE startCrawling \/ stopCrawling \/ MainStep
  BY <1>0, <1>1, <1>w, <1>5, ControlCrawl
<1>6. ~clearData
  BY <1>0 DEF clearData
<1>7. CASE UNCHANGED pipelineVars \/ AtRest
  BY <1>0, <1>1, <1>w, <1>7, ControlCrawl DEF AtRest
<1> QED
  BY <1>3, <1>4, <1>5, <1>6, <1>7 DEF Next, User

(* So the invariant holds.                                                 *)
LEMMA CrawlHolds == Spec => []FirstCrawlInv
<1>1. /\ PipelineTypeOK /\ ClearInv /\ BalanceInv /\ BalanceInv' /\ FirstCrawlInv
      /\ [Next]_pipelineVars
      => FirstCrawlInv'
  <2> SUFFICES ASSUME PipelineTypeOK, ClearInv, BalanceInv, BalanceInv', FirstCrawlInv,
                      [Next]_pipelineVars, clears' = 0
               PROVE  CrawlInv'
    BY DEF FirstCrawlInv
  <2>1. clears = 0 /\ clears' = clears
    <3>1. clears \in Nat
      BY DEF PipelineTypeOK, MainShape
    <3> QED
      BY <3>1, ClearsGrow
  <2>2. StoreInv /\ FirstTurn /\ CrawlInv
    BY <2>1 DEF BalanceInv, FirstCrawlInv
  <2>3. StoreInv'
    BY DEF BalanceInv
  <2> QED
    BY <2>1, <2>2, <2>3, CrawlKept
<1> QED
  BY <1>1, CrawlInit, BalanceHolds, PipelineTypeCorrect, StopControl, PTL DEF Spec

(* Where workers and model, and model and view, have counted the same and  *)
(* no worker handles a response, no page is on its way to the view.        *)
LEMMA NothingToShow ==
  ASSUME PipelineTypeOK, FirstTurn, Balanced,
         workersProcessedLinksCount = modelControllerCrawledLinksCount,
         modelControllerAcceptedLinksCount = sequencedDataCollectionLinksCount,
         \A w \in Workers : job[w] = NoJob
  PROVE  DueCalls = {} /\ Results = {} /\ modelPc = Idle /\ DOMAIN mainQueue = {}
<1>1. /\ workersProcessedLinksCount \in Nat /\ sequencedDataCollectionLinksCount \in Nat
      /\ modelQueue \in Seq(ModelEvents) /\ mainQueue \in Seq(MainEvents)
  BY DEF PipelineTypeOK, ModelShape, MainShape
<1>2. DueCalls = {}
  <2>1. \A w \in Workers : ToSet(job[w].calls) = {}
    BY DEF NoJob, ToSet
  <2> QED
    BY <2>1 DEF DueCalls
<1>3. Counted(modelQueue, "result") = 0 /\ modelPc = Idle
  <2>1. CountsDue = {}
    BY DEF CountsDue, Call
  <2>2. Cardinality(CountsDue) = 0
    BY <2>1, FS_EmptySet
  <2>3. workersProcessedLinksCount + 0
          = workersProcessedLinksCount + Counted(modelQueue, "result") + (IF modelPc # Idle THEN 1 ELSE 0)
    BY <2>2 DEF Balanced, CountedBalance
  <2>4. Counted(modelQueue, "result") \in Nat
    BY <1>1, CountedTyped
  <2> QED
    BY <1>1, <2>3, <2>4
<1>4. Counted(mainQueue, "added") = 0
  <2>1. modelPc.call # "accept"
    BY <1>3 DEF Idle
  <2>2. sequencedDataCollectionLinksCount + 0
          = sequencedDataCollectionLinksCount + Counted(mainQueue, "added")
    BY <2>1 DEF Balanced, ShownBalance
  <2>3. Counted(mainQueue, "added") \in Nat
    BY <1>1, CountedTyped
  <2> QED
    BY <1>1, <2>2, <2>3
<1>5. ASSUME NEW T, NEW q \in Seq(T), NEW name, Counted(q, name) = 0 PROVE EventsAt(q, name) = {}
  <2>1. Len(q) \in Nat /\ EventsAt(q, name) \subseteq 1..Len(q)
    BY DEF EventsAt
  <2>2. IsFiniteSet(EventsAt(q, name))
    <3>1. IsFiniteSet(1..Len(q))
      BY <2>1, FS_Interval
    <3> QED
      BY <2>1, <3>1, FS_Subset
  <2> QED
    BY <1>5, <2>2, FS_EmptySet DEF Counted
<1>6. EventsAt(modelQueue, "result") = {} /\ EventsAt(mainQueue, "added") = {}
  BY <1>1, <1>3, <1>4, <1>5
<1>7. Results = {}
  BY <1>6 DEF Results, EventsOf
<1>8. DOMAIN mainQueue = {}
  <2>1. EventsAt(mainQueue, "cleared") = {}
    BY DEF FirstTurn, FirstQueues
  <2>2. \A i \in DOMAIN mainQueue : mainQueue[i] \in MainEvents
    BY <1>1
  <2>3. \A e \in MainEvents : e.event = "added" \/ e.event = "cleared"
    BY DEF MainEvents
  <2> QED
    BY <1>6, <2>1, <2>2, <2>3 DEF EventsAt
<1> QED
  BY <1>2, <1>3, <1>7, <1>8

(* Equal counters: nothing is under way.                                   *)
LEMMA NothingUnderWay ==
  ASSUME PipelineTypeOK, FirstTurn, Balanced, isCrawlingEnded(Loads),
         \A w \in Workers : job[w] = NoJob
  PROVE  /\ \A r : ~Loading(r)
         /\ DueCalls = {} /\ Results = {} /\ modelPc = Idle /\ DOMAIN mainQueue = {}
<1>1. /\ downloaderCrawledLinksCount = workersProcessedLinksCount
      /\ modelControllerCrawledLinksCount = workersProcessedLinksCount
      /\ modelControllerAcceptedLinksCount = sequencedDataCollectionLinksCount
  BY DEF isCrawlingEnded, Loads
<1>2. workersProcessedLinksCount \in Nat /\ WorkerShape
  BY DEF PipelineTypeOK
<1>3. \A w \in Workers : inFlight[w] = {} /\ Answers(workerQueue[w]) = {}
  <2> DEFINE A == [w \in Workers |-> Answers(workerQueue[w])]
             U == [w \in Workers |-> Uncounted(job[w].calls)]
  <2>1. \A w \in Workers : IsFiniteSet(inFlight[w]) /\ IsFiniteSet(A[w]) /\ IsFiniteSet(U[w])
    BY <1>2, TakenTyped DEF FirstTurn, FirstWorker
  <2>2. InHand = SizeOf(inFlight) + SizeOf(A) + SizeOf(U)
    BY DEF InHand
  <2>3. \A w \in Workers : A[w] = Answers(workerQueue[w])
    OBVIOUS
  <2> HIDE DEF A, U
  <2>4. /\ SizeOf(inFlight) \in Nat /\ SizeOf(A) \in Nat /\ SizeOf(U) \in Nat
        /\ SizeOf(inFlight) = 0 => \A w \in Workers : inFlight[w] = {}
        /\ SizeOf(A) = 0 => \A w \in Workers : A[w] = {}
    BY <2>1, SizeOfEmpty
  <2>5. workersProcessedLinksCount = workersProcessedLinksCount + InHand
    BY <1>1 DEF Balanced, TakenBalance
  <2>6. SizeOf(inFlight) = 0 /\ SizeOf(A) = 0
    BY <1>2, <2>2, <2>4, <2>5
  <2> QED
    BY <2>3, <2>4, <2>6
<1>4. \A r : ~Loading(r)
  BY <1>3 DEF Loading, EventsOf, Answers
<1>5. DueCalls = {} /\ Results = {} /\ modelPc = Idle /\ DOMAIN mainQueue = {}
  BY <1>1, NothingToShow
<1> QED
  BY <1>4, <1>5

(* Where pages are balanced and none is lost, equal counters mean a        *)
(* complete crawl.                                                         *)
LEMMA EndConditionFollows ==
  ASSUME PipelineTypeOK, BalanceInv, FirstCrawlInv, ViewMatchesModel
  PROVE  EndConditionSound
<1> SUFFICES ASSUME clears = 0, isCrawlingEnded(Loads), \A w \in Workers : job[w] = NoJob
             PROVE  CrawlComplete
  BY DEF EndConditionSound
<1>1. StoreInv /\ FirstTurn /\ Balanced /\ CrawlInv
  BY DEF BalanceInv, FirstCrawlInv
<1>2. /\ \A r : ~Loading(r)
      /\ DueCalls = {} /\ Results = {} /\ modelPc = Idle /\ DOMAIN mainQueue = {}
  BY <1>1, NothingUnderWay
<1>3. downloaderPendingLinksCount = 0 /\ sequencedDataCollectionLinksCount > 0
  BY DEF isCrawlingEnded, Loads
<1>4. pendingUrlList = {}
  <2>1. IsFiniteSet(pendingUrlList) /\ downloaderPendingLinksCount = Cardinality(pendingUrlList)
    BY <1>1, ListsFinite DEF StoreInv, CountersExact
  <2> QED
    BY <1>3, <2>1, FS_EmptySet
<1>5. crawledStorage = sequencedStorage /\ sequencedStorage # {}
  <2>1. mainPc \notin {"clearModel", "clearStore"}
    BY <1>1 DEF FirstTurn, Clearing
  <2>2. Counted(mainQueue, "cleared") = 0
    <3>1. EventsAt(mainQueue, "cleared") = {}
      BY <1>2 DEF EventsAt
    <3>2. Cardinality({}) = 0
      BY FS_EmptySet
    <3> QED
      BY <3>1, <3>2 DEF Counted
  <2>3. /\ crawledStorage = sequencedStorage \union {}
        /\ sequencedDataCollectionLinksCount = Cardinality(sequencedStorage)
    BY <1>2, <2>1, <2>2 DEF ViewMatchesModel
  <2>4. sequencedStorage # {}
    BY <1>3, <2>3, FS_EmptySet
  <2> QED
    BY <2>3, <2>4
<1>6. Stored = sequencedStorage
  BY <1>2, <1>5 DEF Stored, Adding, Idle
<1>7. sequencedStorage = {PageUrl[r] : r \in crawledUrlList \ Filtered}
  <2>1. \A r \in crawledUrlList : r \in Filtered \/ PageUrl[r] \in sequencedStorage
    BY <1>1, <1>2, <1>6 DEF CrawlInv, AccountedInv, Accounted
  <2>2. sequencedStorage \subseteq Reach
    BY <1>1, <1>6 DEF CrawlInv, SourcesInv
  <2> QED
    BY <2>1, <2>2 DEF Reach
<1>8. Known = crawledUrlList /\ Known # {}
  BY <1>4, <1>5, <1>7 DEF Known
<1>9. ASSUME ~LimitReached
      PROVE  /\ StartPage \in crawledUrlList
             /\ \A r \in crawledUrlList \ BlockedPages :
                  /\ (UNION ToSet(Links[r])) \union ToSet(Blocked[r]) \subseteq crawledUrlList
                  /\ r \in HopPages \/ ToSet(Hops[r]) \subseteq crawledUrlList
  <2>1. StartPage \in crawledUrlList
    BY <1>1, <1>8, <1>9 DEF CrawlInv, FollowedInv
  <2>2. ASSUME NEW r \in crawledUrlList \ BlockedPages
        PROVE  /\ (UNION ToSet(Links[r])) \union ToSet(Blocked[r]) \subseteq crawledUrlList
               /\ r \in HopPages \/ ToSet(Hops[r]) \subseteq crawledUrlList
    <3>1. Followed(r)
      BY <1>1, <1>9 DEF CrawlInv, FollowedInv
    <3>2. /\ \A i \in DOMAIN Links[r] : Links[r][i] \subseteq crawledUrlList
          /\ \A b \in ToSet(Blocked[r]) : b \in crawledUrlList
          /\ r \in HopPages \/ \A h \in ToSet(Hops[r]) : h \in crawledUrlList
      BY <1>2, <1>8, <3>1 DEF Followed
    <3>3. ASSUME NEW l \in ToSet(Links[r]) PROVE l \subseteq crawledUrlList
      BY <3>2 DEF ToSet
    <3>4. UNION ToSet(Links[r]) \subseteq crawledUrlList
      BY <3>3
    <3>5. ToSet(Blocked[r]) \subseteq crawledUrlList
      BY <3>2
    <3>6. r \in HopPages \/ ToSet(Hops[r]) \subseteq crawledUrlList
      BY <3>2
    <3> QED
      BY <3>4, <3>5, <3>6
  <2> QED
    BY <2>1, <2>2
<1> QED
  BY <1>4, <1>7, <1>9 DEF CrawlComplete

(* Equal counters mean a complete crawl: could onAboutCrawlingState read   *)
(* all of them at once, and with no worker in the middle of a response,    *)
(* its condition would be right for any site, any limits and any number of *)
(* workers.                                                                *)
THEOREM EndConditionHolds == Spec => []EndConditionSound
<1>1. PipelineTypeOK /\ BalanceInv /\ FirstCrawlInv /\ ViewMatchesModel => EndConditionSound
  BY EndConditionFollows
<1> QED
  BY <1>1, PipelineTypeCorrect, BalanceHolds, CrawlHolds, ViewFollowsModel, PTL

=============================================================================

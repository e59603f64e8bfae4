---------------------------- MODULE Tools_proofs ----------------------------
(***************************************************************************)
(* What holds of the three components that concurrent tool calls share,    *)
(* for every number of callers and every value of their limits: of         *)
(* Checkpoint, of ToolDispatch and of Transaction.  The first part is      *)
(* about the sums the last two are bounded by.  MapThenSumSet adds up the  *)
(* elements in an order given by CHOOSE, through a recursive function on   *)
(* the subsets of a finite set: that the function exists, and that the     *)
(* order does not matter, is shown by looking at a least counterexample.   *)
(***************************************************************************)
EXTENDS Transaction, Checkpoint, ToolDispatch,
        FiniteSetTheorems, WellFoundedInduction, TLAPS

(* Sums *)

Chosen(S) == CHOOSE x \in S : TRUE

\* g is the function on the subsets of A by which MapThenSumSet computes the
\* sum of f over A.
Adds(g, f, A) ==
  g = [ s \in SUBSET A |-> IF s = {} THEN 0 ELSE f[Chosen(s)] + g[s \ {Chosen(s)}] ]

Sum(f, A) == MapThenSumSet(LAMBDA x : f[x], A)

\* A family of subsets of a finite set has a least one: the induction on which sums rest.
LEMMA LeastSubset ==
  ASSUME NEW A, IsFiniteSet(A), NEW T \in SUBSET SUBSET A, T # {}
  PROVE  \E s \in T : \A t \in T : t \subseteq s => t = s
<1> DEFINE R == StrictSubsetOrdering(A)
<1>1. IsWellFoundedOn(R, FiniteSubsetsOf(A))
  BY FS_StrictSubsetOrderingWellFounded
<1>2. T \subseteq FiniteSubsetsOf(A)
  BY FS_Subset DEF FiniteSubsetsOf
<1>3. PICK s \in T : \A t \in T : <<t, s>> \notin R
  <2> HIDE DEF R
  <2> QED
    BY <1>1, <1>2, WFMin
<1>4. ASSUME NEW t \in T, t \subseteq s, t # s PROVE FALSE
  BY <1>3, <1>4 DEF StrictSubsetOrdering
<1> QED
  BY <1>4

\* Two functions that add up f agree on the subsets both know.
LEMMA AddsAgree ==
  ASSUME NEW f, NEW A, NEW B, NEW g, NEW h, IsFiniteSet(A), A \subseteq B,
         Adds(g, f, A), Adds(h, f, B)
  PROVE  g[A] = h[A]
<1> DEFINE T == { s \in SUBSET A : g[s] # h[s] }
<1> SUFFICES ASSUME T # {} PROVE FALSE
  OBVIOUS
<1>1. PICK s \in T : \A t \in T : t \subseteq s => t = s
  <2>1. T \in SUBSET SUBSET A
    OBVIOUS
  <2> HIDE DEF T
  <2> QED
    BY <2>1, LeastSubset
<1>2. s \in SUBSET A /\ s \in SUBSET B /\ g[s] # h[s]
  OBVIOUS
<1>3. s # {}
  BY <1>2 DEF Adds
<1> DEFINE u == s \ {Chosen(s)}
<1>4. Chosen(s) \in s
  BY <1>3 DEF Chosen
<1>5. u \in SUBSET A /\ u \subseteq s /\ u # s
  BY <1>2, <1>4
<1>6. g[u] = h[u]
  BY <1>1, <1>5
<1>7. g[s] = f[Chosen(s)] + g[u]
  BY <1>2, <1>3 DEF Adds
<1>8. h[s] = f[Chosen(s)] + h[u]
  BY <1>2, <1>3 DEF Adds
<1> QED
  BY <1>2, <1>6, <1>7, <1>8

\* There is such a function for every finite set.
LEMMA AddsExists == ASSUME NEW f, NEW A, IsFiniteSet(A) PROVE \E g : Adds(g, f, A)
<1> DEFINE T == { s \in SUBSET A : ~ \E g : Adds(g, f, s) }
<1> SUFFICES ASSUME T # {} PROVE FALSE
  OBVIOUS
<1>1. PICK s \in T : \A t \in T : t \subseteq s => t = s
  <2>1. T \in SUBSET SUBSET A
    OBVIOUS
  <2> HIDE DEF T
  <2> QED
    BY <2>1, LeastSubset
<1> DEFINE G(t) == CHOOSE g : Adds(g, f, t)
           rest(t) == t \ {Chosen(t)}
           k == [ t \in SUBSET s |-> IF t = {} THEN 0 ELSE f[Chosen(t)] + G(rest(t))[rest(t)] ]
<1>2. ASSUME NEW t \in SUBSET s, t # {}
      PROVE  /\ rest(t) \in SUBSET s /\ rest(t) # s /\ rest(t) \subseteq t
             /\ IsFiniteSet(rest(t)) /\ Adds(G(rest(t)), f, rest(t))
  <2>1. Chosen(t) \in t
    BY <1>2 DEF Chosen
  <2>2. rest(t) \in SUBSET s /\ rest(t) # s /\ rest(t) \in SUBSET A
    BY <2>1
  <2>3. \E g : Adds(g, f, rest(t))
    <3> HIDE DEF rest
    <3> QED
      BY <1>1, <2>2
  <2>4. IsFiniteSet(rest(t))
    <3> HIDE DEF rest
    <3> QED
      BY <2>2, FS_Subset
  <2> QED
    BY <2>2, <2>3, <2>4
<1>3. ASSUME NEW t \in SUBSET s, t # {}
      PROVE  k[rest(t)] = G(rest(t))[rest(t)]
  <2> DEFINE u == rest(t)
  <2>1. u \in SUBSET s /\ IsFiniteSet(u) /\ Adds(G(u), f, u)
    BY <1>2, <1>3
  <2>2. CASE u = {}
    <3>1. G(u)[u] = 0
      <4> HIDE DEF u, G
      <4> QED
        BY <2>1, <2>2 DEF Adds
    <3> QED
      BY <3>1, <2>1, <2>2
  <2>3. CASE u # {}
    <3> DEFINE v == rest(u)
    <3>1. v \subseteq u /\ IsFiniteSet(v) /\ Adds(G(v), f, v)
      <4> HIDE DEF u, G, rest
      <4> QED
        BY <1>2, <2>1, <2>3
    <3>2. G(v)[v] = G(u)[v]
      <4> HIDE DEF u, v, G
      <4> QED
        BY <3>1, <2>1, AddsAgree
    <3>3. G(u)[u] = f[Chosen(u)] + G(u)[v]
      <4> HIDE DEF u, G
      <4> QED
        BY <2>1, <2>3 DEF Adds
    <3>4. k[u] = f[Chosen(u)] + G(v)[v]
      <4> HIDE DEF u, G, rest
      <4> QED
        BY <2>1, <2>3
    <3> QED
      BY <3>2, <3>3, <3>4
  <2> QED
    BY <2>2, <2>3
<1>4. Adds(k, f, s)
  <2> DEFINE j == [ t \in SUBSET s |-> IF t = {} THEN 0 ELSE f[Chosen(t)] + k[rest(t)] ]
  <2>1. \A t \in SUBSET s : k[t] = j[t]
    <3> SUFFICES ASSUME NEW t \in SUBSET s PROVE k[t] = j[t]
      OBVIOUS
    <3>1. CASE t = {}
      BY <3>1
    <3>2. CASE t # {}
      <4>1. k[rest(t)] = G(rest(t))[rest(t)]
        BY <1>3, <3>2
      <4> HIDE DEF G, rest
      <4> QED
        BY <3>2, <4>1
    <3> QED
      BY <3>1, <3>2
  <2>2. k = j
    BY <2>1
  <2> HIDE DEF k, G
  <2> QED
    BY <2>2 DEF Adds
<1> QED
  <2> HIDE DEF k, G
  <2> QED
    BY <1>1, <1>4

\* The library's sum is what any such function gives.
LEMMA SumIs ==
  ASSUME NEW f, NEW A, NEW g, IsFiniteSet(A), Adds(g, f, A)
  PROVE  Sum(f, A) = g[A]
<1>1. \A h : Adds(h, f, A) => h[A] = g[A]
  BY AddsAgree
<1> QED
  BY <1>1 DEF Sum, MapThenSumSet, MapThenFoldSet, Adds, Chosen

\* The sum over no element.
LEMMA SumOfNone == ASSUME NEW f PROVE Sum(f, {}) = 0
<1>1. IsFiniteSet({})
  BY FS_EmptySet
<1>2. PICK g : Adds(g, f, {})
  BY <1>1, AddsExists
<1> QED
  BY <1>1, <1>2, SumIs DEF Adds

\* The sum is the chosen element's part and that of the others.
LEMMA SumChosen ==
  ASSUME NEW f, NEW A, IsFiniteSet(A), A # {}
  PROVE  Sum(f, A) = f[Chosen(A)] + Sum(f, A \ {Chosen(A)})
<1> DEFINE u == A \ {Chosen(A)}
<1>1. u \subseteq A /\ IsFiniteSet(u)
  BY FS_Subset
<1>2. PICK g : Adds(g, f, A)
  BY AddsExists
<1>3. PICK h : Adds(h, f, u)
  BY <1>1, AddsExists
<1>4. h[u] = g[u]
  <2> HIDE DEF u
  <2> QED BY <1>1, <1>2, <1>3, AddsAgree
<1>5. Sum(f, A) = g[A] /\ Sum(f, u) = h[u]
  <2> HIDE DEF u
  <2> QED BY <1>1, <1>2, <1>3, SumIs
<1>6. g[A] = f[Chosen(A)] + g[u]
  BY <1>2 DEF Adds
<1> QED
  BY <1>4, <1>5, <1>6

\* The sum of natural numbers is one.
LEMMA SumType ==
  ASSUME NEW f, NEW A, IsFiniteSet(A), \A x \in A : f[x] \in Nat
  PROVE  Sum(f, A) \in Nat
<1> DEFINE T == { s \in SUBSET A : Sum(f, s) \notin Nat }
<1> SUFFICES ASSUME T # {} PROVE FALSE
  OBVIOUS
<1>1. PICK s \in T : \A t \in T : t \subseteq s => t = s
  <2>1. T \in SUBSET SUBSET A
    OBVIOUS
  <2> HIDE DEF T
  <2> QED
    BY <2>1, LeastSubset
<1>2. s # {} /\ IsFiniteSet(s)
  <2>1. IsFiniteSet(s)
    BY FS_Subset
  <2>2. Sum(f, {}) \in Nat
    BY SumOfNone
  <2> QED
    BY <2>1, <2>2
<1> DEFINE u == s \ {Chosen(s)}
<1>3. Chosen(s) \in s
  BY <1>2 DEF Chosen
<1>4. Sum(f, u) \in Nat
  BY <1>1, <1>3
<1>5. Sum(f, s) = f[Chosen(s)] + Sum(f, u)
  BY <1>2, SumChosen
<1> QED
  BY <1>3, <1>4, <1>5

\* The order in which the elements are added does not matter.
LEMMA SumWithout ==
  ASSUME NEW f, NEW A, IsFiniteSet(A), \A x \in A : f[x] \in Nat, NEW x \in A
  PROVE  Sum(f, A) = f[x] + Sum(f, A \ {x})
<1> DEFINE T == { s \in SUBSET A : \E y \in s : Sum(f, s) # f[y] + Sum(f, s \ {y}) }
<1> SUFFICES ASSUME T # {} PROVE FALSE
  OBVIOUS
<1>1. PICK s \in T : \A t \in T : t \subseteq s => t = s
  <2>1. T \in SUBSET SUBSET A
    OBVIOUS
  <2> HIDE DEF T
  <2> QED
    BY <2>1, LeastSubset
<1>2. PICK y \in s : Sum(f, s) # f[y] + Sum(f, s \ {y})
  OBVIOUS
<1> DEFINE p == Chosen(s)
           u == s \ {p}
           v == s \ {y}
           w == s \ {p, y}
<1>3. p \in s
  BY <1>2 DEF Chosen
<1>4. Sum(f, s) = f[p] + Sum(f, u)
  BY <1>2, SumChosen, FS_Subset
<1>5. p # y
  BY <1>2, <1>4
<1>6. w = u \ {y} /\ w = v \ {p} /\ y \in u /\ p \in v
  BY <1>3, <1>5
<1>7. u \in SUBSET A /\ v \in SUBSET A /\ u \subseteq s /\ u # s /\ v \subseteq s /\ v # s
  BY <1>3
<1>8. u \notin T /\ v \notin T
  <2> HIDE DEF T, u, v
  <2> QED
    BY <1>1, <1>7
<1>9. Sum(f, u) = f[y] + Sum(f, w)
  <2> HIDE DEF u, v, w, p
  <2> QED
    BY <1>6, <1>7, <1>8
<1>10. Sum(f, v) = f[p] + Sum(f, w)
  <2> HIDE DEF u, v, w, p
  <2> QED
    BY <1>6, <1>7, <1>8
<1>11. Sum(f, w) \in Nat
  <2>1. IsFiniteSet(w) /\ \A z \in w : f[z] \in Nat
    BY FS_Subset
  <2> HIDE DEF w
  <2> QED
    BY <2>1, SumType
<1> QED
  <2>1. f[p] \in Nat /\ f[y] \in Nat
    BY <1>2, <1>3
  <2> HIDE DEF u, w, p
  <2> QED
    BY <2>1, <1>2, <1>4, <1>9, <1>10, <1>11

\* A sum of larger numbers is larger.
LEMMA SumMonotone ==
  ASSUME NEW f, NEW g, NEW A, IsFiniteSet(A),
         \A x \in A : f[x] \in Nat /\ g[x] \in Nat /\ f[x] <= g[x]
  PROVE  Sum(f, A) <= Sum(g, A)
<1> DEFINE T == { s \in SUBSET A : ~(Sum(f, s) <= Sum(g, s)) }
<1> SUFFICES ASSUME T # {} PROVE FALSE
  BY FS_Subset
<1>1. PICK s \in T : \A t \in T : t \subseteq s => t = s
  <2>1. T \in SUBSET SUBSET A
    OBVIOUS
  <2> HIDE DEF T
  <2> QED
    BY <2>1, LeastSubset
<1>2. s # {}
  BY SumOfNone
<1>3. PICK x \in s : TRUE
  BY <1>2
<1> DEFINE u == s \ {x}
<1>4. Sum(f, u) <= Sum(g, u)
  BY <1>1
<1>5. IsFiniteSet(s) /\ IsFiniteSet(u)
  BY FS_Subset
<1>6. Sum(f, s) = f[x] + Sum(f, u) /\ Sum(g, s) = g[x] + Sum(g, u)
  BY <1>5, SumWithout
<1>7. Sum(f, u) \in Nat /\ Sum(g, u) \in Nat
  BY <1>5, SumType
<1> QED
  BY <1>4, <1>6, <1>7

\* A sum depends on the numbers added alone.
LEMMA SumSame ==
  ASSUME NEW f, NEW g, NEW A, IsFiniteSet(A), \A x \in A : f[x] \in Nat /\ f[x] = g[x]
  PROVE  Sum(f, A) = Sum(g, A)
<1>1. Sum(f, A) <= Sum(g, A) /\ Sum(g, A) <= Sum(f, A)
  BY SumMonotone
<1>2. Sum(f, A) \in Nat /\ Sum(g, A) \in Nat
  BY SumType
<1> QED
  BY <1>1, <1>2

\* Two sets that have nothing in common.
LEMMA SumUnion ==
  ASSUME NEW f, NEW A, NEW B, IsFiniteSet(A), IsFiniteSet(B), A \cap B = {},
         \A x \in A \cup B : f[x] \in Nat
  PROVE  Sum(f, A \cup B) = Sum(f, A) + Sum(f, B)
<1> DEFINE T == { s \in SUBSET A : Sum(f, s \cup B) # Sum(f, s) + Sum(f, B) }
<1> SUFFICES ASSUME T # {} PROVE FALSE
  OBVIOUS
<1>1. PICK s \in T : \A t \in T : t \subseteq s => t = s
  <2>1. T \in SUBSET SUBSET A
    OBVIOUS
  <2> HIDE DEF T
  <2> QED
    BY <2>1, LeastSubset
<1>2. Sum(f, B) \in Nat
  BY SumType
<1>3. s # {}
  <2> SUFFICES ASSUME s = {} PROVE FALSE
    OBVIOUS
  <2>1. s \cup B = B
    OBVIOUS
  <2> QED
    BY <2>1, <1>2, SumOfNone
<1>4. PICK x \in s : TRUE
  BY <1>3
<1> DEFINE u == s \ {x}
<1>5. Sum(f, u \cup B) = Sum(f, u) + Sum(f, B)
  BY <1>1
<1>6. IsFiniteSet(s) /\ IsFiniteSet(u) /\ IsFiniteSet(s \cup B)
  <2>1. IsFiniteSet(s)
    BY FS_Subset
  <2> QED
    BY <2>1, FS_Subset, FS_Union
<1>7. (s \cup B) \ {x} = u \cup B
  OBVIOUS
<1>8. Sum(f, s) = f[x] + Sum(f, u)
  BY <1>6, SumWithout
<1>9. Sum(f, s \cup B) = f[x] + Sum(f, u \cup B)
  <2>1. x \in s \cup B /\ \A y \in s \cup B : f[y] \in Nat
    OBVIOUS
  <2>2. Sum(f, s \cup B) = f[x] + Sum(f, (s \cup B) \ {x})
    BY <1>6, <2>1, SumWithout
  <2> QED
    BY <2>2, <1>7
<1>10. Sum(f, u) \in Nat
  BY <1>6, SumType
<1> QED
  BY <1>2, <1>5, <1>8, <1>9, <1>10

\* A part sums to no more than the whole.
LEMMA SumPart ==
  ASSUME NEW f, NEW A, NEW B, IsFiniteSet(B), A \subseteq B, \A x \in B : f[x] \in Nat
  PROVE  Sum(f, A) <= Sum(f, B) /\ Sum(f, A) \in Nat /\ Sum(f, B) \in Nat
<1> DEFINE C == B \ A
<1>1. IsFiniteSet(A) /\ IsFiniteSet(C)
  BY FS_Subset
<1>2. B = A \cup C /\ A \cap C = {}
  OBVIOUS
<1>3. \A x \in A \cup C : f[x] \in Nat
  OBVIOUS
<1>4. Sum(f, A) \in Nat /\ Sum(f, C) \in Nat
  BY <1>1, SumType
<1>5. Sum(f, A \cup C) = Sum(f, A) + Sum(f, C)
  <2> HIDE DEF C
  <2> QED
    BY <1>1, <1>2, <1>3, SumUnion
<1> QED
  <2> HIDE DEF C
  <2> QED
    BY <1>2, <1>4, <1>5

\* Numbers that are all zero.
LEMMA SumOfZeros ==
  ASSUME NEW f, NEW A, IsFiniteSet(A), \A x \in A : f[x] = 0
  PROVE  Sum(f, A) = 0
<1> DEFINE T == { s \in SUBSET A : Sum(f, s) # 0 }
<1> SUFFICES ASSUME T # {} PROVE FALSE
  OBVIOUS
<1>1. PICK s \in T : \A t \in T : t \subseteq s => t = s
  <2>1. T \in SUBSET SUBSET A
    OBVIOUS
  <2> HIDE DEF T
  <2> QED
    BY <2>1, LeastSubset
<1>2. s # {} /\ IsFiniteSet(s)
  BY SumOfNone, FS_Subset
<1>3. Chosen(s) \in s
  BY <1>2 DEF Chosen
<1>4. Sum(f, s \ {Chosen(s)}) = 0
  BY <1>1, <1>3
<1> QED
  BY <1>2, <1>3, <1>4, SumChosen

\* One number grows by d.
LEMMA SumGrows ==
  ASSUME NEW f, NEW g, NEW A, IsFiniteSet(A), \A x \in A : f[x] \in Nat,
         NEW y \in A, NEW d \in Nat, g[y] = f[y] + d, \A x \in A \ {y} : g[x] = f[x]
  PROVE  Sum(g, A) = Sum(f, A) + d
<1> DEFINE u == A \ {y}
<1>1. IsFiniteSet(u) /\ \A x \in A : g[x] \in Nat
  BY FS_Subset
<1>2. Sum(g, u) = Sum(f, u) /\ Sum(f, u) \in Nat
  BY <1>1, SumSame, SumType
<1>3. Sum(f, A) = f[y] + Sum(f, u)
  BY SumWithout
<1>4. Sum(g, A) = g[y] + Sum(g, u)
  BY <1>1, SumWithout
<1> QED
  BY <1>2, <1>3, <1>4

\* Numbers that are at most m each.
LEMMA SumAtMost ==
  ASSUME NEW f, NEW A, IsFiniteSet(A), NEW m \in Nat, \A x \in A : f[x] \in 0 .. m
  PROVE  Sum(f, A) <= m * Cardinality(A)
<1> DEFINE T == { s \in SUBSET A : ~(Sum(f, s) <= m * Cardinality(s)) }
<1> SUFFICES ASSUME T # {} PROVE FALSE
  BY FS_Subset
<1>1. PICK s \in T : \A t \in T : t \subseteq s => t = s
  <2>1. T \in SUBSET SUBSET A
    OBVIOUS
  <2> HIDE DEF T
  <2> QED
    BY <2>1, LeastSubset
<1>2. s # {}
  BY SumOfNone, FS_EmptySet
<1>3. PICK x \in s : TRUE
  BY <1>2
<1> DEFINE u == s \ {x}
<1>4. Sum(f, u) <= m * Cardinality(u)
  BY <1>1
<1>5. IsFiniteSet(s) /\ IsFiniteSet(u)
  BY FS_Subset
<1>6. Sum(f, s) = f[x] + Sum(f, u)
  BY <1>5, SumWithout
<1>7. Cardinality(u) = Cardinality(s) - 1 /\ Cardinality(s) \in Nat /\ Cardinality(u) \in Nat
  BY <1>5, FS_RemoveElement, FS_CardinalityType
<1>8. Sum(f, u) \in Nat
  BY <1>5, SumType
<1> QED
  BY <1>4, <1>6, <1>7, <1>8

-----------------------------------------------------------------------------
(* Checkpoints *)

\* What a call past its beginning is about.
CallShape ==
  \A c \in Editors :
    /\ edit[c].pc # "idle" => edit[c].path \in Paths
    /\ edit[c].pc = "source" => edit[c].to \in Large
    /\ edit[c].pc \in {"stat", "create", "fill", "rename"} => edit[c].pre \in Large

CkTypes == CkTypeOK /\ CallShape

\* A snapshot no purge ran into finds the janitor at rest until its row is
\* inserted, and what it inserts is a content whose file is there.
Spilling == {"create", "fill", "rename", "insert"}
QuietSnapshot ==
  \A c \in Editors :
    edit[c].pc \in Spilling /\ edit[c].pre \in Large /\ edit[c].quiet =>
      /\ janitor.pc = "idle"
      /\ edit[c].pc = "insert" => spill[edit[c].pre] # "none"
AtRest == janitor.pc = "idle" => janitor.seen = {} /\ janitor.gone = {}

\* What the janitor is about to remove no quiet row refers to.
GoneUnreferred == \A h \in janitor.gone, r \in rows : r.pre = h => ~r.quiet
QuietRowHeld == \A r \in rows : r.pre \in Large /\ r.quiet => spill[r.pre] # "none"

\* While one snapshot at a time has written a .tmp file, it is whole when it is
\* renamed, and so is what it becomes.
InTmp(c, h) == edit[c].pc \in {"fill", "rename"} /\ edit[c].pre = h
WholeUnlessTorn ==
  \A h \in Large \ torn :
    /\ spill[h] # "part"
    /\ \A c \in Editors : InTmp(c, h) =>
         /\ \A d \in Editors : InTmp(d, h) => d = c
         /\ edit[c].pc = "fill" => edit[c].fd = "tmp" \/ (edit[c].fd = "gone" /\ tmp[h] = "none")
         /\ edit[c].pc = "rename" => tmp[h] # "part"

\* Between its look and its write a call that nobody raced holds what the file
\* is, and once the snapshot is over a row of the path has it.
HoldsRead ==
  \A c \in Editors : ~edit[c].changed =>
    /\ edit[c].pc \in Snapped \ {"execute"} => edit[c].pre = disk[edit[c].path]
    /\ edit[c].pc = "execute" /\ ~edit[c].purged =>
         \E r \in rows : r.path = edit[c].path /\ r.pre = disk[edit[c].path]

FilesInv == QuietSnapshot /\ AtRest /\ GoneUnreferred /\ QuietRowHeld /\ WholeUnlessTorn
CkInv == CkTypes /\ FilesInv /\ HoldsRead

\* At first there is no row, no spill file and no call.
LEMMA CkInitInv == CkInit => CkInv
<1> SUFFICES ASSUME CkInit PROVE CkInv
  OBVIOUS
<1> USE CheckpointAssumption DEF CkInit, Nobody, Resting
<1>1. CkTypeOK
  BY DEF CkTypeOK, CkCall, CkPC, State, File
<1>2. CallShape
  BY DEF CallShape
<1>3. QuietSnapshot /\ AtRest /\ GoneUnreferred /\ QuietRowHeld
  BY DEF QuietSnapshot, AtRest, GoneUnreferred, QuietRowHeld, Spilling
<1>4. WholeUnlessTorn
  BY DEF WholeUnlessTorn, InTmp
<1>5. HoldsRead
  BY DEF HoldsRead, Snapped
<1> QED
  BY <1>1, <1>2, <1>3, <1>4, <1>5 DEF CkInv, CkTypes, FilesInv

\* A snapshot's file descriptor may move with its file; nothing else does.
LEMMA MovedFd ==
  ASSUME CkTypeOK, NEW h \in Large, NEW a \in {"tmp", "spill", "gone"}, NEW b \in {"tmp", "spill", "gone"},
         NEW d \in Editors
  PROVE  LET k == Moved(h, a, b)[d] IN
         /\ k \in CkCall
         /\ k.pc = edit[d].pc /\ k.path = edit[d].path /\ k.to = edit[d].to /\ k.pre = edit[d].pre
         /\ k.quiet = edit[d].quiet /\ k.changed = edit[d].changed /\ k.purged = edit[d].purged
         /\ k.fd = IF edit[d].pc = "fill" /\ edit[d].pre = h
                   THEN IF edit[d].fd = "tmp" THEN a ELSE IF edit[d].fd = "spill" THEN b ELSE edit[d].fd
                   ELSE edit[d].fd
  BY DEF Moved, CkTypeOK, CkCall

\* What a file operation does to the open files of the calls is well typed.
LEMMA MovedType ==
  ASSUME CkTypeOK, NEW h \in Large, NEW a \in {"tmp", "spill", "gone"}, NEW b \in {"tmp", "spill", "gone"}
  PROVE  Moved(h, a, b) \in [Editors -> CkCall]
<1>1. Moved(h, a, b) = [d \in Editors |-> Moved(h, a, b)[d]]
  BY DEF Moved
<1>2. \A d \in Editors : Moved(h, a, b)[d] \in CkCall
  BY MovedFd
<1> QED
  BY <1>1, <1>2

\* One call goes on, the others stay where they are.
LEMMA OneCall ==
  ASSUME CkTypes, NEW c \in Editors, NEW k \in CkCall, edit' = [edit EXCEPT ![c] = k],
         k.pc # "idle" => k.path \in Paths,
         k.pc = "source" => k.to \in Large,
         k.pc \in {"stat", "create", "fill", "rename"} => k.pre \in Large
  PROVE  edit' \in [Editors -> CkCall] /\ CallShape' /\ edit'[c] = k
         /\ \A d \in Editors \ {c} : edit'[d] = edit[d]
  BY DEF CkTypes, CkTypeOK, CallShape

\* No call is a call that is idle.
LEMMA NobodyType == Nobody \in CkCall /\ Nobody.pc = "idle"
  BY DEF Nobody, CkCall, CkPC, State

\* No step leaves the types.
LEMMA CkTypesStep == CkTypes /\ [CkNext]_ckvars => CkTypes'
<1> SUFFICES ASSUME CkTypes, [CkNext]_ckvars PROVE CkTypes'
  OBVIOUS
<1>0. /\ Large \subseteq Contents /\ Huge \subseteq Contents \ Large /\ Absent \notin Contents
      /\ MaxCalls \in Nat /\ MaxEpoch \in Nat
  BY CheckpointAssumption
<1> USE DEF CkTypes
<1>1. CASE UNCHANGED ckvars
  BY <1>1 DEF ckvars, CkTypeOK, CallShape
<1>2. ASSUME NEW c \in Editors, CkCallNext(c) PROVE CkTypes'
  <2>0. /\ edit[c] \in CkCall /\ edit \in [Editors -> CkCall]
        /\ edit[c].pc # "idle" => edit[c].path \in Paths
    BY DEF CkTypeOK, CallShape
  <2>1. CASE WriteCall(c)
    <3>1. PICK p \in Paths, x \in Contents :
            edit' = [edit EXCEPT ![c] = [Nobody EXCEPT !.pc = "look", !.path = p, !.to = x]]
      BY <2>1 DEF WriteCall
    <3>2. [Nobody EXCEPT !.pc = "look", !.path = p, !.to = x] \in CkCall
      BY NobodyType DEF CkCall, CkPC, State
    <3>3. edit' \in [Editors -> CkCall] /\ CallShape'
      BY <3>1, <3>2, OneCall DEF Nobody
    <3> QED
      BY <1>0, <2>1, <3>3 DEF WriteCall, CkTypeOK
  <2>2. CASE RestoreCall(c)
    <3> DEFINE k(r) == [Nobody EXCEPT !.pc = IF r.pre \in Large THEN "source" ELSE "look",
                                      !.path = r.path, !.to = r.pre]
    <3>1. PICK r \in rows : edit' = [edit EXCEPT ![c] = k(r)]
      BY <2>2 DEF RestoreCall
    <3>2. r \in CkRow
      BY DEF CkTypeOK
    <3>3. /\ k(r) \in CkCall /\ k(r).path \in Paths /\ k(r).pc \in {"source", "look"}
          /\ k(r).pc = "source" => k(r).to \in Large
      BY <3>2 DEF Nobody, CkCall, CkPC, State, CkRow
    <3> HIDE DEF k
    <3>4. edit' \in [Editors -> CkCall] /\ CallShape'
      BY <3>1, <3>3, OneCall
    <3> QED
      BY <1>0, <2>2, <3>4 DEF RestoreCall, CkTypeOK
  <2>3. CASE ReadSpill(c)
    BY <2>3, <2>0, NobodyType DEF ReadSpill, At, Goto, Leave, CkTypeOK, CallShape, CkCall, CkPC
  <2>4. CASE Look(c)
    <3>1. disk[edit[c].path] \in State
      BY <2>0, <2>4 DEF Look, At, CkTypeOK
    <3> QED
      BY <2>4, <2>0, <3>1 DEF Look, At, CkTypeOK, CallShape, CkCall, CkPC
  <2>5. CASE Dedup(c)
    BY <2>5, <2>0 DEF Dedup, At, Goto, Preserved, CkTypeOK, CallShape, CkCall, CkPC, State
  <2>6. CASE StatSpill(c)
    BY <2>6, <2>0 DEF StatSpill, At, CkTypeOK, CallShape, CkCall, CkPC
  <2>7. CASE CreateTmp(c)
    <3>1. edit[c].pre \in Large
      BY <2>7 DEF CreateTmp, At, CallShape
    <3> QED
      BY <2>7, <2>0, <3>1 DEF CreateTmp, At, CkTypeOK, CallShape, CkCall, CkPC, File
  <2>8. CASE FillTmp(c)
    BY <2>8, <2>0 DEF FillTmp, At, CkTypeOK, CallShape, CkCall, CkPC, File
  <2>9. CASE RenameTmp(c)
    <3> DEFINE h == edit[c].pre
    <3>1. h \in Large /\ edit[c].pc = "rename"
      BY <2>9 DEF RenameTmp, At, CallShape
    <3>2. CASE tmp[h] = "none"
      BY <2>9, <2>0, <3>2, NobodyType DEF RenameTmp, Leave, CkTypeOK, CallShape
    <3>3. CASE tmp[h] # "none"
      <4> DEFINE m == Moved(h, "spill", "gone")
      <4>1. m \in [Editors -> CkCall] /\ \A d \in Editors :
              m[d].pc = edit[d].pc /\ m[d].path = edit[d].path /\ m[d].to = edit[d].to /\ m[d].pre = edit[d].pre
        BY <3>1, MovedFd, MovedType
      <4>2. edit' = [m EXCEPT ![c].pc = "insert"]
        BY <2>9, <3>3 DEF RenameTmp
      <4> HIDE DEF m
      <4>3. edit' \in [Editors -> CkCall] /\ CallShape'
        BY <2>0, <3>1, <4>1, <4>2 DEF CallShape, CkCall, CkPC
      <4>4. tmp' \in [Large -> File] /\ spill' \in [Large -> File]
        BY <2>9, <3>1, <3>3 DEF RenameTmp, CkTypeOK, File
      <4> QED
        BY <2>9, <4>3, <4>4 DEF RenameTmp, CkTypeOK
    <3> QED
      BY <3>2, <3>3
  <2>10. CASE InsertRow(c)
    <3>1. PICK i \in 1 .. MaxCalls :
            rows' = rows \cup {[id |-> i, path |-> edit[c].path, pre |-> edit[c].pre,
                                born |-> epoch, quiet |-> edit[c].quiet]}
      BY <2>10 DEF InsertRow
    <3>2. rows' \subseteq CkRow
      BY <2>0, <2>10, <3>1 DEF InsertRow, At, CkTypeOK, CkRow, CkCall
    <3> QED
      BY <2>10, <2>0, <3>2 DEF InsertRow, At, Preserved, CkTypeOK, CallShape, CkCall, CkPC, State
  <2>11. CASE SnapshotFails(c) \/ ApplyFails(c)
    BY <2>11, <2>0, NobodyType DEF SnapshotFails, ApplyFails, Leave, CkTypeOK, CallShape
  <2>12. CASE Apply(c)
    <3>1. /\ edit' \in [Editors -> CkCall]
          /\ \A d \in Editors : \/ edit'[d].pc = "idle"
                                \/ edit'[d].pc = edit[d].pc /\ edit'[d].path = edit[d].path
                                   /\ edit'[d].to = edit[d].to /\ edit'[d].pre = edit[d].pre
      BY <2>12, <2>0, NobodyType DEF Apply, CkCall
    <3>2. CallShape'
      BY <3>1 DEF CallShape
    <3>3. disk' \in [Paths -> State]
      BY <2>12, <2>0 DEF Apply, CkTypeOK, CkCall
    <3> QED
      BY <2>12, <3>1, <3>2, <3>3 DEF Apply, CkTypeOK
  <2> QED
    BY <1>2, <2>1, <2>2, <2>3, <2>4, <2>5, <2>6, <2>7, <2>8, <2>9, <2>10, <2>11, <2>12 DEF CkCallNext
<1>3. CASE Purge
  <2>0. ASSUME NEW d \in Editors
        PROVE  /\ edit'[d] \in CkCall
               /\ edit'[d].pc = edit[d].pc /\ edit'[d].path = edit[d].path
               /\ edit'[d].to = edit[d].to /\ edit'[d].pre = edit[d].pre
    <3>1. edit[d] \in CkCall
      BY DEF CkTypeOK
    <3>2. CASE edit[d].pc \notin Snapped
      BY <1>3, <3>1, <3>2 DEF Purge
    <3>3. CASE edit[d].pc \in Snapped
      <4> DEFINE q == edit[d].pc \notin {"create", "fill", "rename", "insert"}
      <4>1. edit'[d] = [edit[d] EXCEPT !.purged = TRUE, !.quiet = q] /\ q \in BOOLEAN
        BY <1>3, <3>3 DEF Purge
      <4> HIDE DEF q
      <4> QED
        BY <3>1, <4>1 DEF CkCall
    <3> QED
      BY <3>2, <3>3
  <2>1. edit' \in [Editors -> CkCall]
    BY <1>3, <2>0 DEF Purge
  <2>2. CallShape'
    BY <2>0 DEF CallShape
  <2>3. rows' \subseteq CkRow
    BY <1>3 DEF Purge, CkTypeOK
  <2>4. janitor' \in [pc : {"idle", "sweep"}, seen : SUBSET ({"tmp", "spill"} \X Large), gone : SUBSET Large]
    <3> DEFINE s == {<<"tmp", h>> : h \in {g \in Large : tmp[g] # "none"}}
                   \cup {<<"spill", h>> : h \in {g \in Large : spill[g] # "none"}}
    <3>1. s \in SUBSET ({"tmp", "spill"} \X Large)
      OBVIOUS
    <3>2. janitor' = [pc |-> "sweep", seen |-> s, gone |-> {}]
      BY <1>3 DEF Purge
    <3> HIDE DEF s
    <3> QED
      BY <3>1, <3>2
  <2> QED
    BY <1>3, <2>1, <2>2, <2>3, <2>4 DEF Purge, CkTypeOK
<1>4. ASSUME NEW h \in Large, SweepTmp(h) PROVE CkTypes'
  <2>1. CallShape' /\ edit' \in [Editors -> CkCall]
    <3>1. edit' = Moved(h, "gone", "spill")
      BY <1>4 DEF SweepTmp
    <3>2. edit' \in [Editors -> CkCall]
      BY <3>1, MovedType
    <3>3. \A d \in Editors : /\ edit'[d].pc = edit[d].pc /\ edit'[d].path = edit[d].path
                              /\ edit'[d].to = edit[d].to /\ edit'[d].pre = edit[d].pre
      BY <3>1, MovedFd
    <3> QED
      BY <3>2, <3>3 DEF CallShape
  <2> QED
    BY <1>4, <2>1 DEF SweepTmp, CkTypeOK, File
<1>5. ASSUME NEW h \in Large, SweepCount(h) PROVE CkTypes'
  BY <1>5 DEF SweepCount, CkTypeOK, CallShape
<1>6. ASSUME NEW h \in Large, SweepRemove(h) PROVE CkTypes'
  <2>1. CallShape' /\ edit' \in [Editors -> CkCall]
    <3>1. edit' = Moved(h, "tmp", "gone")
      BY <1>6 DEF SweepRemove
    <3>2. edit' \in [Editors -> CkCall]
      BY <3>1, MovedType
    <3>3. \A d \in Editors : /\ edit'[d].pc = edit[d].pc /\ edit'[d].path = edit[d].path
                              /\ edit'[d].to = edit[d].to /\ edit'[d].pre = edit[d].pre
      BY <3>1, MovedFd
    <3> QED
      BY <3>2, <3>3 DEF CallShape
  <2> QED
    BY <1>6, <2>1 DEF SweepRemove, CkTypeOK, File
<1>7. CASE SweepDone
  BY <1>7 DEF SweepDone, Resting, CkTypeOK, CallShape
<1>8. CASE TimePasses
  BY <1>0, <1>8 DEF TimePasses, CkTypeOK, CallShape
<1>9. CASE Crash
  BY <1>9, NobodyType DEF Crash, Resting, CkTypeOK, CallShape
<1> QED
  BY <1>1, <1>2, <1>3, <1>4, <1>5, <1>6, <1>7, <1>8, <1>9 DEF CkNext, Sweep

-----------------------------------------------------------------------------
\* A step of one call that leaves the files of the store alone.
LEMMA FilesKept ==
  ASSUME CkTypes, FilesInv, NEW c \in Editors, UNCHANGED <<rows, spill, tmp, janitor, torn>>,
         \A d \in Editors \ {c} : edit'[d] = edit[d],
         edit'[c].pc \notin {"fill", "rename"},
         edit'[c].pc \in Spilling /\ edit'[c].pre \in Large /\ edit'[c].quiet =>
           /\ janitor.pc = "idle"
           /\ edit'[c].pc = "insert" => spill[edit'[c].pre] # "none"
  PROVE  FilesInv'
<1>1. QuietSnapshot'
  BY DEF FilesInv, QuietSnapshot
<1>2. AtRest' /\ GoneUnreferred' /\ QuietRowHeld'
  BY DEF FilesInv, AtRest, GoneUnreferred, QuietRowHeld
<1>3. WholeUnlessTorn'
  <2>1. \A d \in Editors, h \in Large : InTmp(d, h)' => d # c /\ InTmp(d, h)
    BY DEF InTmp
  <2> QED
    BY <2>1 DEF FilesInv, WholeUnlessTorn
<1> QED
  BY <1>1, <1>2, <1>3 DEF FilesInv

\* A step of one call that writes neither a file of the tools nor a row.
LEMMA ReadKept ==
  ASSUME CkTypes, HoldsRead, NEW c \in Editors, UNCHANGED disk, rows \subseteq rows',
         \A d \in Editors \ {c} : /\ edit'[d].pc = edit[d].pc /\ edit'[d].path = edit[d].path
                                  /\ edit'[d].pre = edit[d].pre
                                  /\ edit'[d].changed = edit[d].changed
                                  /\ edit'[d].purged = edit[d].purged,
         ~edit'[c].changed =>
           /\ edit'[c].pc \in Snapped \ {"execute"} => edit'[c].pre = disk[edit'[c].path]
           /\ edit'[c].pc = "execute" /\ ~edit'[c].purged =>
                \E r \in rows' : r.path = edit'[c].path /\ r.pre = disk[edit'[c].path]
  PROVE  HoldsRead'
<1> SUFFICES ASSUME NEW d \in Editors, ~edit'[d].changed
             PROVE  /\ edit'[d].pc \in Snapped \ {"execute"} => edit'[d].pre = disk'[edit'[d].path]
                    /\ edit'[d].pc = "execute" /\ ~edit'[d].purged =>
                         \E r \in rows' : r.path = edit'[d].path /\ r.pre = disk'[edit'[d].path]
  BY DEF HoldsRead
<1>1. CASE d = c
  BY <1>1
<1>2. CASE d # c
  BY <1>2 DEF HoldsRead
<1> QED
  BY <1>1, <1>2

\* A step of a tool call keeps the files, and what the calls hold, as CkInv says.
LEMMA CallInv ==
  ASSUME CkInv, NEW c \in Editors, CkCallNext(c)
  PROVE  FilesInv' /\ HoldsRead'
<1> USE DEF CkInv
<1>0. edit \in [Editors -> CkCall] /\ edit[c] \in CkCall
  BY DEF CkTypes, CkTypeOK
<1>a. Nobody.pc = "idle"
  BY DEF Nobody
<1>1. CASE \/ WriteCall(c) \/ RestoreCall(c) \/ ReadSpill(c) \/ SnapshotFails(c) \/ ApplyFails(c)
  <2>1. /\ UNCHANGED <<disk, rows, spill, tmp, janitor, torn>>
        /\ \A d \in Editors \ {c} : edit'[d] = edit[d]
        /\ edit'[c].pc \in {"idle", "source", "look"}
    <3>1. UNCHANGED <<disk, rows, spill, tmp, janitor, torn>>
      BY <1>1 DEF WriteCall, RestoreCall, ReadSpill, SnapshotFails, ApplyFails
    <3>2. \/ \E k : edit' = [edit EXCEPT ![c] = k] /\ k.pc \in {"idle", "source", "look"}
          \/ edit' = [edit EXCEPT ![c].pc = "look"]
      <4>1. CASE WriteCall(c)
        <5> DEFINE k(p, x) == [Nobody EXCEPT !.pc = "look", !.path = p, !.to = x]
        <5>1. PICK p \in Paths, x \in Contents : edit' = [edit EXCEPT ![c] = k(p, x)]
          BY <4>1 DEF WriteCall
        <5>2. k(p, x).pc = "look"
          BY DEF Nobody
        <5> HIDE DEF k
        <5> QED
          BY <5>1, <5>2
      <4>2. CASE RestoreCall(c)
        <5> DEFINE k(r) == [Nobody EXCEPT !.pc = IF r.pre \in Large THEN "source" ELSE "look",
                                          !.path = r.path, !.to = r.pre]
        <5>1. PICK r \in rows : edit' = [edit EXCEPT ![c] = k(r)]
          BY <4>2 DEF RestoreCall
        <5>2. k(r).pc \in {"source", "look"}
          BY DEF Nobody
        <5> HIDE DEF k
        <5> QED
          BY <5>1, <5>2
      <4>3. CASE ReadSpill(c)
        BY <1>a, <4>3 DEF ReadSpill, Goto, Leave
      <4>4. CASE SnapshotFails(c) \/ ApplyFails(c)
        BY <1>a, <4>4 DEF SnapshotFails, ApplyFails, Leave
      <4> QED
        BY <1>1, <4>1, <4>2, <4>3, <4>4
    <3> QED
      BY <1>0, <3>1, <3>2 DEF CkCall
  <2> QED
    BY <2>1, FilesKept, ReadKept DEF Spilling, Snapped
<1>2. CASE Look(c)
  <2>1. /\ UNCHANGED <<disk, rows, spill, tmp, janitor, torn>>
        /\ \A d \in Editors \ {c} : edit'[d] = edit[d]
        /\ edit'[c].pre = disk[edit'[c].path]
        /\ edit'[c].pc = "dedup" \/ (edit'[c].pc = "insert" /\ edit'[c].pre \in Huge \cup {Absent})
    BY <1>0, <1>2 DEF Look, CkCall
  <2>2. edit'[c].pre \in Huge \cup {Absent} => edit'[c].pre \notin Large
    BY CheckpointAssumption
  <2>3. FilesInv'
    BY <2>1, <2>2, FilesKept DEF Spilling
  <2>4. HoldsRead'
    BY <2>1, ReadKept DEF Snapped
  <2> QED
    BY <2>3, <2>4
<1>3. CASE Dedup(c)
  <2>1. /\ UNCHANGED <<disk, rows, spill, tmp, janitor, torn>>
        /\ \A d \in Editors \ {c} : edit'[d] = edit[d]
        /\ edit[c].pc = "dedup" /\ edit'[c].path = edit[c].path /\ edit'[c].changed = edit[c].changed
        /\ \/ edit'[c].pc = "execute" /\ edit[c].pre \in Newest(edit[c].path)
           \/ edit'[c].pre = edit[c].pre /\ edit'[c].pc = "stat"
           \/ edit'[c].pre = edit[c].pre /\ edit'[c].pc = "insert" /\ edit'[c].pre \notin Large
    BY <1>0, <1>3 DEF Dedup, At, Goto, Preserved, CkCall
  <2>2. FilesInv'
    BY <2>1, FilesKept DEF Spilling
  <2>3. edit[c].pre \in Newest(edit[c].path) =>
          \E r \in rows : r.path = edit[c].path /\ r.pre = edit[c].pre
    BY DEF Newest, NewestIn
  <2>4. ~edit[c].changed => edit[c].pre = disk[edit[c].path]
    BY <2>1 DEF HoldsRead, Snapped, CkPC
  <2>5. HoldsRead'
    BY <2>1, <2>3, <2>4, ReadKept DEF Snapped
  <2> QED
    BY <2>2, <2>5
<1>4. CASE StatSpill(c)
  <2>1. /\ UNCHANGED <<disk, rows, spill, tmp, janitor, torn>>
        /\ \A d \in Editors \ {c} : edit'[d] = edit[d]
        /\ edit[c].pc = "stat" /\ edit'[c].path = edit[c].path /\ edit'[c].changed = edit[c].changed
        /\ edit'[c].pre = edit[c].pre /\ edit'[c].quiet = (janitor.pc = "idle")
        /\ \/ edit'[c].pc = "create"
           \/ edit'[c].pc = "insert" /\ spill[edit[c].pre] # "none"
    BY <1>0, <1>4 DEF StatSpill, At, CkCall
  <2>2. FilesInv'
    BY <2>1, FilesKept DEF Spilling
  <2>3. HoldsRead'
    BY <2>1, ReadKept DEF HoldsRead, Snapped, CkPC
  <2> QED
    BY <2>2, <2>3
<1>5. CASE CreateTmp(c)
  <2> DEFINE h == edit[c].pre
  <2>1. /\ UNCHANGED <<disk, rows, spill, janitor>> /\ h \in Large
        /\ \A d \in Editors \ {c} : edit'[d] = edit[d]
        /\ edit[c].pc = "create" /\ edit'[c].path = edit[c].path /\ edit'[c].changed = edit[c].changed
        /\ edit'[c].pre = h /\ edit'[c].quiet = edit[c].quiet
        /\ edit'[c].pc = "fill" /\ edit'[c].fd = "tmp"
        /\ tmp' = [tmp EXCEPT ![h] = "part"] /\ torn \subseteq torn'
        /\ h \in torn' \/ \A d \in Editors : ~InTmp(d, h)
    BY <1>0, <1>5 DEF CreateTmp, At, CkCall, InTmp, CkTypes, CallShape
  <2>2. QuietSnapshot' /\ AtRest' /\ GoneUnreferred' /\ QuietRowHeld'
    BY <2>1 DEF FilesInv, QuietSnapshot, AtRest, GoneUnreferred, QuietRowHeld, Spilling
  <2>3. WholeUnlessTorn'
    <3>1. SUFFICES ASSUME NEW g \in Large, g \notin torn'
                   PROVE  /\ spill'[g] # "part"
                          /\ \A e \in Editors : InTmp(e, g)' =>
                               /\ \A d \in Editors : InTmp(d, g)' => d = e
                               /\ edit'[e].pc = "fill" => edit'[e].fd = "tmp" \/ (edit'[e].fd = "gone" /\ tmp'[g] = "none")
                               /\ edit'[e].pc = "rename" => tmp'[g] # "part"
      BY DEF WholeUnlessTorn
    <3>2. CASE g = h
      <4>1. \A d \in Editors : InTmp(d, g)' => d = c
        BY <2>1, <3>1, <3>2 DEF InTmp
      <4> QED
        BY <2>1, <3>1, <3>2, <4>1 DEF FilesInv, WholeUnlessTorn
    <3>3. CASE g # h
      <4>1. \A d \in Editors : InTmp(d, g)' => InTmp(d, g) /\ edit'[d] = edit[d]
        BY <2>1, <3>3 DEF InTmp
      <4>2. tmp'[g] = tmp[g]
        BY <2>1, <3>3 DEF CkTypes, CkTypeOK
      <4> QED
        BY <2>1, <3>1, <4>1, <4>2 DEF FilesInv, WholeUnlessTorn
    <3> QED
      BY <3>2, <3>3
  <2>4. HoldsRead'
    BY <2>1, ReadKept DEF HoldsRead, Snapped, CkPC
  <2> QED
    BY <2>2, <2>3, <2>4 DEF FilesInv
<1>6. CASE FillTmp(c)
  <2> DEFINE h == edit[c].pre
  <2>1. /\ UNCHANGED <<disk, rows, janitor, torn>> /\ h \in Large
        /\ \A d \in Editors \ {c} : edit'[d] = edit[d]
        /\ edit[c].pc = "fill" /\ edit'[c].path = edit[c].path /\ edit'[c].changed = edit[c].changed
        /\ edit'[c].pre = h /\ edit'[c].quiet = edit[c].quiet /\ edit'[c].pc = "rename"
        /\ tmp' = IF edit[c].fd = "tmp" THEN [tmp EXCEPT ![h] = "full"] ELSE tmp
        /\ spill' = IF edit[c].fd = "spill" THEN [spill EXCEPT ![h] = "full"] ELSE spill
    BY <1>0, <1>6 DEF FillTmp, At, CkCall, CkTypes, CallShape
  <2>2. \A g \in Large : spill'[g] = spill[g] \/ spill'[g] = "full"
    BY <2>1 DEF CkTypes, CkTypeOK
  <2>3. QuietSnapshot' /\ AtRest' /\ GoneUnreferred' /\ QuietRowHeld'
    BY <2>1, <2>2 DEF FilesInv, QuietSnapshot, AtRest, GoneUnreferred, QuietRowHeld, Spilling
  <2>4. WholeUnlessTorn'
    <3>1. SUFFICES ASSUME NEW g \in Large, g \notin torn
                   PROVE  /\ spill'[g] # "part"
                          /\ \A e \in Editors : InTmp(e, g)' =>
                               /\ \A d \in Editors : InTmp(d, g)' => d = e
                               /\ edit'[e].pc = "fill" => edit'[e].fd = "tmp" \/ (edit'[e].fd = "gone" /\ tmp'[g] = "none")
                               /\ edit'[e].pc = "rename" => tmp'[g] # "part"
      BY <2>1 DEF WholeUnlessTorn
    <3>2. \A d \in Editors : InTmp(d, g)' => InTmp(d, g)
      BY <2>1 DEF InTmp
    <3>3. InTmp(c, h)
      BY <2>1 DEF InTmp
    <3>4. CASE g = h
      <4>1. edit[c].fd = "tmp" \/ (edit[c].fd = "gone" /\ tmp[g] = "none")
        BY <2>1, <3>1, <3>3, <3>4 DEF FilesInv, WholeUnlessTorn
      <4>2. tmp'[g] # "part"
        BY <2>1, <3>4, <4>1 DEF CkTypes, CkTypeOK
      <4>3. \A d \in Editors : InTmp(d, g) => d = c
        BY <3>1, <3>3, <3>4 DEF FilesInv, WholeUnlessTorn
      <4> QED
        BY <2>1, <2>2, <3>1, <3>2, <4>2, <4>3 DEF FilesInv, WholeUnlessTorn
    <3>5. CASE g # h
      <4>1. tmp'[g] = tmp[g] /\ \A d \in Editors : InTmp(d, g)' => edit'[d] = edit[d]
        BY <2>1, <3>5 DEF CkTypes, CkTypeOK, InTmp
      <4> QED
        BY <2>1, <2>2, <3>1, <3>2, <4>1 DEF FilesInv, WholeUnlessTorn
    <3> QED
      BY <3>4, <3>5
  <2>5. HoldsRead'
    BY <2>1, ReadKept DEF HoldsRead, Snapped, CkPC
  <2> QED
    BY <2>3, <2>4, <2>5 DEF FilesInv
<1>7. CASE RenameTmp(c)
  <2> DEFINE h == edit[c].pre
  <2>1. h \in Large /\ edit[c].pc = "rename" /\ UNCHANGED <<disk, rows, janitor, torn>> /\ InTmp(c, h)
    BY <1>7 DEF RenameTmp, At, CkTypes, CallShape, InTmp
  <2>2. CASE tmp[h] = "none"
    <3>1. UNCHANGED <<tmp, spill>> /\ edit' = [edit EXCEPT ![c] = Nobody]
      BY <1>7, <2>2 DEF RenameTmp, Leave
    <3>2. edit'[c].pc = "idle" /\ \A d \in Editors \ {c} : edit'[d] = edit[d]
      BY <1>0, <1>a, <3>1
    <3> QED
      BY <2>1, <3>1, <3>2, FilesKept, ReadKept DEF Spilling, Snapped
  <2>3. CASE tmp[h] # "none"
    <3> DEFINE m == Moved(h, "spill", "gone")
    <3>0. /\ spill' = [spill EXCEPT ![h] = tmp[h]] /\ tmp' = [tmp EXCEPT ![h] = "none"]
          /\ edit' = [m EXCEPT ![c].pc = "insert"]
      BY <1>7, <2>3 DEF RenameTmp
    <3>1. m \in [Editors -> CkCall] /\ \A d \in Editors :
            /\ m[d].pc = edit[d].pc /\ m[d].path = edit[d].path /\ m[d].pre = edit[d].pre
            /\ m[d].quiet = edit[d].quiet /\ m[d].changed = edit[d].changed
            /\ m[d].purged = edit[d].purged
            /\ InTmp(d, h) \/ m[d].fd = edit[d].fd
      BY <2>1, MovedFd, MovedType DEF CkTypes, InTmp
    <3> HIDE DEF m
    <3>2. /\ edit'[c].pc = "insert" /\ edit'[c].path = edit[c].path /\ edit'[c].pre = h
          /\ edit'[c].quiet = edit[c].quiet /\ edit'[c].changed = edit[c].changed
          /\ \A d \in Editors \ {c} : edit'[d] = m[d]
      BY <3>0, <3>1 DEF CkCall
    <3>3. /\ \A g \in Large : spill[g] # "none" => spill'[g] # "none"
          /\ spill'[h] = tmp[h] /\ \A g \in Large \ {h} : spill'[g] = spill[g] /\ tmp'[g] = tmp[g]
      BY <2>1, <2>3, <3>0 DEF CkTypes, CkTypeOK
    <3>4. AtRest' /\ GoneUnreferred' /\ QuietRowHeld'
      BY <2>1, <3>3 DEF FilesInv, AtRest, GoneUnreferred, QuietRowHeld
    <3>5. QuietSnapshot'
      <4>1. SUFFICES ASSUME NEW d \in Editors, edit'[d].pc \in Spilling, edit'[d].pre \in Large, edit'[d].quiet
                     PROVE  /\ janitor.pc = "idle"
                            /\ edit'[d].pc = "insert" => spill'[edit'[d].pre] # "none"
        BY <2>1 DEF QuietSnapshot
      <4>2. CASE d = c
        BY <2>1, <2>3, <3>2, <3>3, <4>1, <4>2 DEF FilesInv, QuietSnapshot, Spilling
      <4>3. CASE d # c
        BY <3>1, <3>2, <3>3, <4>1, <4>3 DEF FilesInv, QuietSnapshot
      <4> QED
        BY <4>2, <4>3
    <3>6. WholeUnlessTorn'
      <4>1. SUFFICES ASSUME NEW g \in Large, g \notin torn
                     PROVE  /\ spill'[g] # "part"
                            /\ \A e \in Editors : InTmp(e, g)' =>
                                 /\ \A d \in Editors : InTmp(d, g)' => d = e
                                 /\ edit'[e].pc = "fill" => edit'[e].fd = "tmp" \/ (edit'[e].fd = "gone" /\ tmp'[g] = "none")
                                 /\ edit'[e].pc = "rename" => tmp'[g] # "part"
        BY <2>1 DEF WholeUnlessTorn
      <4>2. \A d \in Editors : InTmp(d, g)' => InTmp(d, g) /\ d # c
        BY <3>1, <3>2 DEF InTmp
      <4>3. CASE g = h
        <5>1. \A d \in Editors : InTmp(d, g) => d = c
          BY <2>1, <4>1, <4>3 DEF FilesInv, WholeUnlessTorn
        <5>2. tmp[h] # "part"
          BY <2>1, <4>1, <4>3 DEF FilesInv, WholeUnlessTorn
        <5> QED
          BY <3>3, <4>2, <4>3, <5>1, <5>2
      <4>4. CASE g # h
        <5>1. \A d \in Editors : InTmp(d, g)' => edit'[d].pc = edit[d].pc /\ edit'[d].fd = edit[d].fd
          BY <3>1, <3>2, <4>2, <4>4 DEF InTmp
        <5> QED
          BY <3>3, <4>1, <4>2, <4>4, <5>1 DEF FilesInv, WholeUnlessTorn
      <4> QED
        BY <4>3, <4>4
    <3>7. HoldsRead'
      BY <2>1, <3>1, <3>2, ReadKept DEF HoldsRead, Snapped, CkPC
    <3> QED
      BY <3>4, <3>5, <3>6, <3>7 DEF FilesInv
  <2> QED
    BY <2>2, <2>3
<1>8. CASE InsertRow(c)
  <2> DEFINE k == edit[c]
  <2>1. PICK i \in 1 .. MaxCalls :
          rows' = rows \cup {[id |-> i, path |-> k.path, pre |-> k.pre, born |-> epoch, quiet |-> k.quiet]}
    BY <1>8 DEF InsertRow
  <2>2. /\ UNCHANGED <<disk, spill, tmp, janitor, torn>> /\ k.pc = "insert"
        /\ \A d \in Editors \ {c} : edit'[d] = edit[d]
        /\ edit'[c].pc = "execute" /\ edit'[c].path = k.path /\ edit'[c].changed = k.changed
    BY <1>0, <1>8 DEF InsertRow, At, Preserved, CkCall
  <2>3. k.pre \in Large /\ k.quiet => janitor.gone = {} /\ spill[k.pre] # "none"
    BY <2>2 DEF FilesInv, QuietSnapshot, AtRest, Spilling
  <2>4. janitor.gone \subseteq Large
    BY DEF CkTypes, CkTypeOK
  <2>5. GoneUnreferred' /\ QuietRowHeld'
    BY <2>1, <2>2, <2>3, <2>4 DEF FilesInv, GoneUnreferred, QuietRowHeld
  <2>6. QuietSnapshot' /\ AtRest'
    BY <2>2 DEF FilesInv, QuietSnapshot, AtRest, Spilling
  <2>7. WholeUnlessTorn'
    <3>1. \A d \in Editors, h \in Large : InTmp(d, h)' => InTmp(d, h) /\ edit'[d] = edit[d]
      BY <2>2 DEF InTmp
    <3> QED
      BY <2>2, <3>1 DEF FilesInv, WholeUnlessTorn
  <2>8. HoldsRead'
    <3>1. ~k.changed => k.pre = disk[k.path]
      BY <2>2 DEF HoldsRead, Snapped, CkPC
    <3>2. \E r \in rows' : r.path = k.path /\ r.pre = k.pre
      <4> DEFINE new == [id |-> i, path |-> k.path, pre |-> k.pre, born |-> epoch, quiet |-> k.quiet]
      <4>1. new \in rows' /\ new.path = k.path /\ new.pre = k.pre
        BY <2>1
      <4> QED
        BY <4>1
    <3> QED
      BY <2>1, <2>2, <3>1, <3>2, ReadKept DEF Snapped
  <2> QED
    BY <2>5, <2>6, <2>7, <2>8 DEF FilesInv
<1>9. CASE Apply(c)
  <2> DEFINE p == edit[c].path
  <2>1. /\ UNCHANGED <<rows, spill, tmp, janitor, torn>> /\ p \in Paths
        /\ disk' = [disk EXCEPT ![p] = edit[c].to]
        /\ edit'[c].pc = "idle"
    BY <1>9, <1>a DEF Apply, At, CkTypes, CallShape
  <2>2. ASSUME NEW d \in Editors \ {c}
        PROVE  /\ edit'[d].pc = edit[d].pc /\ edit'[d].path = edit[d].path /\ edit'[d].pre = edit[d].pre
               /\ edit'[d].quiet = edit[d].quiet /\ edit'[d].fd = edit[d].fd
               /\ edit'[d].purged = edit[d].purged
               /\ ~edit'[d].changed => ~edit[d].changed /\ (edit[d].pc \in Snapped => edit[d].path # p)
    <3>1. edit[d] \in CkCall
      BY DEF CkTypes, CkTypeOK
    <3>2. CASE edit[d].path = p /\ edit[d].pc \in Snapped
      BY <1>9, <2>2, <3>1, <3>2 DEF Apply, CkCall
    <3>3. CASE ~(edit[d].path = p /\ edit[d].pc \in Snapped)
      BY <1>9, <2>2, <3>1, <3>3 DEF Apply, CkCall
    <3> QED
      BY <3>2, <3>3
  <2>3. AtRest' /\ GoneUnreferred' /\ QuietRowHeld'
    BY <2>1 DEF FilesInv, AtRest, GoneUnreferred, QuietRowHeld
  <2>4. QuietSnapshot'
    BY <2>1, <2>2 DEF FilesInv, QuietSnapshot, Spilling
  <2>5. WholeUnlessTorn'
    <3>1. \A d \in Editors, h \in Large : InTmp(d, h)' => InTmp(d, h) /\ d # c
      BY <2>1, <2>2 DEF InTmp
    <3> QED
      BY <2>1, <2>2, <3>1 DEF FilesInv, WholeUnlessTorn
  <2>6. HoldsRead'
    <3> SUFFICES ASSUME NEW d \in Editors \ {c}, ~edit'[d].changed
                 PROVE  /\ edit'[d].pc \in Snapped \ {"execute"} => edit'[d].pre = disk'[edit'[d].path]
                        /\ edit'[d].pc = "execute" /\ ~edit'[d].purged =>
                             \E r \in rows' : r.path = edit'[d].path /\ r.pre = disk'[edit'[d].path]
      BY <2>1 DEF HoldsRead, Snapped
    <3>1. edit[d].pc \in Snapped => edit[d].path \in Paths \ {p}
      BY <2>2 DEF CkTypes, CallShape, Snapped
    <3>2. edit[d].pc \in Snapped => disk'[edit[d].path] = disk[edit[d].path]
      BY <2>1, <3>1 DEF CkTypes, CkTypeOK
    <3>3. "execute" \in Snapped
      BY DEF Snapped, CkPC
    <3>4. /\ edit'[d].pc = edit[d].pc /\ edit'[d].path = edit[d].path /\ edit'[d].pre = edit[d].pre
          /\ edit'[d].purged = edit[d].purged /\ ~edit[d].changed
      BY <2>2
    <3>5. edit[d].pc \in Snapped \ {"execute"} => edit[d].pre = disk[edit[d].path]
      BY <3>4 DEF HoldsRead
    <3>6. edit[d].pc = "execute" /\ ~edit[d].purged =>
            \E r \in rows : r.path = edit[d].path /\ r.pre = disk[edit[d].path]
      BY <3>4 DEF HoldsRead
    <3> QED
      BY <2>1, <3>2, <3>3, <3>4, <3>5, <3>6
  <2> QED
    BY <2>3, <2>4, <2>5, <2>6 DEF FilesInv
<1> QED
  BY <1>1, <1>2, <1>3, <1>4, <1>5, <1>6, <1>7, <1>8, <1>9 DEF CkCallNext

-----------------------------------------------------------------------------
\* A step of the janitor, the clock or a crash.
LEMMA JanitorInv ==
  ASSUME CkInv, Purge \/ Sweep \/ SweepDone \/ TimePasses \/ Crash
  PROVE  FilesInv' /\ HoldsRead'
<1> USE DEF CkInv
<1>0. edit \in [Editors -> CkCall] /\ \A c \in Editors : edit[c] \in CkCall
  BY DEF CkTypes, CkTypeOK
<1>1. CASE Purge
  <2>1. /\ UNCHANGED <<disk, spill, tmp, torn>> /\ rows' = { r \in rows : r.born = epoch }
        /\ janitor'.pc = "sweep" /\ janitor'.gone = {}
    BY <1>1 DEF Purge
  <2>2. ASSUME NEW d \in Editors
        PROVE  /\ edit'[d].pc = edit[d].pc /\ edit'[d].path = edit[d].path /\ edit'[d].pre = edit[d].pre
               /\ edit'[d].fd = edit[d].fd /\ edit'[d].changed = edit[d].changed
               /\ edit[d].pc \in Snapped => edit'[d].purged
               /\ edit[d].pc \in Spilling => ~edit'[d].quiet
    <3>1. edit[d] \in CkCall
      BY <1>0
    <3>2. CASE edit[d].pc \notin Snapped
      BY <1>1, <3>1, <3>2 DEF Purge, Snapped, Spilling, CkPC
    <3>3. CASE edit[d].pc \in Snapped
      <4> DEFINE q == edit[d].pc \notin {"create", "fill", "rename", "insert"}
      <4>1. edit'[d] = [edit[d] EXCEPT !.purged = TRUE, !.quiet = q] /\ (edit[d].pc \in Spilling => ~q)
        BY <1>1, <3>3 DEF Purge, Spilling
      <4> HIDE DEF q
      <4> QED
        BY <3>1, <4>1 DEF CkCall
    <3> QED
      BY <3>2, <3>3
  <2>3. QuietSnapshot' /\ AtRest' /\ GoneUnreferred' /\ QuietRowHeld'
    BY <2>1, <2>2 DEF FilesInv, QuietSnapshot, AtRest, GoneUnreferred, QuietRowHeld
  <2>4. WholeUnlessTorn'
    <3>1. \A d \in Editors, h \in Large : InTmp(d, h)' = InTmp(d, h)
      BY <2>2 DEF InTmp
    <3> QED
      BY <2>1, <2>2, <3>1 DEF FilesInv, WholeUnlessTorn
  <2>5. HoldsRead'
    BY <2>1, <2>2 DEF HoldsRead, Snapped, CkPC
  <2> QED
    BY <2>3, <2>4, <2>5 DEF FilesInv
<1>2. ASSUME NEW h \in Large, SweepTmp(h) PROVE FilesInv' /\ HoldsRead'
  <2>1. /\ UNCHANGED <<disk, rows, spill, torn>> /\ tmp' = [tmp EXCEPT ![h] = "none"]
        /\ janitor.seen # {} /\ janitor'.pc = janitor.pc /\ janitor'.gone = janitor.gone
        /\ edit' = Moved(h, "gone", "spill")
    BY <1>2 DEF SweepTmp, CkTypes, CkTypeOK
  <2>2. \A d \in Editors :
          /\ edit'[d].pc = edit[d].pc /\ edit'[d].path = edit[d].path /\ edit'[d].pre = edit[d].pre
          /\ edit'[d].quiet = edit[d].quiet /\ edit'[d].changed = edit[d].changed
          /\ edit'[d].purged = edit[d].purged
          /\ edit'[d].fd = IF edit[d].pc = "fill" /\ edit[d].pre = h
                           THEN IF edit[d].fd = "tmp" THEN "gone"
                                ELSE IF edit[d].fd = "spill" THEN "spill" ELSE edit[d].fd
                           ELSE edit[d].fd
    BY <2>1, MovedFd DEF CkTypes
  <2>3. QuietSnapshot' /\ AtRest' /\ GoneUnreferred' /\ QuietRowHeld'
    BY <2>1, <2>2 DEF FilesInv, QuietSnapshot, AtRest, GoneUnreferred, QuietRowHeld
  <2>4. WholeUnlessTorn'
    <3>1. \A d \in Editors, g \in Large : InTmp(d, g)' = InTmp(d, g)
      BY <2>2 DEF InTmp
    <3>2. \A g \in Large : tmp'[g] = IF g = h THEN "none" ELSE tmp[g]
      BY <2>1 DEF CkTypes, CkTypeOK
    <3>3. \A d \in Editors, g \in Large : InTmp(d, g) /\ g # h => edit'[d].fd = edit[d].fd
      BY <2>2 DEF InTmp
    <3>4. \A d \in Editors : InTmp(d, h) /\ edit[d].pc = "fill" /\ edit[d].fd \in {"tmp", "gone"}
            => edit'[d].fd = "gone"
      BY <2>2 DEF InTmp
    <3>5. ASSUME NEW g \in Large, g \notin torn
          PROVE  /\ spill'[g] # "part"
                 /\ \A e \in Editors : InTmp(e, g)' =>
                      /\ \A d \in Editors : InTmp(d, g)' => d = e
                      /\ edit'[e].pc = "fill" => edit'[e].fd = "tmp" \/ (edit'[e].fd = "gone" /\ tmp'[g] = "none")
                      /\ edit'[e].pc = "rename" => tmp'[g] # "part"
      BY <2>1, <2>2, <3>1, <3>2, <3>3, <3>4, <3>5 DEF FilesInv, WholeUnlessTorn
    <3> QED
      BY <2>1, <3>5 DEF WholeUnlessTorn
  <2>5. HoldsRead'
    BY <2>1, <2>2 DEF HoldsRead
  <2> QED
    BY <2>3, <2>4, <2>5 DEF FilesInv
<1>3. ASSUME NEW h \in Large, SweepCount(h) PROVE FilesInv' /\ HoldsRead'
  <2>1. /\ UNCHANGED <<disk, rows, spill, tmp, edit, torn>>
        /\ janitor.seen # {} /\ janitor'.pc = janitor.pc
        /\ janitor'.gone = IF Referred(h) THEN {} ELSE {h}
    BY <1>3 DEF SweepCount, CkTypes, CkTypeOK
  <2>2. QuietSnapshot' /\ AtRest' /\ GoneUnreferred' /\ QuietRowHeld'
    BY <2>1 DEF FilesInv, QuietSnapshot, AtRest, GoneUnreferred, QuietRowHeld, Referred
  <2> QED
    BY <2>1, <2>2 DEF FilesInv, WholeUnlessTorn, InTmp, HoldsRead
<1>4. ASSUME NEW h \in Large, SweepRemove(h) PROVE FilesInv' /\ HoldsRead'
  <2>1. /\ UNCHANGED <<disk, rows, tmp, torn>> /\ spill' = [spill EXCEPT ![h] = "none"]
        /\ h \in janitor.gone /\ janitor'.pc = janitor.pc /\ janitor'.gone = {}
        /\ edit' = Moved(h, "tmp", "gone")
    BY <1>4 DEF SweepRemove, CkTypes, CkTypeOK
  <2>2. \A d \in Editors :
          /\ edit'[d].pc = edit[d].pc /\ edit'[d].path = edit[d].path /\ edit'[d].pre = edit[d].pre
          /\ edit'[d].quiet = edit[d].quiet /\ edit'[d].changed = edit[d].changed
          /\ edit'[d].purged = edit[d].purged
          /\ edit[d].fd # "spill" => edit'[d].fd = edit[d].fd
    BY <2>1, MovedFd DEF CkTypes
  <2>3. \A g \in Large : spill'[g] = IF g = h THEN "none" ELSE spill[g]
    BY <2>1 DEF CkTypes, CkTypeOK
  <2>4. janitor.pc # "idle"
    BY <2>1 DEF FilesInv, AtRest
  <2>5. QuietSnapshot' /\ AtRest' /\ GoneUnreferred'
    BY <2>1, <2>2, <2>4 DEF FilesInv, QuietSnapshot, AtRest, GoneUnreferred
  <2>6. QuietRowHeld'
    BY <2>1, <2>3 DEF FilesInv, GoneUnreferred, QuietRowHeld
  <2>7. WholeUnlessTorn'
    <3>1. \A d \in Editors, g \in Large : InTmp(d, g)' = InTmp(d, g)
      BY <2>2 DEF InTmp
    <3>2. ASSUME NEW g \in Large, g \notin torn
          PROVE  /\ spill'[g] # "part"
                 /\ \A e \in Editors : InTmp(e, g)' =>
                      /\ \A d \in Editors : InTmp(d, g)' => d = e
                      /\ edit'[e].pc = "fill" => edit'[e].fd = "tmp" \/ (edit'[e].fd = "gone" /\ tmp'[g] = "none")
                      /\ edit'[e].pc = "rename" => tmp'[g] # "part"
      BY <2>1, <2>2, <2>3, <3>1, <3>2 DEF FilesInv, WholeUnlessTorn
    <3> QED
      BY <2>1, <3>2 DEF WholeUnlessTorn
  <2>8. HoldsRead'
    BY <2>1, <2>2 DEF HoldsRead
  <2> QED
    BY <2>5, <2>6, <2>7, <2>8 DEF FilesInv
<1>5. CASE SweepDone
  <2>1. /\ UNCHANGED <<disk, rows, spill, tmp, edit, torn>>
        /\ janitor'.pc = "idle" /\ janitor'.seen = {} /\ janitor'.gone = {}
    BY <1>5 DEF SweepDone, Resting
  <2>2. QuietSnapshot' /\ AtRest' /\ GoneUnreferred' /\ QuietRowHeld'
    BY <2>1 DEF FilesInv, QuietSnapshot, AtRest, GoneUnreferred, QuietRowHeld
  <2> QED
    BY <2>1, <2>2 DEF FilesInv, WholeUnlessTorn, InTmp, HoldsRead
<1>6. CASE TimePasses
  BY <1>6 DEF TimePasses, FilesInv, QuietSnapshot, AtRest, GoneUnreferred, QuietRowHeld, WholeUnlessTorn,
              InTmp, HoldsRead
<1>7. CASE Crash
  <2>1. /\ UNCHANGED <<disk, rows, spill, tmp, torn>> /\ \A c \in Editors : edit'[c].pc = "idle"
        /\ janitor'.pc = "idle" /\ janitor'.seen = {} /\ janitor'.gone = {}
    BY <1>7 DEF Crash, Resting, Nobody
  <2> QED
    BY <2>1 DEF FilesInv, QuietSnapshot, AtRest, GoneUnreferred, QuietRowHeld, WholeUnlessTorn, InTmp,
                HoldsRead, Snapped, Spilling
<1> QED
  BY <1>1, <1>2, <1>3, <1>4, <1>5, <1>6, <1>7 DEF Sweep

\* The calls and the janitor together.
LEMMA CkInvStep == CkInv /\ [CkNext]_ckvars => CkInv'
<1> SUFFICES ASSUME CkInv, [CkNext]_ckvars PROVE CkInv'
  OBVIOUS
<1>1. CkTypes'
  BY CkTypesStep DEF CkInv
<1>2. CASE UNCHANGED ckvars
  BY <1>1, <1>2 DEF ckvars, CkInv, FilesInv, QuietSnapshot, AtRest, GoneUnreferred, QuietRowHeld,
                    WholeUnlessTorn, InTmp, HoldsRead
<1>3. CASE CkNext
  BY <1>1, <1>3, CallInv, JanitorInv DEF CkNext, CkInv
<1> QED
  BY <1>2, <1>3

\* The inductive invariant of the checkpoint store.
THEOREM CkInvCorrect == CkSpec => []CkInv
  BY CkInitInv, CkInvStep, PTL DEF CkSpec

\* The store's rows, files and calls stay inside their types.
THEOREM CkTypeCorrect == CkSpec => []CkTypeOK
<1>1. CkInv => CkTypeOK
  BY DEF CkInv, CkTypes
<1> QED
  BY <1>1, CkInvCorrect, PTL

\* A recorded content keeps its spill file, and the file is whole, whatever
\* other snapshots, purges and crashes do (Snapshot, PurgeOlderThan).
THEOREM RowsHoldCorrect == CkSpec => []RowsHold
<1>1. CkInv => RowsHold
  <2> SUFFICES ASSUME CkInv, NEW r \in rows, r.pre \in Large, r.quiet
               PROVE  /\ spill[r.pre] # "none"
                      /\ r.pre \notin torn => spill[r.pre] = "full"
    BY DEF RowsHold
  <2>1. spill[r.pre] # "none" /\ (r.pre \notin torn => spill[r.pre] # "part")
    BY DEF CkInv, FilesInv, QuietRowHeld, WholeUnlessTorn
  <2>2. spill[r.pre] \in File
    BY DEF CkInv, CkTypes, CkTypeOK
  <2> QED
    BY <2>1, <2>2 DEF File
<1> QED
  BY <1>1, CkInvCorrect, PTL

\* Nothing is overwritten that no row of its path records, unless another call
\* or a purge came between the snapshot and the write (Dispatcher, Snapshot).
THEOREM RecordedCorrect == CkSpec => RecordedUnlessRaced
<1> DEFINE Recorded == \A c \in Editors :
             Apply(c) /\ ~edit[c].changed /\ ~edit[c].purged
               => \E r \in rows : r.path = edit[c].path /\ r.pre = disk[edit[c].path]
<1>1. CkInv => [Recorded]_ckvars
  BY DEF CkInv, HoldsRead, Apply, At
<1> QED
  BY <1>1, CkInvCorrect, PTL DEF CkSpec, RecordedUnlessRaced

-----------------------------------------------------------------------------
(* The dispatcher *)

\* Sets that differ in one element at most.
LEMMA OneMoves ==
  ASSUME NEW S, NEW T, NEW w, IsFiniteSet(S), T \ {w} = S \ {w}
  PROVE  /\ IsFiniteSet(T) /\ Cardinality(S) \in Nat /\ Cardinality(T) \in Nat
         /\ (w \in S <=> w \in T) => Cardinality(T) = Cardinality(S)
         /\ w \in S /\ w \notin T => Cardinality(T) = Cardinality(S) - 1
         /\ w \notin S /\ w \in T => Cardinality(T) = Cardinality(S) + 1
<1>1. CASE w \in S /\ w \in T
  <2>1. T = S
    BY <1>1
  <2> QED
    BY <1>1, <2>1, FS_CardinalityType
<1>2. CASE w \notin S /\ w \notin T
  <2>1. T = S
    BY <1>2
  <2> QED
    BY <1>2, <2>1, FS_CardinalityType
<1>3. CASE w \in S /\ w \notin T
  <2>1. T = S \ {w}
    BY <1>3
  <2> QED
    BY <1>3, <2>1, FS_CardinalityType, FS_RemoveElement
<1>4. CASE w \notin S /\ w \in T
  <2>1. T = S \cup {w}
    BY <1>4
  <2> QED
    BY <1>4, <2>1, FS_CardinalityType, FS_AddElement
<1> QED
  BY <1>1, <1>2, <1>3, <1>4

\* Times are finitely many numbers.
LEMMA TimesFinite == IsFiniteSet(Times) /\ Times \subseteq Nat /\ MaxTime \in Nat
  BY FS_Interval, DispatchAssumption DEF Times

\* A window is a sum over the part of the clock it covers.
LEMMA WindowIsSum ==
  ASSUME NEW f, NEW x, NEW y
  PROVE  InWindow(f, x, y) = Sum(f, Times \cap x .. y) /\ IsFiniteSet(Times \cap x .. y)
<1>1. IsFiniteSet(Times \cap x .. y)
  BY TimesFinite, FS_Subset
<1> QED
  BY <1>1 DEF InWindow, Sum

\* The numbers of calls by time; nothing lies ahead of n.
Counts(f, n) == \A t \in Times : f[t] \in Nat /\ (t > n => f[t] = 0)

\* What lies in a window is a number.
LEMMA WindowType ==
  ASSUME NEW f, NEW x, NEW y, NEW n, Counts(f, n)
  PROVE  InWindow(f, x, y) \in Nat
<1>1. IsFiniteSet(Times \cap x .. y) /\ \A t \in Times \cap x .. y : f[t] \in Nat
  BY WindowIsSum DEF Counts
<1>2. Sum(f, Times \cap x .. y) \in Nat
  BY <1>1, SumType
<1> QED
  BY <1>2, WindowIsSum

\* A window that begins no earlier and ends no later, or past what is counted
\* by then anyway, holds no more.
LEMMA WindowPart ==
  ASSUME NEW f, NEW n \in Int, Counts(f, n), NEW x \in Int, NEW y \in Int,
         NEW u \in Int, NEW v \in Int, x <= u, v <= y \/ n <= y
  PROVE  InWindow(f, u, v) <= InWindow(f, x, y)
<1> DEFINE A == { t \in Times \cap u .. v : t <= y }
           B == { t \in Times \cap u .. v : t > y }
           W == Times \cap x .. y
<1>1. IsFiniteSet(A) /\ IsFiniteSet(B) /\ IsFiniteSet(W)
  BY TimesFinite, FS_Subset
<1>2. \A t \in Times : f[t] \in Nat
  BY DEF Counts
<1>3. A \subseteq W /\ A \cap B = {} /\ A \cup B = Times \cap u .. v
  BY TimesFinite
<1>4. Sum(f, B) = 0
  <2>1. \A t \in B : f[t] = 0
    BY TimesFinite DEF Counts
  <2> HIDE DEF B
  <2> QED
    BY <1>1, <2>1, SumOfZeros
<1>5. Sum(f, A) <= Sum(f, W) /\ Sum(f, A) \in Nat
  <2>1. \A t \in W : f[t] \in Nat
    BY <1>2
  <2> HIDE DEF A, W
  <2> QED
    BY <1>1, <1>3, <2>1, SumPart
<1>6. Sum(f, A \cup B) = Sum(f, A) + Sum(f, B)
  <2>1. \A t \in A \cup B : f[t] \in Nat
    BY <1>2
  <2> HIDE DEF A, B
  <2> QED
    BY <1>1, <1>3, <2>1, SumUnion
<1>7. InWindow(f, u, v) = Sum(f, A \cup B) /\ InWindow(f, x, y) = Sum(f, W)
  <2>1. InWindow(f, u, v) = Sum(f, Times \cap u .. v) /\ InWindow(f, x, y) = Sum(f, W)
    BY WindowIsSum
  <2> HIDE DEF A, B
  <2> QED
    BY <1>3, <2>1
<1> QED
  <2> HIDE DEF A, B, W
  <2> QED
    BY <1>4, <1>5, <1>6, <1>7

\* A window divided at time y.
LEMMA WindowSplit ==
  ASSUME NEW f, NEW n, Counts(f, n), NEW x \in Int, NEW y \in Int, NEW z \in Int,
         x <= y, y <= z + 1
  PROVE  InWindow(f, x, z) = InWindow(f, x, y - 1) + InWindow(f, y, z)
<1> DEFINE A == Times \cap x .. (y - 1)
           B == Times \cap y .. z
<1>1. IsFiniteSet(A) /\ IsFiniteSet(B)
  BY TimesFinite, FS_Subset
<1>2. A \cap B = {} /\ A \cup B = Times \cap x .. z
  BY TimesFinite
<1>3. \A t \in A \cup B : f[t] \in Nat
  BY DEF Counts
<1>4. Sum(f, A \cup B) = Sum(f, A) + Sum(f, B)
  <2> HIDE DEF A, B
  <2> QED
    BY <1>1, <1>2, <1>3, SumUnion
<1>5. InWindow(f, x, y - 1) = Sum(f, A) /\ InWindow(f, y, z) = Sum(f, B)
  BY WindowIsSum
<1>6. InWindow(f, x, z) = Sum(f, Times \cap x .. z)
  BY WindowIsSum
<1> QED
  <2> HIDE DEF A, B
  <2> QED
    BY <1>2, <1>4, <1>5, <1>6

\* A window of one tick.
LEMMA WindowOfOne ==
  ASSUME NEW f, NEW n, Counts(f, n), NEW t \in Times
  PROVE  InWindow(f, t, t) = f[t]
<1>1. Times \cap t .. t = {t}
  BY TimesFinite
<1>2. Sum(f, {t}) = f[t] + Sum(f, {t} \ {t})
  BY FS_Singleton, SumWithout DEF Counts
<1>3. {t} \ {t} = {} /\ Sum(f, {}) = 0
  BY SumOfNone
<1>4. InWindow(f, t, t) = Sum(f, Times \cap t .. t)
  BY WindowIsSum
<1> QED
  BY <1>1, <1>2, <1>3, <1>4 DEF Counts

\* One call more, at time n.
LEMMA WindowGrows ==
  ASSUME NEW f, NEW g, NEW n \in Times, Counts(f, n), g[n] = f[n] + 1,
         \A t \in Times \ {n} : g[t] = f[t], NEW x \in Int, NEW y \in Int
  PROVE  InWindow(g, x, y) = IF x <= n /\ n <= y THEN InWindow(f, x, y) + 1 ELSE InWindow(f, x, y)
<1> DEFINE W == Times \cap x .. y
<1>1. IsFiniteSet(W) /\ \A t \in W : f[t] \in Nat
  BY WindowIsSum DEF Counts
<1>2. InWindow(f, x, y) = Sum(f, W) /\ InWindow(g, x, y) = Sum(g, W)
  BY WindowIsSum
<1>3. CASE n \in W
  <2>1. x <= n /\ n <= y /\ \A t \in W \ {n} : g[t] = f[t]
    BY <1>3
  <2>2. Sum(g, W) = Sum(f, W) + 1
    <3> HIDE DEF W
    <3> QED
      BY <1>1, <1>3, <2>1, SumGrows
  <2> QED
    BY <1>2, <2>1, <2>2
<1>4. CASE n \notin W
  <2>1. ~(x <= n /\ n <= y) /\ \A t \in W : f[t] \in Nat /\ f[t] = g[t]
    BY <1>1, <1>4, TimesFinite
  <2>2. Sum(g, W) = Sum(f, W)
    <3> HIDE DEF W
    <3> QED
      BY <1>1, <2>1, SumSame
  <2> QED
    BY <1>2, <2>1, <2>2
<1> QED
  BY <1>3, <1>4

\* Counting one more now counts nothing ahead of now.
LEMMA CountsGrow ==
  ASSUME NEW f, NEW g, NEW n \in Times, Counts(f, n), g[n] = f[n] + 1,
         \A t \in Times \ {n} : g[t] = f[t]
  PROVE  Counts(g, n)
  BY TimesFinite DEF Counts

\* What is not ahead of a time is not ahead of the next.
LEMMA CountsLater ==
  ASSUME NEW f, NEW n \in Times, Counts(f, n)
  PROVE  Counts(f, n + 1)
  BY TimesFinite DEF Counts

-----------------------------------------------------------------------------
\* The workers whose call may yet be counted: for a slot, for the total and as
\* allowed, by the breaker.
StandsAt(P) == { w \in Workers : job[w].pc \in P }
ForSlot == StandsAt({"rate"})
ForGrant == StandsAt({"rate", "grant"})
ForBreaker == StandsAt({"rate", "grant", "cache", "repeat"})

\* The types without the bounds of the counters.
TdShape ==
  /\ device \in Device /\ now \in Times /\ made \in 0 .. MaxAsks
  /\ slots \in [Resources -> [Times -> Nat]] /\ granted \in [Resources -> Nat]
  /\ totals \in [Resources -> Nat] /\ admitted \in [Asks -> [Times -> Nat]]
  /\ cached \in [Asks -> [v : Device, until : -1 .. (MaxTime + CacheTTL)]]
  /\ repeat \in [Asks -> [count : Nat, first : Times]]
  /\ job \in [Workers -> Job]

\* Nothing is counted at a time yet to come.
NothingAhead ==
  /\ \A r \in Resources : Counts(slots[r], now)
  /\ \A a \in Asks : Counts(admitted[a], now)

\* Every counter stays below the calls made: a call counts in it once at most.
OncePerCall ==
  /\ IsFiniteSet(ForSlot) /\ IsFiniteSet(ForGrant) /\ IsFiniteSet(ForBreaker)
  /\ \A r \in Resources :
       /\ InWindow(slots[r], 0, MaxTime) + Cardinality(ForSlot) <= made
       /\ totals[r] + Cardinality(ForGrant) <= made
       /\ granted[r] + Cardinality(ForGrant) <= made
  /\ \A a \in Asks :
       /\ InWindow(admitted[a], 0, MaxTime) + Cardinality(ForBreaker) <= made
       /\ repeat[a].count + Cardinality(ForBreaker) <= made

DispatchInv == TdShape /\ NothingAhead /\ OncePerCall

\* One call more, in a table of counts by time and in a table of counts.
LEMMA TableGrows ==
  ASSUME NEW R, NEW F \in [R -> [Times -> Nat]], NEW r \in R, NEW t \in Times
  PROVE  LET G == [F EXCEPT ![r][t] = @ + 1]
         IN /\ G \in [R -> [Times -> Nat]] /\ G[r][t] = F[r][t] + 1
            /\ \A u \in Times \ {t} : G[r][u] = F[r][u]
            /\ \A s \in R \ {r} : G[s] = F[s]
<1> DEFINE row == [F[r] EXCEPT ![t] = F[r][t] + 1]
<1>1. row \in [Times -> Nat] /\ row[t] = F[r][t] + 1 /\ \A u \in Times \ {t} : row[u] = F[r][u]
  OBVIOUS
<1>2. [F EXCEPT ![r][t] = @ + 1] = [F EXCEPT ![r] = row]
  OBVIOUS
<1> HIDE DEF row
<1> QED
  BY <1>1, <1>2

\* Counting one more at one place leaves the others.
LEMMA CountGrows ==
  ASSUME NEW R, NEW F \in [R -> Nat], NEW r \in R
  PROVE  LET G == [F EXCEPT ![r] = @ + 1]
         IN /\ G \in [R -> Nat] /\ G[r] = F[r] + 1 /\ \A s \in R \ {r} : G[s] = F[s]
  OBVIOUS

\* A counter grows by one at most.
LEMMA CountAtMostOne ==
  ASSUME NEW R, NEW F \in [R -> Nat], NEW r \in R, NEW G, G = F \/ G = [F EXCEPT ![r] = @ + 1]
  PROVE  \A s \in R : G[s] <= F[s] + 1 /\ F[s] <= G[s]
  OBVIOUS

\* An idle worker is well typed.
LEMMA NoJobType == device \in Device => NoJob \in Job
  BY DispatchAssumption DEF NoJob, Job

\* No step leaves the types, bounds of the counters apart.
LEMMA ShapeStep == TdShape /\ [TdNext]_tdvars => TdShape'
<1> SUFFICES ASSUME TdShape, [TdNext]_tdvars PROVE TdShape'
  OBVIOUS
<1> USE DEF TdShape
<1>0. NoJob \in Job /\ MaxAsks \in Nat /\ CacheTTL \in Nat /\ \A a \in Asks : Res(a) \in Resources
  BY NoJobType, DispatchAssumption DEF Res, Resources
<1>1. ASSUME NEW w \in Workers, NEW pc \in {"idle", "rate", "grant", "cache", "repeat", "run", "store"},
             Onto(w, pc)
      PROVE  job' \in [Workers -> Job]
  BY <1>1 DEF Onto, Job
<1>2. ASSUME NEW w \in Workers, Answer(w) PROVE job' \in [Workers -> Job]
  BY <1>0, <1>2 DEF Answer
<1>3. ASSUME NEW w \in Workers, Ask(w) PROVE TdShape'
  <2>1. made' \in 0 .. MaxAsks
    BY <1>0, <1>3 DEF Ask
  <2>2. job' \in [Workers -> Job]
    <3>1. PICK a \in Asks, p \in BOOLEAN :
            job' = [job EXCEPT ![w] = [NoJob EXCEPT !.pc = "rate", !.ask = a, !.probe = p]]
      BY <1>3 DEF Ask
    <3>2. [NoJob EXCEPT !.pc = "rate", !.ask = a, !.probe = p] \in Job
      BY <1>0 DEF Job
    <3> QED
      BY <3>1, <3>2
  <2> QED
    BY <1>3, <2>1, <2>2 DEF Ask
<1>4. ASSUME NEW w \in Workers, CheckRate(w) PROVE TdShape'
  <2>1. job' \in [Workers -> Job]
    BY <1>1, <1>2, <1>4 DEF CheckRate
  <2>2. slots' \in [Resources -> [Times -> Nat]]
    <3> DEFINE r == Res(job[w].ask)
    <3>1. r \in Resources
      BY <1>0 DEF Job
    <3>2. slots' = slots \/ slots' = [slots EXCEPT ![r][now] = @ + 1]
      BY <1>4 DEF CheckRate
    <3>3. slots \in [Resources -> [Times -> Nat]] /\ now \in Times
      OBVIOUS
    <3> HIDE DEF r, TdShape
    <3> QED
      BY <3>1, <3>2, <3>3, TableGrows
  <2> QED
    BY <1>4, <2>1, <2>2 DEF CheckRate
<1>5. ASSUME NEW w \in Workers, CheckGrant(w) PROVE TdShape'
  <2> DEFINE r == Res(job[w].ask)
  <2>1. job' \in [Workers -> Job]
    BY <1>1, <1>2, <1>5 DEF CheckGrant
  <2>2. totals' = totals \/ totals' = [totals EXCEPT ![r] = @ + 1]
    BY <1>5 DEF CheckGrant
  <2>3. granted' = granted \/ granted' = [granted EXCEPT ![r] = @ + 1]
    BY <1>5 DEF CheckGrant
  <2>4. totals' \in [Resources -> Nat] /\ granted' \in [Resources -> Nat]
    <3>1. r \in Resources
      BY <1>0 DEF Job
    <3>2. totals \in [Resources -> Nat] /\ granted \in [Resources -> Nat]
      OBVIOUS
    <3> HIDE DEF r, TdShape
    <3> QED
      BY <2>2, <2>3, <3>1, <3>2, CountGrows
  <2> QED
    BY <1>5, <2>1, <2>4 DEF CheckGrant
<1>6. ASSUME NEW w \in Workers, Cached(w) \/ NotCached(w) \/ RunFails(w) PROVE TdShape'
  BY <1>1, <1>2, <1>6 DEF Cached, NotCached, RunFails
<1>7. ASSUME NEW w \in Workers, Repeat(w) PROVE TdShape'
  <2> DEFINE a == job[w].ask
             kept == [b \in Asks |-> IF Expired(repeat[b]) THEN Unseen ELSE repeat[b]]
             count == kept[a].count + 1
             e == [ count |-> count, first |-> IF count = 1 THEN now ELSE kept[a].first ]
             after == [kept EXCEPT ![a] = e]
  <2>1. job' \in [Workers -> Job]
    BY <1>1, <1>2, <1>7 DEF Repeat
  <2>2. a \in Asks
    BY DEF Job
  <2>3. kept \in [Asks -> [count : Nat, first : Times]]
    BY DispatchAssumption DEF Unseen, Times
  <2>4. after \in [Asks -> [count : Nat, first : Times]]
    <3>1. kept[a] \in [count : Nat, first : Times] /\ now \in Times
      BY <2>2, <2>3
    <3>2. e \in [count : Nat, first : Times]
      <4> HIDE DEF kept, a, TdShape
      <4> QED
        BY <3>1
    <3> HIDE DEF kept, a, e, TdShape
    <3> QED
      BY <2>2, <2>3, <3>2
  <2>5. repeat' = after \/ repeat' = repeat
    BY <1>7 DEF Repeat
  <2>6. admitted' = admitted \/ admitted' = [admitted EXCEPT ![a][now] = @ + 1]
    BY <1>7 DEF Repeat
  <2>7. admitted' \in [Asks -> [Times -> Nat]]
    <3>1. admitted \in [Asks -> [Times -> Nat]] /\ now \in Times
      OBVIOUS
    <3> HIDE DEF a, TdShape
    <3> QED
      BY <2>2, <2>6, <3>1, TableGrows
  <2> HIDE DEF after
  <2> QED
    BY <1>7, <2>1, <2>4, <2>5, <2>7 DEF Repeat
<1>8. ASSUME NEW w \in Workers, Run(w) PROVE TdShape'
  <2>1. job[w].ask \in Asks
    BY DEF Job
  <2>2. device' \in Device
    BY <1>8, <2>1, DispatchAssumption DEF Run
  <2>3. job' \in [Workers -> Job]
    <3>1. [job[w] EXCEPT !.pc = "store", !.v = device'] \in Job
      BY <2>2 DEF Job
    <3>2. \/ job' = [job EXCEPT ![w] = [job[w] EXCEPT !.pc = "store", !.v = device']]
          \/ job' = [job EXCEPT ![w] = NoJob]
      BY <1>8 DEF Run
    <3> QED
      BY <1>0, <3>1, <3>2
  <2> QED
    BY <1>8, <2>2, <2>3 DEF Run
<1>9. ASSUME NEW w \in Workers, Store(w) PROVE TdShape'
  <2>1. job[w].ask \in Asks /\ job[w].v \in Device
    BY DEF Job
  <2>2. now + CacheTTL \in -1 .. (MaxTime + CacheTTL)
    BY <1>0, TimesFinite DEF Times
  <2>3. [ v |-> job[w].v, until |-> now + CacheTTL ]
          \in [v : Device, until : -1 .. (MaxTime + CacheTTL)]
    BY <2>1, <2>2
  <2>4. cached' \in [Asks -> [v : Device, until : -1 .. (MaxTime + CacheTTL)]]
    BY <1>9, <2>1, <2>3 DEF Store
  <2> QED
    BY <1>2, <1>9, <2>4 DEF Store
<1>10. CASE Clock
  BY <1>10, TimesFinite DEF Clock, Times
<1>11. CASE UNCHANGED tdvars
  BY <1>11 DEF tdvars
<1> QED
  BY <1>3, <1>4, <1>5, <1>6, <1>7, <1>8, <1>9, <1>10, <1>11 DEF TdNext, DispatchNext

\* How a step of worker w changes a set of workers: by w alone.
LEMMA StandsMoves ==
  ASSUME NEW P, NEW w \in Workers, IsFiniteSet(StandsAt(P)),
         \A u \in Workers \ {w} : job'[u] = job[u]
  PROVE  /\ IsFiniteSet(StandsAt(P)') /\ Cardinality(StandsAt(P)) \in Nat /\ Cardinality(StandsAt(P)') \in Nat
         /\ (job[w].pc \in P <=> job'[w].pc \in P) => Cardinality(StandsAt(P)') = Cardinality(StandsAt(P))
         /\ job[w].pc \in P /\ job'[w].pc \notin P => Cardinality(StandsAt(P)') = Cardinality(StandsAt(P)) - 1
         /\ job[w].pc \notin P /\ job'[w].pc \in P => Cardinality(StandsAt(P)') = Cardinality(StandsAt(P)) + 1
<1> DEFINE S == StandsAt(P)
           T == StandsAt(P)'
<1>1. T \ {w} = S \ {w} /\ (w \in S <=> job[w].pc \in P) /\ (w \in T <=> job'[w].pc \in P)
  BY DEF StandsAt
<1> HIDE DEF S, T
<1>2. IsFiniteSet(S)
  BY DEF S
<1>3. /\ IsFiniteSet(T) /\ Cardinality(S) \in Nat /\ Cardinality(T) \in Nat
      /\ (w \in S <=> w \in T) => Cardinality(T) = Cardinality(S)
      /\ w \in S /\ w \notin T => Cardinality(T) = Cardinality(S) - 1
      /\ w \notin S /\ w \in T => Cardinality(T) = Cardinality(S) + 1
  BY <1>1, <1>2, OneMoves
<1> QED
  BY <1>1, <1>3 DEF S, T

\* The three sets of workers, when worker w goes from one place to another.
LEMMA Stages ==
  ASSUME OncePerCall, NEW w \in Workers, \A u \in Workers \ {w} : job'[u] = job[u]
  PROVE  /\ IsFiniteSet(ForSlot') /\ IsFiniteSet(ForGrant') /\ IsFiniteSet(ForBreaker')
         /\ Cardinality(ForSlot) \in Nat /\ Cardinality(ForSlot') \in Nat
         /\ Cardinality(ForGrant) \in Nat /\ Cardinality(ForGrant') \in Nat
         /\ Cardinality(ForBreaker) \in Nat /\ Cardinality(ForBreaker') \in Nat
         /\ job[w].pc = "idle" /\ job'[w].pc = "rate"
              => /\ Cardinality(ForSlot') = Cardinality(ForSlot) + 1
                 /\ Cardinality(ForGrant') = Cardinality(ForGrant) + 1
                 /\ Cardinality(ForBreaker') = Cardinality(ForBreaker) + 1
         /\ job[w].pc = "rate" /\ job'[w].pc \in {"grant", "idle"}
              => /\ Cardinality(ForSlot') = Cardinality(ForSlot) - 1
                 /\ Cardinality(ForGrant') <= Cardinality(ForGrant)
                 /\ Cardinality(ForBreaker') <= Cardinality(ForBreaker)
         /\ job[w].pc = "grant" /\ job'[w].pc \in {"cache", "idle"}
              => /\ Cardinality(ForSlot') = Cardinality(ForSlot)
                 /\ Cardinality(ForGrant') = Cardinality(ForGrant) - 1
                 /\ Cardinality(ForBreaker') <= Cardinality(ForBreaker)
         /\ job[w].pc \in {"cache", "run", "store"} /\ job'[w].pc \in {"repeat", "store", "idle"}
            /\ (job'[w].pc = "repeat" => job[w].pc = "cache")
              => /\ Cardinality(ForSlot') = Cardinality(ForSlot)
                 /\ Cardinality(ForGrant') = Cardinality(ForGrant)
                 /\ Cardinality(ForBreaker') <= Cardinality(ForBreaker)
         /\ job[w].pc = "repeat" /\ job'[w].pc \in {"run", "idle"}
              => /\ Cardinality(ForSlot') = Cardinality(ForSlot)
                 /\ Cardinality(ForGrant') = Cardinality(ForGrant)
                 /\ Cardinality(ForBreaker') = Cardinality(ForBreaker) - 1
<1> DEFINE MovedBy(P) ==
      /\ IsFiniteSet(StandsAt(P)') /\ Cardinality(StandsAt(P)) \in Nat /\ Cardinality(StandsAt(P)') \in Nat
      /\ (job[w].pc \in P <=> job'[w].pc \in P) => Cardinality(StandsAt(P)') = Cardinality(StandsAt(P))
      /\ job[w].pc \in P /\ job'[w].pc \notin P => Cardinality(StandsAt(P)') = Cardinality(StandsAt(P)) - 1
      /\ job[w].pc \notin P /\ job'[w].pc \in P => Cardinality(StandsAt(P)') = Cardinality(StandsAt(P)) + 1
<1>1. ASSUME NEW P, IsFiniteSet(StandsAt(P)) PROVE MovedBy(P)
  BY <1>1, StandsMoves
<1>2. MovedBy({"rate"}) /\ MovedBy({"rate", "grant"}) /\ MovedBy({"rate", "grant", "cache", "repeat"})
  BY <1>1 DEF OncePerCall, ForSlot, ForGrant, ForBreaker
<1> QED
  BY <1>2 DEF ForSlot, ForGrant, ForBreaker

\* One count grows by one at most, and with it the sum.
LEMMA TableSum ==
  ASSUME NEW R, NEW F \in [R -> [Times -> Nat]], NEW n \in Times, \A r \in R : Counts(F[r], n),
         NEW G, NEW r \in R, G = F \/ G = [F EXCEPT ![r][n] = @ + 1]
  PROVE  \A s \in R : /\ Counts(G[s], n)
                      /\ InWindow(F[s], 0, MaxTime) \in Nat /\ InWindow(G[s], 0, MaxTime) \in Nat
                      /\ InWindow(G[s], 0, MaxTime) <= InWindow(F[s], 0, MaxTime) + 1
<1> SUFFICES ASSUME NEW s \in R
             PROVE  /\ Counts(G[s], n)
                    /\ InWindow(F[s], 0, MaxTime) \in Nat /\ InWindow(G[s], 0, MaxTime) \in Nat
                    /\ InWindow(G[s], 0, MaxTime) <= InWindow(F[s], 0, MaxTime) + 1
  OBVIOUS
<1>1. InWindow(F[s], 0, MaxTime) \in Nat
  BY WindowType
<1>2. CASE G[s] = F[s]
  BY <1>1, <1>2
<1>3. CASE G[s] # F[s]
  <2>1. s = r /\ G[r][n] = F[r][n] + 1 /\ \A u \in Times \ {n} : G[r][u] = F[r][u]
    BY <1>3, TableGrows
  <2>2. Counts(G[r], n)
    BY <2>1, CountsGrow
  <2>3. /\ 0 \in Int /\ MaxTime \in Int /\ 0 <= n /\ n <= MaxTime
    BY TimesFinite DEF Times
  <2>4. InWindow(G[r], 0, MaxTime) = InWindow(F[r], 0, MaxTime) + 1
    BY <2>1, <2>3, WindowGrows
  <2> QED
    BY <1>1, <2>1, <2>2, <2>4
<1> QED
  BY <1>2, <1>3

\* Where an action takes the worker that does it; the others stay.
LEMMA Goes ==
  ASSUME TdShape, NEW w \in Workers
  PROVE  /\ \A pc : Onto(w, pc) => job'[w] = [job[w] EXCEPT !.pc = pc] /\ job'[w].pc = pc
         /\ Answer(w) => job'[w] = NoJob /\ job'[w].pc = "idle"
         /\ DispatchNext(w) => \A u \in Workers \ {w} : job'[u] = job[u]
         /\ job[w].ask \in Asks /\ Res(job[w].ask) \in Resources
<1>1. \A pc : Onto(w, pc) => job'[w] = [job[w] EXCEPT !.pc = pc] /\ job'[w].pc = pc
  BY DEF TdShape, Job, Onto
<1>2. Answer(w) => job'[w] = NoJob /\ job'[w].pc = "idle"
  BY DEF TdShape, Answer, NoJob
<1>3. ASSUME DispatchNext(w), NEW u \in Workers \ {w} PROVE job'[u] = job[u]
  <2>1. (\E pc : Onto(w, pc)) \/ Answer(w) => job'[u] = job[u]
    BY DEF TdShape, Onto, Answer
  <2>2. CASE Ask(w)
    BY <2>2 DEF Ask, TdShape
  <2>3. CASE Run(w)
    BY <2>3 DEF Run, TdShape
  <2>4. CASE CheckRate(w) \/ Cached(w) \/ NotCached(w) \/ RunFails(w) \/ Store(w)
    BY <2>1, <2>4 DEF CheckRate, Cached, NotCached, RunFails, Store
  <2>5. CASE CheckGrant(w)
    BY <2>1, <2>5 DEF CheckGrant
  <2>6. CASE Repeat(w)
    BY <2>1, <2>6 DEF Repeat
  <2> QED
    BY <1>3, <2>2, <2>3, <2>4, <2>5, <2>6 DEF DispatchNext
<1>4. job[w].ask \in Asks /\ Res(job[w].ask) \in Resources
  BY DEF TdShape, Job, Res, Resources
<1> QED
  BY <1>1, <1>2, <1>3, <1>4

\* The first critical section: a real call that goes on has taken a slot.
LEMMA CheckRateDoes ==
  ASSUME TdShape, NEW w \in Workers, CheckRate(w)
  PROVE  /\ job[w].pc = "rate" /\ job'[w].pc \in {"grant", "idle"}
         /\ UNCHANGED <<now, made, totals, repeat, granted, admitted>>
         /\ \/ slots' = slots
            \/ /\ slots' = [slots EXCEPT ![Res(job[w].ask)][now] = @ + 1]
               /\ ~job[w].probe /\ ~WindowFull(Res(job[w].ask))
         /\ job'[w].pc = "grant" => job'[w].ask = job[w].ask /\ job'[w].probe = job[w].probe
         /\ job'[w].pc = "grant" /\ ~job[w].probe
              => slots' = [slots EXCEPT ![Res(job[w].ask)][now] = @ + 1]
<1>1. job[w] \in Job
  BY DEF TdShape
<1> QED
  BY <1>1, Goes DEF CheckRate, Doing, Job, NoJob

\* The second: a call that is allowed is counted in the total, if there is one.
LEMMA CheckGrantDoes ==
  ASSUME TdShape, NEW w \in Workers, CheckGrant(w)
  PROVE  /\ job[w].pc = "grant" /\ job'[w].pc \in {"cache", "idle"}
         /\ UNCHANGED <<now, made, slots, repeat, admitted>>
         /\ \/ totals' = totals
            \/ totals' = [totals EXCEPT ![Res(job[w].ask)] = @ + 1]
         /\ \/ granted' = granted
            \/ granted' = [granted EXCEPT ![Res(job[w].ask)] = @ + 1]
         /\ granted' # granted =>
              /\ ~job[w].probe
              /\ TotalMax > 0 => totals' = [totals EXCEPT ![Res(job[w].ask)] = @ + 1]
         /\ totals' # totals => totals[Res(job[w].ask)] < TotalMax
<1>1. job[w] \in Job /\ TotalMax \in Nat /\ totals[Res(job[w].ask)] \in Nat
  BY DispatchAssumption, Goes DEF TdShape
<1>2. (\E pc \in {"cache"} : Onto(w, pc)) \/ Answer(w)
  BY DEF CheckGrant
<1>3. job'[w].pc \in {"cache", "idle"}
  BY <1>2, Goes
<1> QED
  BY <1>1, <1>3 DEF CheckGrant, Doing

\* The breaker: what is let through is counted as let through now.
LEMMA RepeatDoes ==
  ASSUME TdShape, NEW w \in Workers, Repeat(w)
  PROVE  /\ job[w].pc = "repeat" /\ job'[w].pc \in {"run", "idle"}
         /\ UNCHANGED <<now, made, slots, totals, granted>>
         /\ \/ admitted' = admitted
            \/ admitted' = [admitted EXCEPT ![job[w].ask][now] = @ + 1]
         /\ \A a \in Asks : repeat'[a].count <= repeat[a].count + 1
<1> DEFINE a == job[w].ask
           kept == [b \in Asks |-> IF Expired(repeat[b]) THEN Unseen ELSE repeat[b]]
           e == [ count |-> kept[a].count + 1,
                  first |-> IF kept[a].count + 1 = 1 THEN now ELSE kept[a].first ]
<1>1. a \in Asks
  BY Goes
<1>2. \A b \in Asks : kept[b].count \in Nat /\ repeat[b].count \in Nat
                      /\ kept[b].count <= repeat[b].count
  BY DEF TdShape, Unseen
<1>3. repeat' = repeat \/ repeat' = [kept EXCEPT ![a] = e]
  BY DEF Repeat
<1>4. \A b \in Asks : repeat'[b].count <= repeat[b].count + 1
  <2>1. DOMAIN kept = Asks
    OBVIOUS
  <2>2. e.count = kept[a].count + 1
    OBVIOUS
  <2> HIDE DEF kept, a, e
  <2> QED
    BY <1>1, <1>2, <1>3, <2>1, <2>2
<1>5. job'[w].pc \in {"run", "idle"}
  <2>1. (\E pc \in {"run"} : Onto(w, pc)) \/ Answer(w)
    BY DEF Repeat
  <2> QED
    BY <2>1, Goes
<1>6. admitted' = admitted \/ admitted' = [admitted EXCEPT ![job[w].ask][now] = @ + 1]
  BY DEF Repeat
<1> QED
  BY <1>4, <1>5, <1>6 DEF Repeat, Doing

\* What comes after the counters leaves them alone.
LEMMA RestDoes ==
  ASSUME TdShape, NEW w \in Workers,
         Cached(w) \/ NotCached(w) \/ Run(w) \/ RunFails(w) \/ Store(w)
  PROVE  /\ job[w].pc \in {"cache", "run", "store"} /\ job'[w].pc \in {"repeat", "store", "idle"}
         /\ job'[w].pc = "repeat" => job[w].pc = "cache"
         /\ UNCHANGED <<now, made, slots, totals, repeat, granted, admitted>>
<1>1. CASE Run(w)
  <2>1. job'[w].pc \in {"store", "idle"}
    BY <1>1 DEF Run, TdShape, NoJob, Job
  <2> QED
    BY <1>1, <2>1 DEF Run, Doing
<1>2. CASE NotCached(w)
  BY <1>2, Goes DEF NotCached, Doing
<1>3. CASE Cached(w) \/ RunFails(w) \/ Store(w)
  BY <1>3, Goes DEF Cached, RunFails, Store, Doing
<1> QED
  BY <1>1, <1>2, <1>3

\* A call begins before all counters.
LEMMA AskDoes ==
  ASSUME TdShape, NEW w \in Workers, Ask(w)
  PROVE  /\ job[w].pc = "idle" /\ job'[w].pc = "rate" /\ made' = made + 1
         /\ UNCHANGED <<now, slots, totals, repeat, granted, admitted>>
<1>1. PICK a \in Asks, p \in BOOLEAN :
        job' = [job EXCEPT ![w] = [NoJob EXCEPT !.pc = "rate", !.ask = a, !.probe = p]]
  BY DEF Ask
<1>2. job'[w].pc = "rate"
  BY <1>1 DEF TdShape, NoJob
<1> QED
  BY <1>2 DEF Ask, Doing

\* Every step of the dispatcher and its clock keeps DispatchInv.
LEMMA DispatchInvStep == DispatchInv /\ [TdNext]_tdvars => DispatchInv'
<1> SUFFICES ASSUME DispatchInv, [TdNext]_tdvars PROVE NothingAhead' /\ OncePerCall'
  BY ShapeStep DEF DispatchInv
<1>0. TdShape /\ TdShape' /\ NothingAhead /\ OncePerCall
  BY ShapeStep DEF DispatchInv
<1> DEFINE kept == UNCHANGED <<slots, totals, repeat, granted, admitted>>
           ins(r) == InWindow(slots[r], 0, MaxTime)
           ina(a) == InWindow(admitted[a], 0, MaxTime)
<1>1. /\ made \in Nat /\ \A r \in Resources : totals[r] \in Nat /\ granted[r] \in Nat
      /\ \A r \in Resources : InWindow(slots[r], 0, MaxTime) \in Nat
      /\ \A a \in Asks : InWindow(admitted[a], 0, MaxTime) \in Nat /\ repeat[a].count \in Nat
  BY <1>0, WindowType DEF TdShape, NothingAhead
<1>2. /\ \A r \in Resources : totals'[r] \in Nat /\ granted'[r] \in Nat
      /\ \A a \in Asks : repeat'[a].count \in Nat
  BY <1>0 DEF TdShape
<1>3. /\ slots \in [Resources -> [Times -> Nat]] /\ admitted \in [Asks -> [Times -> Nat]]
      /\ totals \in [Resources -> Nat] /\ granted \in [Resources -> Nat] /\ now \in Times
  BY <1>0 DEF TdShape
<1>4. CASE UNCHANGED tdvars
  <2>1. ForSlot' = ForSlot /\ ForGrant' = ForGrant /\ ForBreaker' = ForBreaker
    BY <1>4 DEF tdvars, ForSlot, ForGrant, ForBreaker, StandsAt
  <2> QED
    BY <1>0, <1>4, <2>1 DEF tdvars, NothingAhead, OncePerCall
<1>5. CASE Clock
  <2>1. ForSlot' = ForSlot /\ ForGrant' = ForGrant /\ ForBreaker' = ForBreaker
    BY <1>5 DEF Clock, ForSlot, ForGrant, ForBreaker, StandsAt
  <2>2. NothingAhead'
    BY <1>0, <1>3, <1>5, CountsLater DEF Clock, NothingAhead
  <2> QED
    BY <1>0, <1>5, <2>1, <2>2 DEF Clock, OncePerCall
<1>6. ASSUME NEW w \in Workers, DispatchNext(w) PROVE NothingAhead' /\ OncePerCall'
  <2>0. \A u \in Workers \ {w} : job'[u] = job[u]
    BY <1>0, <1>6, Goes
  <2>1. CASE Ask(w)
    BY <1>0, <1>1, <2>0, <2>1, AskDoes, Stages DEF NothingAhead, OncePerCall
  <2>2. CASE CheckRate(w)
    <3>1. \A r \in Resources :
            /\ Counts(slots'[r], now) /\ InWindow(slots'[r], 0, MaxTime) \in Nat
            /\ InWindow(slots'[r], 0, MaxTime) <= InWindow(slots[r], 0, MaxTime) + 1
      <4> DEFINE asked == Res(job[w].ask)
      <4>1. asked \in Resources
        BY <1>0, Goes
      <4>2. slots' = slots \/ slots' = [slots EXCEPT ![asked][now] = @ + 1]
        BY <1>0, <2>2, CheckRateDoes
      <4>3. \A r \in Resources : Counts(slots[r], now)
        BY <1>0 DEF NothingAhead
      <4>4. slots \in [Resources -> [Times -> Nat]] /\ now \in Times
        BY <1>3
      <4> HIDE DEF asked
      <4> QED
        BY <4>1, <4>2, <4>3, <4>4, TableSum
    <3>2. NothingAhead'
      BY <1>0, <2>2, <3>1, CheckRateDoes DEF NothingAhead
    <3>3. OncePerCall'
      <4>1. /\ IsFiniteSet(ForSlot') /\ IsFiniteSet(ForGrant') /\ IsFiniteSet(ForBreaker')
            /\ Cardinality(ForSlot) \in Nat /\ Cardinality(ForSlot') \in Nat
            /\ Cardinality(ForGrant) \in Nat /\ Cardinality(ForGrant') \in Nat
            /\ Cardinality(ForBreaker) \in Nat /\ Cardinality(ForBreaker') \in Nat
            /\ Cardinality(ForSlot') = Cardinality(ForSlot) - 1
            /\ Cardinality(ForGrant') <= Cardinality(ForGrant)
            /\ Cardinality(ForBreaker') <= Cardinality(ForBreaker)
        BY <1>0, <2>0, <2>2, CheckRateDoes, Stages
      <4>2. UNCHANGED <<made, totals, repeat, granted, admitted>>
        BY <1>0, <2>2, CheckRateDoes
      <4>3. \A r \in Resources : InWindow(slots'[r], 0, MaxTime) + Cardinality(ForSlot') <= made
        BY <1>0, <1>1, <3>1, <4>1 DEF OncePerCall
      <4> QED
        BY <1>0, <1>1, <4>1, <4>2, <4>3 DEF OncePerCall
    <3> QED
      BY <3>2, <3>3
  <2>3. CASE CheckGrant(w)
    <3>1. \A r \in Resources : totals'[r] <= totals[r] + 1 /\ granted'[r] <= granted[r] + 1
      <4> DEFINE asked == Res(job[w].ask)
      <4>1. asked \in Resources
        BY <1>0, Goes
      <4>2. /\ totals' = totals \/ totals' = [totals EXCEPT ![asked] = @ + 1]
            /\ granted' = granted \/ granted' = [granted EXCEPT ![asked] = @ + 1]
        BY <1>0, <2>3, CheckGrantDoes
      <4>3. totals \in [Resources -> Nat] /\ granted \in [Resources -> Nat]
        BY <1>3
      <4> HIDE DEF asked
      <4> QED
        BY <4>1, <4>2, <4>3, CountAtMostOne
    <3>2. NothingAhead'
      BY <1>0, <2>3, CheckGrantDoes DEF NothingAhead
    <3>3. OncePerCall'
      <4>1. /\ IsFiniteSet(ForSlot') /\ IsFiniteSet(ForGrant') /\ IsFiniteSet(ForBreaker')
            /\ Cardinality(ForGrant) \in Nat /\ Cardinality(ForGrant') \in Nat
            /\ Cardinality(ForBreaker) \in Nat /\ Cardinality(ForBreaker') \in Nat
            /\ Cardinality(ForSlot') = Cardinality(ForSlot)
            /\ Cardinality(ForGrant') = Cardinality(ForGrant) - 1
            /\ Cardinality(ForBreaker') <= Cardinality(ForBreaker)
        BY <1>0, <2>0, <2>3, CheckGrantDoes, Stages
      <4>2. UNCHANGED <<made, slots, repeat, admitted>>
        BY <1>0, <2>3, CheckGrantDoes
      <4>3. \A r \in Resources : /\ totals'[r] + Cardinality(ForGrant') <= made
                                 /\ granted'[r] + Cardinality(ForGrant') <= made
        BY <1>0, <1>1, <1>2, <3>1, <4>1 DEF OncePerCall
      <4>4. \A a \in Asks :
              /\ InWindow(admitted[a], 0, MaxTime) + Cardinality(ForBreaker') <= made
              /\ repeat[a].count + Cardinality(ForBreaker') <= made
        BY <1>0, <1>1, <4>1 DEF OncePerCall
      <4> QED
        BY <1>0, <4>1, <4>2, <4>3, <4>4 DEF OncePerCall
    <3> QED
      BY <3>2, <3>3
  <2>4. CASE Repeat(w)
    <3>1. \A a \in Asks :
            /\ Counts(admitted'[a], now) /\ InWindow(admitted'[a], 0, MaxTime) \in Nat
            /\ InWindow(admitted'[a], 0, MaxTime) <= InWindow(admitted[a], 0, MaxTime) + 1
      <4> DEFINE asked == job[w].ask
      <4>1. asked \in Asks
        BY <1>0, Goes
      <4>2. admitted' = admitted \/ admitted' = [admitted EXCEPT ![asked][now] = @ + 1]
        BY <1>0, <2>4, RepeatDoes
      <4>3. \A a \in Asks : Counts(admitted[a], now)
        BY <1>0 DEF NothingAhead
      <4>4. admitted \in [Asks -> [Times -> Nat]] /\ now \in Times
        BY <1>3
      <4> HIDE DEF asked
      <4> QED
        BY <4>1, <4>2, <4>3, <4>4, TableSum
    <3>2. NothingAhead'
      BY <1>0, <2>4, <3>1, RepeatDoes DEF NothingAhead
    <3>3. OncePerCall'
      <4>1. /\ IsFiniteSet(ForSlot') /\ IsFiniteSet(ForGrant') /\ IsFiniteSet(ForBreaker')
            /\ Cardinality(ForBreaker) \in Nat /\ Cardinality(ForBreaker') \in Nat
            /\ Cardinality(ForSlot') = Cardinality(ForSlot)
            /\ Cardinality(ForGrant') = Cardinality(ForGrant)
            /\ Cardinality(ForBreaker') = Cardinality(ForBreaker) - 1
        BY <1>0, <2>0, <2>4, RepeatDoes, Stages
      <4>2. UNCHANGED <<made, slots, totals, granted>>
        BY <1>0, <2>4, RepeatDoes
      <4>3. \A a \in Asks : repeat'[a].count <= repeat[a].count + 1
        BY <1>0, <2>4, RepeatDoes
      <4>4. \A a \in Asks :
              /\ InWindow(admitted'[a], 0, MaxTime) + Cardinality(ForBreaker') <= made
              /\ repeat'[a].count + Cardinality(ForBreaker') <= made
        BY <1>0, <1>1, <1>2, <3>1, <4>1, <4>3 DEF OncePerCall
      <4> QED
        BY <1>0, <4>1, <4>2, <4>4 DEF OncePerCall
    <3> QED
      BY <3>2, <3>3
  <2>5. CASE Cached(w) \/ NotCached(w) \/ Run(w) \/ RunFails(w) \/ Store(w)
    <3>1. OncePerCall'
      <4>1. /\ IsFiniteSet(ForSlot') /\ IsFiniteSet(ForGrant') /\ IsFiniteSet(ForBreaker')
            /\ Cardinality(ForBreaker) \in Nat /\ Cardinality(ForBreaker') \in Nat
            /\ Cardinality(ForSlot') = Cardinality(ForSlot)
            /\ Cardinality(ForGrant') = Cardinality(ForGrant)
            /\ Cardinality(ForBreaker') <= Cardinality(ForBreaker)
        BY <1>0, <2>0, <2>5, RestDoes, Stages
      <4>2. UNCHANGED <<made, slots, totals, repeat, granted, admitted>>
        BY <1>0, <2>5, RestDoes
      <4>3. \A a \in Asks :
              /\ InWindow(admitted[a], 0, MaxTime) + Cardinality(ForBreaker') <= made
              /\ repeat[a].count + Cardinality(ForBreaker') <= made
        BY <1>0, <1>1, <4>1 DEF OncePerCall
      <4> QED
        BY <1>0, <4>1, <4>2, <4>3 DEF OncePerCall
    <3>2. NothingAhead'
      BY <1>0, <2>5, RestDoes DEF NothingAhead
    <3> QED
      BY <3>1, <3>2
  <2> QED
    BY <1>6, <2>1, <2>2, <2>3, <2>4, <2>5 DEF DispatchNext
<1> QED
  BY <1>4, <1>5, <1>6 DEF TdNext

\* Where nothing was counted every window is empty.
LEMMA NothingCounted ==
  ASSUME NEW f, \A t \in Times : f[t] = 0
  PROVE  /\ \A n \in Times : Counts(f, n)
         /\ \A x, y : InWindow(f, x, y) = 0
<1>1. ASSUME NEW x, NEW y PROVE InWindow(f, x, y) = 0
  <2>1. IsFiniteSet(Times \cap x .. y) /\ \A t \in Times \cap x .. y : f[t] = 0
    BY WindowIsSum
  <2>2. Sum(f, Times \cap x .. y) = 0
    BY <2>1, SumOfZeros
  <2> QED
    BY <2>2, WindowIsSum
<1> QED
  BY <1>1 DEF Counts

\* At the start nothing was asked and nothing counted.
LEMMA TdStart ==
  ASSUME TdInit
  PROVE  /\ now \in Times /\ made = 0
         /\ \A r \in Resources : \A t \in Times : slots[r][t] = 0
         /\ \A a \in Asks : \A t \in Times : admitted[a][t] = 0
         /\ \A r \in Resources : totals[r] = 0 /\ granted[r] = 0
         /\ \A a \in Asks : repeat[a].count = 0
         /\ \A w \in Workers : job[w].pc = "idle"
  BY DispatchAssumption DEF TdInit, Times, Unseen, NoJob

\* Hence DispatchInv at the start.
LEMMA DispatchInvInit == TdInit => DispatchInv
<1> SUFFICES ASSUME TdInit PROVE TdShape /\ NothingAhead /\ OncePerCall
  BY DEF DispatchInv
<1>1. TdShape
  <2>1. None \in [v : Device, until : -1 .. (MaxTime + CacheTTL)]
    BY DispatchAssumption DEF TdInit, None
  <2>2. Unseen \in [count : Nat, first : Times]
    BY DispatchAssumption DEF Unseen, Times
  <2>3. NoJob \in Job
    BY NoJobType DEF TdInit
  <2>4. now \in Times /\ made \in 0 .. MaxAsks
    BY DispatchAssumption DEF TdInit, Times
  <2> QED
    BY <2>1, <2>2, <2>3, <2>4 DEF TdInit, TdShape
<1>2. NothingAhead
  BY TdStart, NothingCounted DEF NothingAhead
<1>3. OncePerCall
  <2>1. ForSlot = {} /\ ForGrant = {} /\ ForBreaker = {}
    BY TdStart DEF ForSlot, ForGrant, ForBreaker, StandsAt
  <2>2. IsFiniteSet({}) /\ Cardinality({}) = 0
    BY FS_EmptySet
  <2>3. /\ \A r \in Resources : InWindow(slots[r], 0, MaxTime) = 0
        /\ \A a \in Asks : InWindow(admitted[a], 0, MaxTime) = 0
    BY TdStart, NothingCounted
  <2> QED
    BY <2>1, <2>2, <2>3, TdStart DEF OncePerCall
<1> QED
  BY <1>1, <1>2, <1>3

\* With the calls made the counters are bounded, too.
LEMMA DispatchTypes == DispatchInv => TdTypeOK
<1> SUFFICES ASSUME DispatchInv PROVE TdTypeOK
  OBVIOUS
<1>0. TdShape /\ NothingAhead /\ OncePerCall /\ MaxAsks \in Nat
  BY DispatchAssumption DEF DispatchInv
<1>1. made \in 0 .. MaxAsks /\ made \in Nat
  BY <1>0 DEF TdShape
<1>2. /\ Cardinality(ForSlot) \in Nat /\ Cardinality(ForGrant) \in Nat
      /\ Cardinality(ForBreaker) \in Nat
  BY <1>0, FS_CardinalityType DEF OncePerCall
<1>3. ASSUME NEW f, Counts(f, now), InWindow(f, 0, MaxTime) <= made, NEW t \in Times
      PROVE  f[t] \in 0 .. MaxAsks
  <2>1. t \in Int /\ 0 <= t /\ t <= MaxTime /\ MaxTime \in Int /\ now \in Int
    BY <1>0, TimesFinite DEF Times, TdShape
  <2>2. InWindow(f, t, t) = f[t] /\ f[t] \in Nat
    BY <1>3, WindowOfOne DEF Counts
  <2>3. InWindow(f, t, t) <= InWindow(f, 0, MaxTime) /\ InWindow(f, 0, MaxTime) \in Nat
    BY <1>3, <2>1, WindowPart, WindowType
  <2> QED
    BY <1>0, <1>1, <1>3, <2>2, <2>3
<1>4. slots \in [Resources -> Tally]
  <2>1. ASSUME NEW r \in Resources PROVE slots[r] \in Tally
    <3>1. Counts(slots[r], now) /\ InWindow(slots[r], 0, MaxTime) \in Nat
      BY <1>0, WindowType DEF NothingAhead
    <3>2. InWindow(slots[r], 0, MaxTime) <= made
      BY <1>0, <1>1, <1>2, <3>1 DEF OncePerCall
    <3>3. slots[r] \in [Times -> Nat] /\ \A t \in Times : slots[r][t] \in 0 .. MaxAsks
      BY <1>0, <1>3, <3>1, <3>2 DEF TdShape
    <3> QED
      BY <3>3 DEF Tally
  <2> QED
    BY <1>0, <2>1 DEF TdShape
<1>5. admitted \in [Asks -> Tally]
  <2>1. ASSUME NEW a \in Asks PROVE admitted[a] \in Tally
    <3>1. Counts(admitted[a], now) /\ InWindow(admitted[a], 0, MaxTime) \in Nat
      BY <1>0, WindowType DEF NothingAhead
    <3>2. InWindow(admitted[a], 0, MaxTime) <= made
      BY <1>0, <1>1, <1>2, <3>1 DEF OncePerCall
    <3>3. admitted[a] \in [Times -> Nat] /\ \A t \in Times : admitted[a][t] \in 0 .. MaxAsks
      BY <1>0, <1>3, <3>1, <3>2 DEF TdShape
    <3> QED
      BY <3>3 DEF Tally
  <2> QED
    BY <1>0, <2>1 DEF TdShape
<1>6. granted \in [Resources -> 0 .. MaxAsks] /\ totals \in [Resources -> 0 .. MaxAsks]
  <2>1. ASSUME NEW r \in Resources PROVE granted[r] \in 0 .. MaxAsks /\ totals[r] \in 0 .. MaxAsks
    <3>1. granted[r] \in Nat /\ totals[r] \in Nat
      BY <1>0 DEF TdShape
    <3>2. granted[r] <= made /\ totals[r] <= made
      BY <1>0, <1>1, <1>2, <3>1 DEF OncePerCall
    <3> QED
      BY <1>0, <1>1, <3>1, <3>2
  <2> QED
    BY <1>0, <2>1 DEF TdShape
<1>7. repeat \in [Asks -> [count : 0 .. MaxAsks, first : Times]]
  <2>1. ASSUME NEW a \in Asks PROVE repeat[a] \in [count : 0 .. MaxAsks, first : Times]
    <3>1. repeat[a] \in [count : Nat, first : Times]
      BY <1>0 DEF TdShape
    <3>2. repeat[a].count <= made
      BY <1>0, <1>1, <1>2, <3>1 DEF OncePerCall
    <3>3. repeat[a].count \in 0 .. MaxAsks
      BY <1>0, <1>1, <3>1, <3>2
    <3> QED
      BY <3>1, <3>3
  <2> QED
    BY <1>0, <2>1 DEF TdShape
<1> QED
  BY <1>0, <1>4, <1>5, <1>6, <1>7 DEF TdShape, TdTypeOK

\* The dispatcher's state is well typed: no counter, of whatever kind, ever
\* exceeds the calls made.
THEOREM TdTypeCorrect == TdSpec => []TdTypeOK
  BY DispatchInvInit, DispatchInvStep, DispatchTypes, PTL DEF TdSpec

-----------------------------------------------------------------------------
\* Real calls that have a slot and are not yet allowed or denied by the grant.
HasSlot(r) == { w \in Workers : job[w].pc = "grant" /\ ~job[w].probe /\ Res(job[w].ask) = r }

\* Every allowed call took a slot: so did those on the way to the grant.
Slotted ==
  \A r \in Resources :
    /\ IsFiniteSet(HasSlot(r))
    /\ granted[r] + Cardinality(HasSlot(r)) <= InWindow(slots[r], 0, MaxTime)

WindowsKept ==
  \A r \in Resources : \A t \in Times : InWindow(slots[r], t, t + RateWindow - 1) <= RateMax

TotalKept ==
  TotalMax > 0 => \A r \in Resources : granted[r] <= totals[r] /\ totals[r] <= TotalMax

BudgetInv == WindowsKept /\ TotalKept /\ Slotted

\* A step of one worker changes those that hold a slot by that worker at most.
LEMMA HasSlotMoves ==
  ASSUME TdShape, NEW w \in Workers, DispatchNext(w), NEW r \in Resources, IsFiniteSet(HasSlot(r))
  PROVE  LET S == HasSlot(r)
             T == HasSlot(r)'
         IN /\ IsFiniteSet(T) /\ Cardinality(S) \in Nat /\ Cardinality(T) \in Nat
            /\ (w \in S <=> w \in T) => Cardinality(T) = Cardinality(S)
            /\ w \in S /\ w \notin T => Cardinality(T) = Cardinality(S) - 1
            /\ w \notin S /\ w \in T => Cardinality(T) = Cardinality(S) + 1
<1> DEFINE S == HasSlot(r)
           T == HasSlot(r)'
<1>1. T \ {w} = S \ {w}
  <2>1. \A u \in Workers \ {w} : job'[u] = job[u]
    BY Goes
  <2> QED
    BY <2>1 DEF HasSlot, Res
<1>2. IsFiniteSet(S)
  OBVIOUS
<1> HIDE DEF S, T
<1>3. /\ IsFiniteSet(T) /\ Cardinality(S) \in Nat /\ Cardinality(T) \in Nat
      /\ (w \in S <=> w \in T) => Cardinality(T) = Cardinality(S)
      /\ w \in S /\ w \notin T => Cardinality(T) = Cardinality(S) - 1
      /\ w \notin S /\ w \in T => Cardinality(T) = Cardinality(S) + 1
  BY <1>1, <1>2, OneMoves
<1> QED
  BY <1>3 DEF S, T

\* The slot a call takes keeps every window within the limit, though the guard
\* looks only at the window that ends now.
LEMMA SlotKeepsWindows ==
  ASSUME TdShape, NothingAhead, WindowsKept, NEW r \in Resources, ~WindowFull(r),
         slots' = [slots EXCEPT ![r][now] = @ + 1]
  PROVE  WindowsKept'
<1>0. now \in Times /\ now \in Int /\ RateWindow \in Nat /\ RateMax \in Nat
  BY TimesFinite, DispatchAssumption DEF TdShape
<1>1. /\ slots'[r][now] = slots[r][now] + 1
      /\ \A u \in Times \ {now} : slots'[r][u] = slots[r][u]
      /\ \A s \in Resources \ {r} : slots'[s] = slots[s]
  BY TableGrows DEF TdShape
<1>2. Counts(slots[r], now)
  BY DEF NothingAhead
<1>3. ASSUME NEW t \in Times PROVE InWindow(slots'[r], t, t + RateWindow - 1) <= RateMax
  <2> DEFINE y == t + RateWindow - 1
  <2>1. t \in Int /\ y \in Int
    BY <1>0, TimesFinite
  <2>2. InWindow(slots[r], t, y) <= RateMax /\ InWindow(slots[r], t, y) \in Nat
    BY <1>2, WindowType DEF WindowsKept
  <2>5. InWindow(slots'[r], t, y)
          = IF t <= now /\ now <= y THEN InWindow(slots[r], t, y) + 1 ELSE InWindow(slots[r], t, y)
    <3> DEFINE f == slots[r]
               g == slots'[r]
    <3>1. Counts(f, now) /\ g[now] = f[now] + 1 /\ \A u \in Times \ {now} : g[u] = f[u]
      BY <1>1, <1>2
    <3> HIDE DEF f, g, y
    <3>2. InWindow(g, t, y) = IF t <= now /\ now <= y THEN InWindow(f, t, y) + 1 ELSE InWindow(f, t, y)
      BY <1>0, <2>1, <3>1, WindowGrows
    <3> QED
      BY <3>2 DEF f, g
  <2>3. CASE t <= now /\ now <= y
    <3>1. InWindow(slots'[r], t, y) = InWindow(slots[r], t, y) + 1
      BY <2>3, <2>5
    <3>2. now - RateWindow + 1 <= t /\ now - RateWindow + 1 \in Int
      BY <1>0, <2>1, <2>3
    <3>3. InWindow(slots[r], t, y) <= InWindow(slots[r], now - RateWindow + 1, now)
      <4> HIDE DEF y
      <4> QED
        BY <1>0, <1>2, <2>1, <3>2, WindowPart
    <3>4. InWindow(slots[r], now - RateWindow + 1, now) < RateMax
      <4>1. InWindow(slots[r], now - RateWindow + 1, now) \in Nat
        BY <1>2, WindowType
      <4> QED
        BY <1>0, <4>1 DEF WindowFull
    <3>5. InWindow(slots[r], now - RateWindow + 1, now) \in Nat
      BY <1>2, WindowType
    <3> HIDE DEF y
    <3>6. InWindow(slots[r], t, y) + 1 <= RateMax
      BY <1>0, <2>2, <3>3, <3>4, <3>5
    <3> QED
      BY <3>1, <3>6 DEF y
  <2>4. CASE ~(t <= now /\ now <= y)
    <3>1. InWindow(slots'[r], t, y) = InWindow(slots[r], t, y)
      BY <2>4, <2>5
    <3> QED
      BY <2>2, <3>1
  <2> QED
    BY <2>3, <2>4
<1>4. ASSUME NEW s \in Resources, s # r, NEW t \in Times
      PROVE  InWindow(slots'[s], t, t + RateWindow - 1) <= RateMax
  BY <1>1, <1>4 DEF WindowsKept
<1> QED
  BY <1>3, <1>4 DEF WindowsKept

\* A slot is taken only in a window with room, and a total counted only below its limit.
LEMMA BudgetInvStep ==
  ASSUME DispatchInv, BudgetInv, [TdNext]_tdvars
  PROVE  BudgetInv'
<1>0. TdShape /\ TdShape' /\ NothingAhead
  BY ShapeStep DEF DispatchInv
<1>1. WindowsKept /\ TotalKept /\ Slotted
  BY DEF BudgetInv
<1>2. TotalMax \in Nat /\ \A r \in Resources : /\ granted[r] \in Nat /\ totals[r] \in Nat
                                              /\ InWindow(slots[r], 0, MaxTime) \in Nat
  BY <1>0, WindowType, DispatchAssumption DEF TdShape, NothingAhead
<1>3. ASSUME UNCHANGED <<slots, totals, granted>>
      PROVE  WindowsKept' /\ TotalKept'
  BY <1>1, <1>3 DEF WindowsKept, TotalKept
<1>4. ASSUME UNCHANGED <<slots, totals, granted, job>> PROVE BudgetInv'
  <2>1. \A r \in Resources : HasSlot(r)' = HasSlot(r)
    BY <1>4 DEF HasSlot, Res
  <2> QED
    BY <1>1, <1>3, <1>4, <2>1 DEF BudgetInv, Slotted
<1>5. CASE Clock \/ UNCHANGED tdvars
  BY <1>4, <1>5 DEF Clock, tdvars
<1>6. ASSUME NEW w \in Workers, DispatchNext(w) PROVE BudgetInv'
  <2> DEFINE asked == Res(job[w].ask)
  <2>1. asked \in Resources /\ job[w].probe \in BOOLEAN
    BY <1>0, Goes DEF TdShape, Job
  <2>2. ASSUME NEW r \in Resources
        PROVE  /\ IsFiniteSet(HasSlot(r)') /\ Cardinality(HasSlot(r)) \in Nat
               /\ Cardinality(HasSlot(r)') \in Nat
               /\ (w \in HasSlot(r) <=> w \in HasSlot(r)')
                    => Cardinality(HasSlot(r)') = Cardinality(HasSlot(r))
               /\ w \in HasSlot(r) /\ w \notin HasSlot(r)'
                    => Cardinality(HasSlot(r)') = Cardinality(HasSlot(r)) - 1
               /\ w \notin HasSlot(r) /\ w \in HasSlot(r)'
                    => Cardinality(HasSlot(r)') = Cardinality(HasSlot(r)) + 1
    BY <1>0, <1>1, <1>6, HasSlotMoves DEF Slotted
  <2>3. \A r \in Resources : granted[r] + Cardinality(HasSlot(r)) <= InWindow(slots[r], 0, MaxTime)
    BY <1>1 DEF Slotted
  <2>4. ASSUME UNCHANGED <<slots, totals, granted>>, job[w].pc # "grant", job'[w].pc # "grant"
        PROVE  BudgetInv'
    <3>1. \A r \in Resources : w \notin HasSlot(r) /\ w \notin HasSlot(r)'
      BY <2>4 DEF HasSlot
    <3>2. Slotted'
      BY <2>2, <2>3, <2>4, <3>1 DEF Slotted
    <3> QED
      BY <1>3, <2>4, <3>2 DEF BudgetInv
  <2>5. CASE Ask(w)
    BY <1>0, <2>4, <2>5, AskDoes
  <2>6. CASE CheckRate(w)
    <3>1. UNCHANGED <<totals, granted>> /\ TotalKept'
      BY <1>0, <1>1, <2>6, CheckRateDoes DEF TotalKept
    <3>2. WindowsKept'
      <4>1. CASE slots' = slots
        BY <1>1, <4>1 DEF WindowsKept
      <4>2. CASE slots' # slots
        BY <1>0, <1>1, <2>1, <2>6, <4>2, CheckRateDoes, SlotKeepsWindows
      <4> QED
        BY <4>1, <4>2
    <3>3. ASSUME NEW r \in Resources
          PROVE  granted'[r] + Cardinality(HasSlot(r)') <= InWindow(slots'[r], 0, MaxTime)
      <4>1. w \notin HasSlot(r)
        BY <1>0, <2>6, CheckRateDoes DEF HasSlot
      <4>2. CASE w \in HasSlot(r)'
        <5>1. r = asked /\ slots' = [slots EXCEPT ![r][now] = @ + 1]
          BY <1>0, <2>6, <4>2, CheckRateDoes DEF HasSlot, Res
        <5>2. now \in Times /\ 0 \in Int /\ MaxTime \in Int /\ 0 <= now /\ now <= MaxTime
          BY <1>0, TimesFinite DEF TdShape, Times
        <5>3. slots'[r][now] = slots[r][now] + 1 /\ \A t \in Times \ {now} : slots'[r][t] = slots[r][t]
          BY <1>0, <5>1, <5>2, TableGrows DEF TdShape
        <5>4. InWindow(slots'[r], 0, MaxTime) = InWindow(slots[r], 0, MaxTime) + 1
          BY <1>0, <5>2, <5>3, WindowGrows DEF NothingAhead
        <5> QED
          BY <1>2, <2>2, <2>3, <3>1, <4>1, <4>2, <5>4
      <4>3. CASE w \notin HasSlot(r)'
        <5>1. InWindow(slots[r], 0, MaxTime) <= InWindow(slots'[r], 0, MaxTime)
              /\ InWindow(slots'[r], 0, MaxTime) \in Nat
          <6>1. CASE slots' = slots
            BY <1>2, <6>1
          <6>2. CASE slots' # slots
            <7>1. slots' = [slots EXCEPT ![asked][now] = @ + 1]
              BY <1>0, <2>6, <6>2, CheckRateDoes
            <7>2. /\ now \in Times /\ slots \in [Resources -> [Times -> Nat]]
                  /\ \A t \in Times : slots[r][t] \in Nat
              BY <1>0 DEF TdShape
            <7>3. slots' \in [Resources -> [Times -> Nat]] /\ slots'[asked][now] = slots[asked][now] + 1
                  /\ (\A t \in Times \ {now} : slots'[asked][t] = slots[asked][t])
                  /\ \A s \in Resources \ {asked} : slots'[s] = slots[s]
              <8> HIDE DEF asked
              <8> QED
                BY <2>1, <7>1, <7>2, TableGrows
            <7>4. \A t \in Times : slots'[r][t] \in Nat /\ slots[r][t] <= slots'[r][t]
              <8> HIDE DEF asked
              <8> QED
                BY <2>1, <7>2, <7>3
            <7>5. /\ IsFiniteSet(Times \cap 0 .. MaxTime)
                  /\ InWindow(slots[r], 0, MaxTime) = Sum(slots[r], Times \cap 0 .. MaxTime)
                  /\ InWindow(slots'[r], 0, MaxTime) = Sum(slots'[r], Times \cap 0 .. MaxTime)
              BY WindowIsSum
            <7>6. Sum(slots[r], Times \cap 0 .. MaxTime) <= Sum(slots'[r], Times \cap 0 .. MaxTime)
              BY <7>2, <7>4, <7>5, SumMonotone
            <7>7. Sum(slots'[r], Times \cap 0 .. MaxTime) \in Nat
              BY <7>4, <7>5, SumType
            <7> QED
              BY <7>5, <7>6, <7>7
          <6> QED
            BY <6>1, <6>2
        <5> QED
          BY <1>2, <2>2, <2>3, <3>1, <4>1, <4>3, <5>1
      <4> QED
        BY <4>2, <4>3
    <3> QED
      BY <2>2, <3>1, <3>2, <3>3 DEF BudgetInv, Slotted
  <2>7. CASE CheckGrant(w)
    <3>1. /\ job[w].pc = "grant" /\ job'[w].pc # "grant" /\ UNCHANGED slots
          /\ granted' = granted \/ granted' = [granted EXCEPT ![asked] = @ + 1]
          /\ totals' = totals \/ totals' = [totals EXCEPT ![asked] = @ + 1]
          /\ granted' # granted =>
               /\ ~job[w].probe
               /\ TotalMax > 0 => totals' = [totals EXCEPT ![asked] = @ + 1]
          /\ totals' # totals => totals[asked] < TotalMax
      BY <1>0, <2>7, CheckGrantDoes
    <3>2. granted \in [Resources -> Nat] /\ totals \in [Resources -> Nat]
      BY <1>0 DEF TdShape
    <3>3. TotalKept'
      <4> HIDE DEF asked
      <4>1. \A r \in Resources : granted[r] \in Nat /\ totals[r] \in Nat
        BY <3>2
      <4>2. \A r \in Resources : r # asked => granted'[r] = granted[r] /\ totals'[r] = totals[r]
        BY <2>1, <3>1, <3>2
      <4>3. granted'[asked] = granted[asked] \/ granted'[asked] = granted[asked] + 1
        BY <2>1, <3>1, <3>2
      <4>4. totals'[asked] = totals[asked]
            \/ (totals'[asked] = totals[asked] + 1 /\ totals[asked] < TotalMax)
        BY <2>1, <3>1, <3>2, <4>1
      <4>5. granted'[asked] = granted[asked] + 1 /\ TotalMax > 0 => totals'[asked] = totals[asked] + 1
        BY <2>1, <3>1, <3>2, <4>1
      <4>6. TotalMax > 0 => granted[asked] <= totals[asked] /\ totals[asked] <= TotalMax
        BY <1>1, <2>1 DEF TotalKept
      <4>7. TotalMax > 0 => granted'[asked] <= totals'[asked] /\ totals'[asked] <= TotalMax
        BY <1>2, <2>1, <4>1, <4>3, <4>4, <4>5, <4>6
      <4> QED
        BY <1>1, <4>2, <4>7 DEF TotalKept
    <3>4. ASSUME NEW r \in Resources
          PROVE  granted'[r] + Cardinality(HasSlot(r)') <= InWindow(slots[r], 0, MaxTime)
      <4>1. w \notin HasSlot(r)'
        BY <3>1 DEF HasSlot
      <4>2. CASE granted'[r] = granted[r]
        <5>1. Cardinality(HasSlot(r)') <= Cardinality(HasSlot(r))
          BY <2>2, <4>1
        <5> QED
          BY <1>2, <2>2, <2>3, <4>2, <5>1
      <4>3. CASE granted'[r] # granted[r]
        <5>1. r = asked /\ ~job[w].probe /\ granted'[r] = granted[r] + 1
          BY <2>1, <3>1, <3>2, <4>3
        <5>2. w \in HasSlot(r)
          BY <3>1, <5>1 DEF HasSlot
        <5> QED
          BY <1>2, <2>2, <2>3, <4>1, <5>1, <5>2
      <4> QED
        BY <4>2, <4>3
    <3>5. WindowsKept'
      BY <1>1, <3>1 DEF WindowsKept
    <3>6. Slotted'
      BY <2>2, <3>1, <3>4 DEF Slotted
    <3> QED
      BY <3>3, <3>5, <3>6 DEF BudgetInv
  <2>8. CASE Repeat(w)
    BY <1>0, <2>4, <2>8, RepeatDoes
  <2>9. CASE Cached(w) \/ NotCached(w) \/ Run(w) \/ RunFails(w) \/ Store(w)
    BY <1>0, <2>4, <2>9, RestDoes
  <2> QED
    BY <1>6, <2>5, <2>6, <2>7, <2>8, <2>9 DEF DispatchNext
<1> QED
  BY <1>5, <1>6 DEF TdNext

\* Nothing is counted at the start.
LEMMA BudgetInvInit == TdInit => BudgetInv
<1> SUFFICES ASSUME TdInit PROVE WindowsKept /\ TotalKept /\ Slotted
  BY DEF BudgetInv
<1>1. /\ \A r \in Resources : HasSlot(r) = {}
      /\ IsFiniteSet({}) /\ Cardinality({}) = 0
  BY TdStart, FS_EmptySet DEF HasSlot
<1>2. \A r \in Resources : \A x, y : InWindow(slots[r], x, y) = 0
  BY TdStart, NothingCounted
<1>3. RateMax \in Nat /\ TotalMax \in Nat
  BY DispatchAssumption
<1> QED
  BY <1>1, <1>2, <1>3, TdStart DEF WindowsKept, TotalKept, Slotted

\* The budget of a grant is kept, for every limit, window and total and whatever
\* the number of workers: between the check of the rate and that of the total the
\* lock is given up, and a call in between is already in its window.
THEOREM BudgetCorrect == TdSpec => []BudgetKept
<1>1. DispatchInv /\ BudgetInv => BudgetKept
  <2> SUFFICES ASSUME DispatchInv, BudgetInv PROVE BudgetKept
    OBVIOUS
  <2>1. /\ \A r \in Resources : /\ granted[r] \in Nat /\ Cardinality(HasSlot(r)) \in Nat
                                /\ InWindow(slots[r], 0, MaxTime) \in Nat
    BY WindowType, FS_CardinalityType DEF DispatchInv, TdShape, NothingAhead, BudgetInv, Slotted
  <2>2. \A r \in Resources : granted[r] <= InWindow(slots[r], 0, MaxTime)
    BY <2>1 DEF BudgetInv, Slotted
  <2> QED
    BY <2>2 DEF BudgetInv, BudgetKept, WindowsKept, TotalKept
<1>2. TdInit => DispatchInv /\ BudgetInv
  BY DispatchInvInit, BudgetInvInit
<1>3. DispatchInv /\ BudgetInv /\ [TdNext]_tdvars => (DispatchInv /\ BudgetInv)'
  BY DispatchInvStep, BudgetInvStep
<1> QED
  BY <1>1, <1>2, <1>3, PTL DEF TdSpec

-----------------------------------------------------------------------------
\* A repeated call whose breaker has no window open: few were let through in the
\* last window, and none now.
Quiet(f, n) == f[n] = 0 /\ InWindow(f, n - RepeatWindow, n) <= RepeatLimit - 2

\* A window of the breaker that began at s and has seen count calls: at least one
\* was let through at s, fewer than the limit since, fewer still in the time
\* before, and none once the window was over.
Window(f, n, count, s) ==
  /\ s <= n /\ f[s] >= 1
  /\ InWindow(f, s, n) <= count /\ InWindow(f, s, n) <= RepeatLimit - 1
  /\ InWindow(f, s - RepeatWindow, s - 1) <= RepeatLimit - 2
  /\ \A t \in Times : t > s + RepeatWindow => f[t] = 0

Breaks(a) == RepeatLimit > 1 /\ Kind[a] # "read"

BreakerInv ==
  \A a \in Asks : Breaks(a) =>
    /\ repeat[a].count = 0 => Quiet(admitted[a], now)
    /\ repeat[a].count > 0 => Window(admitted[a], now, repeat[a].count, repeat[a].first)
    /\ \A t \in Times : InWindow(admitted[a], t, t + RepeatWindow) <= 2 * RepeatLimit - 3

\* The breaker's limits are numbers.
LEMMA RepeatTypes == RepeatLimit \in Nat /\ RepeatWindow \in Nat
  BY DispatchAssumption

\* What is left of a window that is over.
LEMMA OverIsQuiet ==
  ASSUME NEW f, NEW n \in Times, NEW s \in Times, NEW c, Counts(f, n), Window(f, n, c, s),
         n - s > RepeatWindow
  PROVE  Quiet(f, n)
<1>1. n \in Int /\ s \in Int /\ s + 1 \in Int /\ n - RepeatWindow \in Int
      /\ RepeatLimit \in Nat /\ RepeatWindow \in Nat
  BY TimesFinite, RepeatTypes
<1>2. f[n] = 0
  BY <1>1 DEF Window
<1>3. InWindow(f, s, n) = InWindow(f, s, (s + 1) - 1) + InWindow(f, s + 1, n)
  BY <1>1, WindowSplit
<1>4. InWindow(f, s, (s + 1) - 1) = f[s] /\ f[s] \in Nat /\ f[s] >= 1
  <2>1. (s + 1) - 1 = s
    BY <1>1
  <2>2. InWindow(f, s, s) = f[s] /\ f[s] \in Nat /\ f[s] >= 1
    BY WindowOfOne DEF Counts, Window
  <2> QED
    BY <2>1, <2>2
<1>5. InWindow(f, s + 1, n) \in Nat /\ InWindow(f, n - RepeatWindow, n) \in Nat
  BY WindowType
<1>6. InWindow(f, s + 1, n) <= RepeatLimit - 2
  BY <1>1, <1>3, <1>4, <1>5 DEF Window
<1>7. InWindow(f, n - RepeatWindow, n) <= InWindow(f, s + 1, n)
  BY <1>1, WindowPart
<1> QED
  BY <1>1, <1>2, <1>5, <1>6, <1>7 DEF Quiet

\* The first call of a window, and a further one.
LEMMA FirstOfWindow ==
  ASSUME RepeatLimit > 1, NEW f, NEW g, NEW n \in Times, Counts(f, n), g[n] = f[n] + 1,
         \A t \in Times \ {n} : g[t] = f[t], Quiet(f, n)
  PROVE  Window(g, n, 1, n)
<1>1. n \in Int /\ n - 1 \in Int /\ n - RepeatWindow \in Int
      /\ RepeatLimit \in Nat /\ RepeatWindow \in Nat
  BY TimesFinite, RepeatTypes
<1>2. Counts(g, n)
  BY CountsGrow
<1>3. g[n] = 1 /\ InWindow(g, n, n) = 1
  BY <1>2, WindowOfOne DEF Quiet
<1>4. InWindow(g, n - RepeatWindow, n - 1)
        = IF n - RepeatWindow <= n /\ n <= n - 1 THEN InWindow(f, n - RepeatWindow, n - 1) + 1
          ELSE InWindow(f, n - RepeatWindow, n - 1)
  BY <1>1, WindowGrows
<1>5. InWindow(f, n - RepeatWindow, n - 1) <= InWindow(f, n - RepeatWindow, n)
  BY <1>1, WindowPart
<1>6. InWindow(f, n - RepeatWindow, n - 1) \in Nat /\ InWindow(f, n - RepeatWindow, n) \in Nat
  BY WindowType
<1>7. InWindow(g, n - RepeatWindow, n - 1) <= RepeatLimit - 2
  BY <1>1, <1>4, <1>5, <1>6 DEF Quiet
<1>8. \A t \in Times : t > n + RepeatWindow => g[t] = 0
  BY <1>1, <1>2, TimesFinite DEF Counts
<1> QED
  BY <1>1, <1>3, <1>7, <1>8 DEF Window

\* A call let through within the breaker's window, below its limit, continues the window.
LEMMA NextOfWindow ==
  ASSUME NEW f, NEW g, NEW n \in Times, Counts(f, n), g[n] = f[n] + 1,
         \A t \in Times \ {n} : g[t] = f[t], NEW s \in Times, NEW c \in Nat,
         Window(f, n, c, s), n - s <= RepeatWindow, c + 1 < RepeatLimit
  PROVE  Window(g, n, c + 1, s)
<1>1. n \in Int /\ s \in Int /\ s - 1 \in Int /\ s - RepeatWindow \in Int
      /\ RepeatLimit \in Nat /\ RepeatWindow \in Nat /\ s <= n
  BY TimesFinite, RepeatTypes DEF Window
<1>2. InWindow(g, s, n) = InWindow(f, s, n) + 1 /\ InWindow(f, s, n) \in Nat
  BY <1>1, WindowGrows, WindowType
<1>3. InWindow(g, s - RepeatWindow, s - 1) = InWindow(f, s - RepeatWindow, s - 1)
  <2>1. ~(s - RepeatWindow <= n /\ n <= s - 1)
    BY <1>1
  <2> QED
    BY <1>1, <2>1, WindowGrows
<1>4. g[s] >= 1
  BY <1>1 DEF Counts, Window
<1>5. InWindow(g, s, n) <= c + 1 /\ InWindow(g, s, n) <= RepeatLimit - 1
  BY <1>1, <1>2 DEF Window
<1>6. \A t \in Times : t > s + RepeatWindow => g[t] = 0
  BY <1>1, TimesFinite DEF Window
<1> QED
  BY <1>1, <1>3, <1>4, <1>5, <1>6 DEF Window

\* While a window is open, whatever interval contains the present has seen no
\* more than the bound: it meets two windows at most, and the first call of the
\* earlier one lies before it.
LEMMA WindowBounds ==
  ASSUME RepeatLimit > 1, NEW f, NEW n \in Times, Counts(f, n), NEW s \in Times, NEW c,
         Window(f, n, c, s), NEW t \in Times, t <= n, n <= t + RepeatWindow
  PROVE  InWindow(f, t, t + RepeatWindow) <= 2 * RepeatLimit - 3
<1> DEFINE y == t + RepeatWindow
<1>1. n \in Int /\ s \in Int /\ t \in Int /\ y \in Int /\ s - 1 \in Int /\ s - RepeatWindow \in Int
      /\ RepeatLimit \in Nat /\ RepeatWindow \in Nat /\ s <= n
  BY TimesFinite, RepeatTypes DEF Window
<1>2. /\ InWindow(f, s, n) \in Nat /\ InWindow(f, t, y) \in Nat /\ InWindow(f, t, s - 1) \in Nat
      /\ InWindow(f, s, y) \in Nat /\ InWindow(f, s - RepeatWindow, s - 1) \in Nat
  BY WindowType
<1>3. InWindow(f, s, n) <= RepeatLimit - 1 /\ InWindow(f, s - RepeatWindow, s - 1) <= RepeatLimit - 2
  BY DEF Window
<1>4. CASE t > s
  <2>1. InWindow(f, t, y) <= InWindow(f, s, n)
    <3> HIDE DEF y
    <3> QED
      BY <1>1, <1>4, WindowPart
  <2> HIDE DEF y
  <2>2. InWindow(f, t, y) <= 2 * RepeatLimit - 3
    BY <1>1, <1>2, <1>3, <2>1
  <2> QED
    BY <2>2 DEF y
<1>5. CASE t <= s
  <2>1. InWindow(f, t, y) = InWindow(f, t, s - 1) + InWindow(f, s, y)
    <3>1. s <= y + 1
      BY <1>1
    <3> HIDE DEF y
    <3> QED
      BY <1>1, <1>5, <3>1, WindowSplit
  <2>2. InWindow(f, t, s - 1) <= InWindow(f, s - RepeatWindow, s - 1)
    <3>1. s - RepeatWindow <= t
      BY <1>1
    <3> QED
      BY <1>1, <3>1, WindowPart
  <2>3. InWindow(f, s, y) <= InWindow(f, s, n)
    <3> HIDE DEF y
    <3> QED
      BY <1>1, WindowPart
  <2> HIDE DEF y
  <2>4. InWindow(f, t, y) <= 2 * RepeatLimit - 3
    BY <1>1, <1>2, <1>3, <2>1, <2>2, <2>3
  <2> QED
    BY <2>4 DEF y
<1> QED
  BY <1>1, <1>4, <1>5

\* The clock moves on.
LEMMA LaterQuiet ==
  ASSUME NEW f, NEW n \in Times, n + 1 \in Times, Counts(f, n), Quiet(f, n)
  PROVE  Quiet(f, n + 1)
<1>1. n \in Int /\ n + 1 \in Int /\ n - RepeatWindow \in Int /\ (n + 1) - RepeatWindow \in Int
      /\ RepeatLimit \in Nat /\ RepeatWindow \in Nat
  BY TimesFinite, RepeatTypes
<1>2. f[n + 1] = 0
  BY <1>1 DEF Counts
<1>3. InWindow(f, (n + 1) - RepeatWindow, n + 1) <= InWindow(f, n - RepeatWindow, n)
  BY <1>1, WindowPart
<1>4. InWindow(f, (n + 1) - RepeatWindow, n + 1) \in Nat /\ InWindow(f, n - RepeatWindow, n) \in Nat
  BY WindowType
<1> QED
  BY <1>1, <1>2, <1>3, <1>4 DEF Quiet

\* A window stays one when time passes.
LEMMA LaterWindow ==
  ASSUME NEW f, NEW n \in Times, n + 1 \in Times, Counts(f, n), NEW s \in Times, NEW c \in Nat,
         Window(f, n, c, s)
  PROVE  Window(f, n + 1, c, s)
<1>1. n \in Int /\ n + 1 \in Int /\ s \in Int /\ s <= n /\ RepeatLimit \in Nat
  BY TimesFinite, RepeatTypes DEF Window
<1>2. InWindow(f, s, n + 1) <= InWindow(f, s, n)
  BY <1>1, WindowPart
<1>3. InWindow(f, s, n + 1) \in Nat /\ InWindow(f, s, n) \in Nat
  BY WindowType
<1>4. InWindow(f, s, n + 1) <= c /\ InWindow(f, s, n + 1) <= RepeatLimit - 1
  BY <1>1, <1>2, <1>3 DEF Window
<1> QED
  BY <1>1, <1>4 DEF Window

\* What the breaker does to call b when worker w comes to it.
LEMMA BreakerStep ==
  ASSUME DispatchInv, DispatchInv', BreakerInv, NEW w \in Workers, Repeat(w), NEW b \in Asks, Breaks(b)
  PROVE  /\ repeat'[b].count = 0 => Quiet(admitted'[b], now)
         /\ repeat'[b].count > 0 => Window(admitted'[b], now, repeat'[b].count, repeat'[b].first)
         /\ \A t \in Times : InWindow(admitted'[b], t, t + RepeatWindow) <= 2 * RepeatLimit - 3
<1> DEFINE a == job[w].ask
           kept == [d \in Asks |-> IF Expired(repeat[d]) THEN Unseen ELSE repeat[d]]
           count == kept[a].count + 1
           e == [ count |-> count, first |-> IF count = 1 THEN now ELSE kept[a].first ]
           on == RepeatLimit > 0 /\ Kind[a] # "read"
           let == ~on \/ Below(count)
           f == admitted[b]
           c == repeat[b].count
           s == repeat[b].first
           lets(g) == \A t \in Times : InWindow(g, t, t + RepeatWindow) <= 2 * RepeatLimit - 3
<1>1. /\ a \in Asks /\ now \in Times /\ now \in Int /\ Counts(f, now)
      /\ c \in Nat /\ s \in Times /\ s \in Int /\ RepeatLimit \in Nat /\ RepeatWindow \in Nat
      /\ RepeatLimit > 1
  <2>1. TdShape /\ NothingAhead
    BY DEF DispatchInv
  <2> QED
    BY <2>1, Goes, TimesFinite, RepeatTypes DEF TdShape, NothingAhead, Breaks
<1>2. /\ c = 0 => Quiet(f, now)
      /\ c > 0 => Window(f, now, c, s)
      /\ lets(f)
  BY DEF BreakerInv
<1>3. /\ repeat' = IF on THEN [kept EXCEPT ![a] = e] ELSE repeat
      /\ admitted' = IF let THEN [admitted EXCEPT ![a][now] = @ + 1] ELSE admitted
  BY DEF Repeat
<1>4. admitted \in [Asks -> [Times -> Nat]] /\ repeat \in [Asks -> [count : Nat, first : Times]]
  BY DEF DispatchInv, TdShape
<1>5. Expired(repeat[b]) => Quiet(f, now)
  <2> SUFFICES ASSUME Expired(repeat[b]), c > 0 PROVE Quiet(f, now)
    BY <1>1, <1>2
  <2>1. now - s > RepeatWindow
    BY DEF Expired
  <2> HIDE DEF f, c, s
  <2> QED
    BY <1>1, <1>2, <2>1, OverIsQuiet
<1>6. CASE a # b
  <2>1. admitted'[b] = f
    <3> HIDE DEF a, let
    <3> QED
      BY <1>1, <1>3, <1>4, <1>6, TableGrows
  <2>2. repeat'[b] = repeat[b] \/ (repeat'[b] = Unseen /\ Expired(repeat[b]))
    <3>1. kept[b] = repeat[b] \/ (kept[b] = Unseen /\ Expired(repeat[b]))
      OBVIOUS
    <3>2. repeat'[b] = kept[b] \/ repeat'[b] = repeat[b]
      <4>1. DOMAIN kept = Asks
        OBVIOUS
      <4> HIDE DEF kept, a, e, on
      <4> QED
        BY <1>1, <1>3, <1>6, <4>1
    <3> QED
      BY <3>1, <3>2
  <2>3. CASE repeat'[b] = repeat[b]
    BY <1>2, <2>1, <2>3
  <2>4. CASE repeat'[b] = Unseen /\ Expired(repeat[b])
    <3>1. repeat'[b].count = 0
      BY <2>4 DEF Unseen
    <3> QED
      BY <1>2, <1>5, <2>1, <2>4, <3>1
  <2> QED
    BY <2>2, <2>3, <2>4
<1>7. CASE a = b
  <2>1. on /\ kept[b] = IF Expired(repeat[b]) THEN Unseen ELSE repeat[b]
    BY <1>1, <1>7 DEF Breaks
  <2>2. repeat'[b] = e /\ e.count = count /\ e.first = IF count = 1 THEN now ELSE kept[b].first
    <3>1. DOMAIN kept = Asks
      OBVIOUS
    <3>2. e.count = count /\ e.first = IF count = 1 THEN now ELSE kept[a].first
      OBVIOUS
    <3> HIDE DEF kept, a, e, on
    <3> QED
      BY <1>1, <1>3, <1>7, <2>1, <3>1, <3>2
  <2>3. let => /\ admitted'[b][now] = f[now] + 1
               /\ \A t \in Times \ {now} : admitted'[b][t] = f[t]
               /\ Counts(admitted'[b], now)
    <3> SUFFICES ASSUME let
                 PROVE  /\ admitted'[b][now] = f[now] + 1
                        /\ \A t \in Times \ {now} : admitted'[b][t] = f[t]
                        /\ Counts(admitted'[b], now)
      OBVIOUS
    <3>1. admitted' = [admitted EXCEPT ![b][now] = @ + 1]
      BY <1>3, <1>7
    <3>2. admitted'[b][now] = f[now] + 1 /\ \A t \in Times \ {now} : admitted'[b][t] = f[t]
      <4> HIDE DEF a, let
      <4> QED
        BY <1>1, <1>4, <3>1, TableGrows
    <3> HIDE DEF f, let, a
    <3> QED
      BY <1>1, <3>2, CountsGrow
  <2>4. ~let => admitted'[b] = f
    BY <1>3
  <2>5. /\ repeat'[b].count = count /\ count \in Nat /\ count > 0
        /\ Counts(admitted'[b], now) /\ Window(admitted'[b], now, count, repeat'[b].first)
        /\ repeat'[b].first \in Times
    <3>1. CASE Expired(repeat[b]) \/ c = 0
      <4>1. kept[b].count = 0 /\ Quiet(f, now)
        BY <1>2, <1>5, <2>1, <3>1 DEF Unseen
      <4>2. count = 1 /\ let
        BY <1>7, <4>1 DEF Below
      <4>3. repeat'[b].count = 1 /\ repeat'[b].first = now
        BY <2>2, <4>2
      <4>4. Window(admitted'[b], now, 1, now)
        <5>1. /\ admitted'[b][now] = f[now] + 1
              /\ \A t \in Times \ {now} : admitted'[b][t] = f[t]
          BY <2>3, <4>2
        <5> HIDE DEF f
        <5> QED
          BY <1>1, <4>1, <5>1, FirstOfWindow
      <4> HIDE DEF count, let, f, c, s
      <4> QED
        BY <1>1, <2>3, <4>2, <4>3, <4>4
    <3>2. CASE ~Expired(repeat[b]) /\ c > 0
      <4>1. kept[b] = repeat[b] /\ count = c + 1 /\ now - s <= RepeatWindow
        <5>1. ~(now - s > RepeatWindow)
          BY <3>2 DEF Expired
        <5>2. now - s <= RepeatWindow
          <6> HIDE DEF s
          <6> QED
            BY <1>1, <5>1
        <5> QED
          BY <1>7, <2>1, <3>2, <5>2
      <4>2. Window(f, now, c, s)
        BY <1>2, <3>2
      <4>3. repeat'[b].first = s /\ repeat'[b].count = c + 1 /\ count # 1
        <5>1. count # 1
          <6> HIDE DEF count, c
          <6> QED
            BY <1>1, <3>2, <4>1
        <5> QED
          BY <2>2, <4>1, <5>1
      <4>4. let <=> c + 1 < RepeatLimit
        <5>1. let <=> Below(count)
          BY <2>1
        <5> HIDE DEF count, c, let
        <5> QED
          BY <4>1, <4>3, <5>1 DEF Below
      <4>5. CASE c + 1 < RepeatLimit
        <5>1. /\ admitted'[b][now] = f[now] + 1
              /\ \A t \in Times \ {now} : admitted'[b][t] = f[t]
              /\ Counts(admitted'[b], now)
          BY <2>3, <4>4, <4>5
        <5>2. Window(admitted'[b], now, c + 1, s)
          <6> HIDE DEF f, c, s
          <6> QED
            BY <1>1, <4>1, <4>2, <4>5, <5>1, NextOfWindow
        <5> HIDE DEF f, c, s, count
        <5> QED
          BY <1>1, <4>1, <4>3, <5>1, <5>2
      <4>6. CASE ~(c + 1 < RepeatLimit)
        <5>1. admitted'[b] = f
          BY <2>4, <4>4, <4>6
        <5>2. Window(f, now, c + 1, s)
          <6>1. InWindow(f, s, now) \in Nat
            BY <1>1, WindowType
          <6> HIDE DEF f, c, s
          <6> QED
            BY <1>1, <4>2, <6>1 DEF Window
        <5> HIDE DEF f, c, s, count
        <5> QED
          BY <1>1, <4>1, <4>3, <5>1, <5>2
      <4> QED
        BY <4>5, <4>6
    <3> QED
      BY <1>1, <3>1, <3>2
  <2>6. ASSUME NEW t \in Times
        PROVE  InWindow(admitted'[b], t, t + RepeatWindow) <= 2 * RepeatLimit - 3
    <3>1. t \in Int /\ t + RepeatWindow \in Int
      BY <1>1, TimesFinite
    <3>2. CASE t <= now /\ now <= t + RepeatWindow
      <4> HIDE DEF count, f, c, s
      <4> QED
        BY <1>1, <2>5, <3>2, WindowBounds
    <3>3. CASE ~(t <= now /\ now <= t + RepeatWindow)
      <4>1. InWindow(f, t, t + RepeatWindow) <= 2 * RepeatLimit - 3
        BY <1>2
      <4>2. CASE let
        <5>1. InWindow(admitted'[b], t, t + RepeatWindow)
                = IF t <= now /\ now <= t + RepeatWindow
                  THEN InWindow(f, t, t + RepeatWindow) + 1 ELSE InWindow(f, t, t + RepeatWindow)
          <6> HIDE DEF f, let, c, s
          <6> QED
            BY <1>1, <2>3, <3>1, <4>2, WindowGrows
        <5> QED
          BY <3>3, <4>1, <5>1
      <4>3. CASE ~let
        BY <2>4, <4>1, <4>3
      <4> QED
        BY <4>2, <4>3
    <3> QED
      BY <3>2, <3>3
  <2> QED
    <3> HIDE DEF count, f, c, s, let, kept, e
    <3> QED
      BY <2>5, <2>6
<1> QED
  BY <1>6, <1>7

\* A call begins a window, continues one, or is broken; time ends windows.
LEMMA BreakerInvStep ==
  ASSUME DispatchInv, DispatchInv', BreakerInv, [TdNext]_tdvars
  PROVE  BreakerInv'
<1>0. TdShape /\ TdShape' /\ NothingAhead
  BY DEF DispatchInv
<1>1. ASSUME UNCHANGED <<now, repeat, admitted>> PROVE BreakerInv'
  BY <1>1 DEF BreakerInv
<1>2. CASE UNCHANGED tdvars
  BY <1>1, <1>2 DEF tdvars
<1>3. CASE Clock
  <2>1. now' = now + 1 /\ now \in Times /\ now + 1 \in Times /\ UNCHANGED <<repeat, admitted>>
    BY <1>0, <1>3 DEF Clock, TdShape
  <2>2. ASSUME NEW a \in Asks, Breaks(a)
        PROVE  /\ repeat[a].count = 0 => Quiet(admitted[a], now + 1)
               /\ repeat[a].count > 0
                    => Window(admitted[a], now + 1, repeat[a].count, repeat[a].first)
               /\ \A t \in Times : InWindow(admitted[a], t, t + RepeatWindow) <= 2 * RepeatLimit - 3
    <3>1. /\ repeat[a].count = 0 => Quiet(admitted[a], now)
          /\ repeat[a].count > 0 => Window(admitted[a], now, repeat[a].count, repeat[a].first)
          /\ \A t \in Times : InWindow(admitted[a], t, t + RepeatWindow) <= 2 * RepeatLimit - 3
      BY <2>2 DEF BreakerInv
    <3>2. repeat[a].count \in Nat /\ repeat[a].first \in Times /\ Counts(admitted[a], now)
      BY <1>0 DEF TdShape, NothingAhead
    <3> QED
      BY <2>1, <3>1, <3>2, LaterQuiet, LaterWindow
  <2> QED
    BY <2>1, <2>2 DEF BreakerInv
<1>4. ASSUME NEW w \in Workers, DispatchNext(w) PROVE BreakerInv'
  <2>1. CASE Repeat(w)
    <3>1. now' = now
      BY <1>0, <2>1, RepeatDoes
    <3> QED
      BY <2>1, <3>1, BreakerStep DEF BreakerInv
  <2>2. CASE Ask(w)
    BY <1>0, <1>1, <2>2, AskDoes
  <2>3. CASE CheckRate(w)
    BY <1>0, <1>1, <2>3, CheckRateDoes
  <2>4. CASE CheckGrant(w)
    BY <1>0, <1>1, <2>4, CheckGrantDoes
  <2>5. CASE Cached(w) \/ NotCached(w) \/ Run(w) \/ RunFails(w) \/ Store(w)
    BY <1>0, <1>1, <2>5, RestDoes
  <2> QED
    BY <1>4, <2>1, <2>2, <2>3, <2>4, <2>5 DEF DispatchNext
<1> QED
  BY <1>2, <1>3, <1>4 DEF TdNext

\* However the windows of the breaker fall, a repeated acting call is let through
\* no more than twice the limit less three times in any interval of their length.
THEOREM RepeatsCorrect == TdSpec => []RepeatsBounded
<1>1. TdInit => DispatchInv /\ BreakerInv
  <2> SUFFICES ASSUME TdInit PROVE BreakerInv
    BY DispatchInvInit
  <2>1. ASSUME NEW a \in Asks, Breaks(a)
        PROVE  /\ repeat[a].count = 0 /\ Quiet(admitted[a], now)
               /\ \A t \in Times : InWindow(admitted[a], t, t + RepeatWindow) <= 2 * RepeatLimit - 3
    <3>1. \A t \in Times : admitted[a][t] = 0
      BY TdStart
    <3>2. (\A x, y : InWindow(admitted[a], x, y) = 0) /\ repeat[a].count = 0 /\ now \in Times
      BY <3>1, TdStart, NothingCounted
    <3>3. RepeatLimit \in Nat /\ RepeatLimit > 1
      BY <2>1, RepeatTypes DEF Breaks
    <3> QED
      BY <3>1, <3>2, <3>3 DEF Quiet
  <2> QED
    BY <2>1 DEF BreakerInv
<1>2. DispatchInv /\ BreakerInv /\ [TdNext]_tdvars => (DispatchInv /\ BreakerInv)'
  BY DispatchInvStep, BreakerInvStep
<1>3. BreakerInv => RepeatsBounded
  BY DEF BreakerInv, RepeatsBounded, Breaks
<1> QED
  BY <1>1, <1>2, <1>3, PTL DEF TdSpec

-----------------------------------------------------------------------------
(* Transactions *)

USE TransactionAssumption DEF TransactionAssumption

\* What an Execute that is still to write has read: a row that was confirmed
\* and whose amount the limit of one transaction allows.
ExecuteApproved ==
  \A c \in Callers :
    call[c].op = "Execute" /\ Writing(c) =>
      /\ tx[call[c].tx].confirmed
      /\ WithinPerTransaction(tx[call[c].tx].amount)

\* confirmed_at is set once the status has been confirmed, and never cleared.
ConfirmedHasTime == \A t \in Tx : tx[t].status = "confirmed" => tx[t].confirmed

\* A call goes on to its write only if the row it read was not settled.
ReadOpen == \A c \in Callers : Writing(c) => call[c].read \notin Settled

TxInv == TxTypeOK /\ ReadOpen /\ ExecuteApproved /\ ConfirmedHasTime /\ ExecutedWasApproved

\* The initial state satisfies the invariant.
LEMMA TxInitInv == TxInit => TxInv
<1> SUFFICES ASSUME TxInit PROVE TxInv
  OBVIOUS
<1> USE DEF TxInit, NoTx, Idle
<1>1. TxTypeOK
  BY DEF TxTypeOK, TxRow, Call, Tx, Day, Status, Settled, Writing
<1>2. ReadOpen /\ ExecuteApproved /\ ConfirmedHasTime /\ ExecutedWasApproved
  BY DEF ReadOpen, ExecuteApproved, ConfirmedHasTime, ExecutedWasApproved, Writing
<1> QED
  BY <1>1, <1>2 DEF TxInv

\* A caller that has read a row holds a well-typed call; no row has changed.
LEMMA ReadsType ==
  ASSUME TxTypeOK, NEW c \in Callers, NEW t \in Tx,
         NEW op \in {"Confirm", "Cancel", "Execute"}, NEW phase \in {"limit", "write"},
         Reads(c, op, t, phase)
  PROVE  TxTypeOK'
<1>1. call' \in [ Callers -> Call ]
  BY DEF Reads, TxTypeOK, Call, TxRow
<1> QED
  BY <1>1 DEF Reads, TxTypeOK, Writing

\* The row an UPDATE leaves: well typed, its amount kept, its time of
\* confirmation set or kept, its status the one its method gives.
LEMMA WrittenRow ==
  ASSUME TxTypeOK, NEW c \in Callers, Write(c)
  PROVE  LET t == call[c].tx IN
         /\ t \in Tx
         /\ tx' = [ tx EXCEPT ![t] = tx'[t] ]
         /\ tx'[t] \in TxRow
         /\ tx'[t].amount = tx[t].amount
         /\ tx[t].confirmed => tx'[t].confirmed
         /\ \/ tx'[t].status = "cancelled"
            \/ tx'[t].status = "confirmed" /\ tx'[t].confirmed
            \/ tx'[t].status = "executed" /\ call[c].op = "Execute"
<1> DEFINE t == call[c].tx
<1>1. t \in Tx /\ tx \in [ Tx -> TxRow ] /\ call[c].day \in Day /\ today \in Day
  BY DEF TxTypeOK, Call, Write, Sets, Writing
<1>2. CASE Sets(c, "Confirm", [ tx[t] EXCEPT !.status = "confirmed", !.confirmed = TRUE ])
  BY <1>1, <1>2 DEF Sets, TxRow, Status
<1>3. CASE Sets(c, "Cancel", [ tx[t] EXCEPT !.status = "cancelled" ])
  BY <1>1, <1>3 DEF Sets, TxRow, Status, Settled
<1>4. ASSUME NEW d \in call[c].day .. today,
             Sets(c, "Execute", [ tx[t] EXCEPT !.status = "executed", !.day = d ])
      PROVE  /\ tx' = [ tx EXCEPT ![t] = tx'[t] ]
             /\ tx'[t] \in TxRow
             /\ tx'[t].amount = tx[t].amount
             /\ tx[t].confirmed => tx'[t].confirmed
             /\ tx'[t].status = "executed" /\ call[c].op = "Execute"
  <2>1. d \in Day
    BY <1>1 DEF Day
  <2> QED
    BY <1>1, <1>4, <2>1 DEF Sets, TxRow, Status, Settled
<1> QED
  BY <1>1, <1>2, <1>3, <1>4 DEF Write

\* A call that has only its audit row left.
LEMMA ToAuditCall ==
  ASSUME TxTypeOK, NEW c \in Callers, ToAudit(c)
  PROVE  /\ call' \in [ Callers -> Call ]
         /\ \A d \in Callers : Writing(d)' => call'[d] = call[d] /\ Writing(d)
<1> DEFINE after == [ Idle EXCEPT !.phase = "audit" ]
<1>1. after \in Call /\ after.phase = "audit"
  BY DEF Idle, Call, Day, Status
<1>2. call' = [ call EXCEPT ![c] = after ]
  BY DEF ToAudit
<1> HIDE DEF after
<1> QED
  BY <1>1, <1>2 DEF TxTypeOK, Writing

\* Every step keeps the types.
LEMMA TxTypeStep == TxTypeOK /\ [TxNext]_vars => TxTypeOK'
<1> SUFFICES ASSUME TxTypeOK, [TxNext]_vars PROVE TxTypeOK'
  OBVIOUS
<1>1. CASE UNCHANGED vars
  BY <1>1 DEF vars, TxTypeOK, Writing
<1>2. CASE Midnight
  BY <1>2 DEF Midnight, TxTypeOK, Day, Writing
<1>3. ASSUME NEW c \in Callers, CallerNext(c) PROVE TxTypeOK'
  <2>1. ASSUME NEW t \in Tx, NEW a \in Amounts, Prepare(c, t, a) PROVE TxTypeOK'
    <3> DEFINE new == [ NoTx EXCEPT !.status = "pending", !.amount = a ]
    <3>1. new \in TxRow /\ new.status = "pending"
      <4>1. a \in Nat
        BY <2>1 DEF Prepare, Payable
      <4>2. NoTx \in TxRow
        BY DEF NoTx, TxRow, Status
      <4> QED
        BY <4>1, <4>2 DEF TxRow, Status
    <3>2. tx' \in [ Tx -> TxRow ]
      BY <2>1, <3>1 DEF Prepare, TxTypeOK
    <3>3. /\ call' \in [ Callers -> Call ]
          /\ \A d \in Callers : Writing(d)' => call'[d] = call[d] /\ Writing(d)
      BY <2>1, ToAuditCall DEF Prepare
    <3> QED
      BY <2>1, <3>1, <3>2, <3>3 DEF Prepare, TxTypeOK
  <2>2. ASSUME NEW t \in Tx, Confirm(c, t) \/ Cancel(c, t) \/ Execute(c, t)
        PROVE  TxTypeOK'
    BY <2>2, ReadsType DEF Confirm, Cancel, Execute
  <2>3. CASE CheckDaily(c)
    <3>1. Idle \in Call /\ Idle.phase = "idle"
      BY DEF Idle, Call, Day, Status
    <3>2. [ call[c] EXCEPT !.phase = "write", !.day = today ] \in Call
      BY DEF TxTypeOK, Call
    <3>3. /\ call' \in [ Callers -> Call ]
          /\ UNCHANGED <<limits, tx, today>>
          /\ \A d \in Callers : Writing(d)' => Writing(d) /\ call'[d].tx = call[d].tx
      <4>1. CASE WithinDaily(tx[call[c].tx].amount)
        BY <2>3, <3>2, <4>1 DEF CheckDaily, TxTypeOK, Call, Writing
      <4>2. CASE ~WithinDaily(tx[call[c].tx].amount)
        BY <2>3, <3>1, <4>2 DEF CheckDaily, TxTypeOK, Writing
      <4> QED
        BY <4>1, <4>2
    <3> QED
      BY <3>3 DEF TxTypeOK
  <2>4. CASE Write(c)
    <3>1. tx' \in [ Tx -> TxRow ] /\ \A t \in Tx : tx[t].status # "none" => tx'[t].status # "none"
      BY <2>4, WrittenRow DEF TxTypeOK
    <3>2. ToAudit(c) /\ UNCHANGED <<limits, today>>
      BY <2>4 DEF Write, Sets
    <3>3. /\ call' \in [ Callers -> Call ]
          /\ \A d \in Callers : Writing(d)' => call'[d] = call[d] /\ Writing(d)
      BY <3>2, ToAuditCall
    <3> QED
      BY <3>1, <3>2, <3>3 DEF TxTypeOK
  <2>5. CASE Audit(c)
    BY <2>5 DEF Audit, TxTypeOK, Call, Idle, Day, Status, Writing
  <2>6. CASE StatementFails(c)
    BY <2>6 DEF StatementFails, TxTypeOK, Call, Idle, Day, Status, Writing
  <2> QED
    BY <1>3, <2>1, <2>2, <2>3, <2>4, <2>5, <2>6 DEF CallerNext
<1> QED
  BY <1>1, <1>2, <1>3 DEF TxNext

-----------------------------------------------------------------------------
\* A step that changes no row keeps the invariant if every call still to write
\* was so before, or has just read a row that allows it.
LEMMA ApprovedKept ==
  ASSUME TxInv, TxTypeOK', UNCHANGED <<limits, tx>>,
         \A c \in Callers : Writing(c)' =>
           \/ /\ Writing(c) /\ call'[c].op = call[c].op
              /\ call'[c].tx = call[c].tx /\ call'[c].read = call[c].read
           \/ /\ call'[c].read \notin Settled
              /\ call'[c].op = "Execute" =>
                   /\ tx[call'[c].tx].confirmed
                   /\ WithinPerTransaction(tx[call'[c].tx].amount)
  PROVE  TxInv'
BY DEF TxInv, ReadOpen, ExecuteApproved, ConfirmedHasTime, ExecutedWasApproved,
       WithinPerTransaction

\* Every step keeps the invariant.
LEMMA TxInvStep == TxInv /\ [TxNext]_vars => TxInv'
<1> SUFFICES ASSUME TxInv, [TxNext]_vars PROVE TxInv'
  OBVIOUS
<1>0. TxTypeOK /\ TxTypeOK'
  BY TxTypeStep DEF TxInv
<1>1. CASE UNCHANGED vars
  BY <1>0, <1>1, ApprovedKept DEF vars, Writing
<1>2. CASE Midnight
  BY <1>0, <1>2, ApprovedKept DEF Midnight, Writing
<1>3. ASSUME NEW c \in Callers, CallerNext(c) PROVE TxInv'
  <2>1. ASSUME NEW t \in Tx, NEW a \in Amounts, Prepare(c, t, a) PROVE TxInv'
    <3>1. /\ tx[t].status = "none"
          /\ \A u \in Tx : u # t => tx'[u] = tx[u]
          /\ tx'[t].status = "pending"
          /\ limits' = limits
      BY <1>0, <2>1 DEF Prepare, NoTx, TxTypeOK, TxRow
    <3>2. \A d \in Callers : Writing(d)' =>
            /\ call'[d] = call[d] /\ Writing(d)
            /\ call[d].tx \in Tx /\ call[d].tx # t
      BY <1>0, <2>1, ToAuditCall DEF Prepare, TxTypeOK
    <3>3. ReadOpen' /\ ExecuteApproved'
      BY <3>1, <3>2 DEF TxInv, ReadOpen, ExecuteApproved, WithinPerTransaction
    <3>4. ConfirmedHasTime' /\ ExecutedWasApproved'
      BY <3>1 DEF TxInv, ConfirmedHasTime, ExecutedWasApproved, WithinPerTransaction
    <3> QED
      BY <1>0, <3>3, <3>4 DEF TxInv
  <2>2. ASSUME NEW t \in Tx, Confirm(c, t) \/ Cancel(c, t) PROVE TxInv'
    <3>1. /\ UNCHANGED <<limits, tx>>
          /\ call'[c].read \notin Settled /\ call'[c].op # "Execute"
          /\ \A d \in Callers : d # c => call'[d] = call[d]
      BY <1>0, <2>2 DEF Confirm, Cancel, Reads, TxTypeOK
    <3> QED
      BY <1>0, <3>1, ApprovedKept DEF Writing
  <2>3. ASSUME NEW t \in Tx, Execute(c, t) PROVE TxInv'
    <3>1. /\ UNCHANGED <<limits, tx>>
          /\ call'[c].tx = t /\ call'[c].read = "confirmed"
          /\ \A d \in Callers : d # c => call'[d] = call[d]
      BY <1>0, <2>3 DEF Execute, Reads, TxTypeOK
    <3>2. tx[t].confirmed /\ WithinPerTransaction(tx[t].amount)
      BY <2>3 DEF Execute, TxInv, ConfirmedHasTime
    <3> QED
      BY <1>0, <3>1, <3>2, ApprovedKept DEF Writing, Settled
  <2>4. CASE CheckDaily(c)
    <3>1. /\ UNCHANGED <<limits, tx>>
          /\ \A d \in Callers : Writing(d)' =>
               /\ Writing(d) /\ call'[d].op = call[d].op
               /\ call'[d].tx = call[d].tx /\ call'[d].read = call[d].read
      BY <1>0, <2>4 DEF CheckDaily, TxTypeOK, Call, Idle, Writing
    <3> QED
      BY <1>0, <3>1, ApprovedKept
  <2>5. CASE Write(c)
    <3> DEFINE t == call[c].tx
    <3>1. UNCHANGED limits /\ \A d \in Callers : Writing(d)' =>
            call'[d] = call[d] /\ Writing(d) /\ call[d].tx \in Tx
      BY <1>0, <2>5, ToAuditCall DEF Write, Sets, TxTypeOK
    <3>2. Writing(c)
      BY <2>5 DEF Write, Sets, Writing
    <3>3. \A u \in Tx : /\ tx'[u].amount = tx[u].amount
                        /\ tx[u].confirmed => tx'[u].confirmed
                        /\ u # t => tx'[u] = tx[u]
      BY <1>0, <2>5, WrittenRow DEF TxTypeOK
    <3>4. ReadOpen' /\ ExecuteApproved'
      BY <3>1, <3>3 DEF TxInv, ReadOpen, ExecuteApproved, WithinPerTransaction
    <3>5. ConfirmedHasTime'
      BY <1>0, <2>5, <3>3, WrittenRow DEF TxInv, ConfirmedHasTime
    <3>6. ExecutedWasApproved'
      <4>1. ASSUME NEW u \in Tx, tx'[u].status = "executed"
            PROVE  tx[u].confirmed /\ WithinPerTransaction(tx[u].amount)
        <5>1. CASE u # t
          BY <3>3, <4>1, <5>1 DEF TxInv, ExecutedWasApproved
        <5>2. CASE u = t
          <6>1. call[c].op = "Execute"
            BY <1>0, <2>5, <4>1, <5>2, WrittenRow
          <6> QED
            BY <3>2, <5>2, <6>1 DEF TxInv, ExecuteApproved
        <5> QED
          BY <5>1, <5>2
      <4> QED
        BY <3>1, <3>3, <4>1 DEF ExecutedWasApproved, WithinPerTransaction
    <3> QED
      BY <1>0, <3>4, <3>5, <3>6 DEF TxInv
  <2>6. CASE Audit(c) \/ StatementFails(c)
    <3>1. UNCHANGED <<limits, tx>> /\ \A d \in Callers : call'[d] \in {call[d], Idle}
      BY <1>0, <2>6 DEF Audit, StatementFails, TxTypeOK
    <3> QED
      BY <1>0, <3>1, ApprovedKept DEF Idle, Writing
  <2> QED
    BY <1>3, <2>1, <2>2, <2>3, <2>4, <2>5, <2>6 DEF CallerNext
<1> QED
  BY <1>1, <1>2, <1>3 DEF TxNext

-----------------------------------------------------------------------------
\* The engine's state is well typed: amounts are never negative, and a call
\* past its read is about a row that exists.
THEOREM TxTypeCorrect == TxSpec => []TxTypeOK
<1>1. TxInit => TxTypeOK
  BY TxInitInv DEF TxInv
<1> QED
  BY <1>1, TxTypeStep, PTL DEF TxSpec

\* The inductive invariant of the engine.
THEOREM TxInvCorrect == TxSpec => []TxInv
  BY TxInitInv, TxInvStep, PTL DEF TxSpec

\* Only confirmed purchases within the limit of one transaction are executed,
\* however Confirm, Cancel and Execute calls of any number of callers overlap.
THEOREM ApprovedCorrect == TxSpec => []ExecutedWasApproved
<1>1. TxInv => ExecutedWasApproved
  BY DEF TxInv
<1> QED
  BY <1>1, TxInvCorrect, PTL

\* A settled transaction is changed only by a call that read it unsettled.
THEOREM SettledCorrect == TxSpec => SettledUnlessRaced
<1> DEFINE Over(t) == /\ tx[t].status \in Settled
                      /\ \A c \in Callers :
                           Writing(c) /\ call[c].tx = t => call[c].read \in Settled
           Stays == \A t \in Tx : Over(t) => tx'[t].status = tx[t].status
<1>1. TxInv /\ [TxNext]_vars => [Stays]_vars
  <2> SUFFICES ASSUME TxInv, TxNext, NEW t \in Tx, Over(t)
               PROVE  tx'[t].status = tx[t].status
    OBVIOUS
  <2>0. TxTypeOK /\ \A c \in Callers : Writing(c) => call[c].tx # t
    BY DEF TxInv, ReadOpen
  <2>1. CASE Midnight
    BY <2>1 DEF Midnight
  <2>2. ASSUME NEW c \in Callers, CallerNext(c) PROVE tx'[t].status = tx[t].status
    <3>1. ASSUME NEW u \in Tx, NEW a \in Amounts, Prepare(c, u, a)
          PROVE  tx'[t].status = tx[t].status
      BY <2>0, <3>1 DEF Prepare, Settled, TxTypeOK
    <3>2. CASE Write(c)
      <4>1. call[c].tx # t
        BY <2>0, <3>2 DEF Write, Sets, Writing
      <4> QED
        BY <2>0, <3>2, <4>1 DEF Write, Sets, TxTypeOK
    <3> QED
      BY <2>2, <3>1, <3>2 DEF CallerNext, Confirm, Cancel, Execute, Reads,
         CheckDaily, Audit, StatementFails
  <2> QED
    BY <2>1, <2>2 DEF TxNext
<1> QED
  BY <1>1, TxInvCorrect, PTL DEF TxSpec, SettledUnlessRaced

-----------------------------------------------------------------------------
\* What transaction t adds to day d, and what caller c is about to add to it: a
\* purchase that passed the daily limit on d or before may yet be dated d.
Spent(d) ==
  [ t \in Tx |-> IF tx[t].status = "executed" /\ tx[t].day = d THEN tx[t].amount ELSE 0 ]

Buying(c) == call[c].phase = "write" /\ call[c].op = "Execute"

Due(d) ==
  [ c \in Callers |->
      IF Buying(c) /\ call[c].day <= d THEN tx[call[c].tx].amount ELSE 0 ]

\* Who waits for the daily limit executes; a purchase that passed it is no larger
\* than the largest; and no date lies ahead.
Checked ==
  /\ \A c \in Callers :
       /\ call[c].phase = "limit" => call[c].op = "Execute"
       /\ Buying(c) => tx[call[c].tx].amount <= LargestPurchase
       /\ call[c].day <= today
  /\ \A t \in Tx : tx[t].day <= today

\* What a day has spent and what it may yet spend are bounded together.
DayFits ==
  \A d \in Day :
    Sum(Spent(d), Tx) + Sum(Due(d), Callers)
      <= limits.daily + (Cardinality(Callers) - 1) * LargestPurchase

DailyInv == limits.daily > 0 => Checked /\ DayFits

\* Transactions are finitely many.
LEMMA TxFinite == IsFiniteSet(Tx)
  BY FS_Interval DEF Tx

\* The sum of the daily query, over all transactions instead of those executed.
LEMMA DailySpendIsSum ==
  ASSUME TxTypeOK, NEW d \in Day
  PROVE  DailySpend(d) = Sum(Spent(d), Tx)
<1> DEFINE A == { t \in Tx : tx[t].status = "executed" /\ tx[t].day = d }
           B == Tx \ A
           f == Spent(d)
<1>1. IsFiniteSet(A) /\ IsFiniteSet(B)
  BY TxFinite, FS_Subset
<1>2. PICK g : Adds(g, f, A)
  BY <1>1, AddsExists
<1>3. \A t \in A : f[t] = tx[t].amount
  BY DEF Spent
<1>4. \A h : h = [ s \in SUBSET A |-> IF s = {} THEN 0
                     ELSE tx[Chosen(s)].amount + h[s \ {Chosen(s)}] ]
             <=> Adds(h, f, A)
  <2> SUFFICES ASSUME NEW h
               PROVE  [ s \in SUBSET A |-> IF s = {} THEN 0
                          ELSE tx[Chosen(s)].amount + h[s \ {Chosen(s)}] ]
                      = [ s \in SUBSET A |-> IF s = {} THEN 0
                          ELSE f[Chosen(s)] + h[s \ {Chosen(s)}] ]
    BY DEF Adds
  <2> SUFFICES ASSUME NEW s \in SUBSET A, s # {} PROVE tx[Chosen(s)].amount = f[Chosen(s)]
    <3> HIDE DEF A, f
    <3> QED
      OBVIOUS
  <2>1. Chosen(s) \in A
    BY DEF Chosen
  <2> HIDE DEF A, f
  <2> QED
    BY <2>1, <1>3
<1>5. DailySpend(d) = g[A]
  <2>1. \A h : Adds(h, f, A) => h[A] = g[A]
    <3> HIDE DEF A, f
    <3> QED
      BY <1>1, <1>2, AddsAgree
  <2>2. DailySpend(d) = MapThenSumSet(LAMBDA t : tx[t].amount, A)
    BY DEF DailySpend
  <2> HIDE DEF A, f
  <2> QED
    BY <2>1, <2>2, <1>2, <1>4 DEF MapThenSumSet, MapThenFoldSet, Chosen
<1>6. Sum(f, A) = g[A]
  <2> HIDE DEF A, f
  <2> QED
    BY <1>1, <1>2, SumIs
<1>7. Sum(f, B) = 0
  <2>1. \A t \in B : f[t] = 0
    BY DEF Spent
  <2> HIDE DEF B, f
  <2> QED
    BY <1>1, <2>1, SumOfZeros
<1>8. Sum(f, Tx) = Sum(f, A) + Sum(f, B)
  <2>1. A \cup B = Tx /\ A \cap B = {}
    OBVIOUS
  <2>2. \A t \in Tx : f[t] \in Nat
    BY DEF Spent, TxTypeOK, TxRow
  <2> HIDE DEF A, B, f
  <2> QED
    BY <1>1, <2>1, <2>2, SumUnion
<1>9. Sum(f, A) \in Nat
  <2>1. \A t \in A : f[t] \in Nat
    BY DEF Spent, TxTypeOK, TxRow
  <2> HIDE DEF A, f
  <2> QED
    BY <1>1, <2>1, SumType
<1> QED
  BY <1>5, <1>6, <1>7, <1>8, <1>9

\* The bounds below are sums and products of natural numbers.
Purchases ==
  \A d \in Day : /\ \A t \in Tx : Spent(d)[t] \in Nat
                 /\ \A c \in Callers : Due(d)[c] \in Nat
                 /\ Sum(Spent(d), Tx) \in Nat /\ Sum(Due(d), Callers) \in Nat

\* What is spent and what is due are numbers,
LEMMA PurchaseTypes == TxTypeOK => Purchases
<1> SUFFICES ASSUME TxTypeOK PROVE Purchases
  OBVIOUS
<1>1. ASSUME NEW d \in Day, NEW t \in Tx PROVE Spent(d)[t] \in Nat
  BY DEF Spent, TxTypeOK, TxRow
<1>2. ASSUME NEW d \in Day, NEW c \in Callers PROVE Due(d)[c] \in Nat
  <2>1. CASE Buying(c)
    <3>1. call[c].tx \in Tx
      BY <2>1 DEF Buying, Writing, TxTypeOK
    <3> QED
      BY <3>1 DEF Due, TxTypeOK, TxRow
  <2>2. CASE ~Buying(c)
    BY <2>2 DEF Due
  <2> QED
    BY <2>1, <2>2
<1>3. ASSUME NEW d \in Day PROVE Sum(Spent(d), Tx) \in Nat /\ Sum(Due(d), Callers) \in Nat
  BY <1>1, <1>2, TxFinite, SumType
<1> QED
  BY <1>1, <1>2, <1>3 DEF Purchases

\* and are so in the next state.
LEMMA PurchaseTypesNext == TxTypeOK' => Purchases'
  BY PurchaseTypes, PTL

\* So are the limits; no purchase that is executed is above the daily one.
LEMMA LimitTypes ==
  ASSUME TxTypeOK
  PROVE  /\ limits.per \in Nat /\ limits.daily \in Nat /\ LargestPurchase \in Nat
         /\ LargestPurchase <= limits.daily /\ Cardinality(Callers) \in Nat
         /\ limits.daily + (Cardinality(Callers) - 1) * LargestPurchase \in Int
<1>1. limits.per \in Nat /\ limits.daily \in Nat
  BY DEF TxTypeOK
<1>2. LargestPurchase \in Nat /\ LargestPurchase <= limits.daily
  BY <1>1 DEF LargestPurchase
<1> QED
  BY <1>1, <1>2, FS_CardinalityType

\* A step that adds nothing to a day, nor to what may yet be added, keeps it.
LEMMA DayFitsLess ==
  ASSUME TxTypeOK, TxTypeOK', DayFits, UNCHANGED limits,
         \A d \in Day : /\ \A t \in Tx : Spent(d)'[t] <= Spent(d)[t]
                        /\ \A c \in Callers : Due(d)'[c] <= Due(d)[c]
  PROVE  DayFits'
<1> SUFFICES ASSUME NEW d \in Day
             PROVE  Sum(Spent(d)', Tx) + Sum(Due(d)', Callers)
                      <= limits.daily + (Cardinality(Callers) - 1) * LargestPurchase
  BY DEF DayFits, LargestPurchase
<1>1. /\ \A t \in Tx : Spent(d)[t] \in Nat /\ Spent(d)'[t] \in Nat
      /\ \A c \in Callers : Due(d)[c] \in Nat /\ Due(d)'[c] \in Nat
  BY PurchaseTypes, PurchaseTypesNext DEF Purchases
<1>2. Sum(Spent(d)', Tx) <= Sum(Spent(d), Tx)
  BY <1>1, TxFinite, SumMonotone
<1>3. Sum(Due(d)', Callers) <= Sum(Due(d), Callers)
  BY <1>1, SumMonotone
<1>4. /\ Sum(Spent(d), Tx) \in Nat /\ Sum(Due(d), Callers) \in Nat
      /\ Sum(Spent(d)', Tx) \in Nat /\ Sum(Due(d)', Callers) \in Nat
  BY <1>1, TxFinite, SumType
<1>5. Sum(Spent(d), Tx) + Sum(Due(d), Callers)
        <= limits.daily + (Cardinality(Callers) - 1) * LargestPurchase
  BY DEF DayFits
<1>6. limits.daily + (Cardinality(Callers) - 1) * LargestPurchase \in Int
  BY LimitTypes
<1> DEFINE most == limits.daily + (Cardinality(Callers) - 1) * LargestPurchase
<1> HIDE DEF most
<1> QED
  BY <1>2, <1>3, <1>4, <1>5, <1>6 DEF most

\* The amounts of what is still to be written stay, but for a row just prepared,
\* which no call that writes is about.
AmountsStay ==
  \A c \in Callers : Buying(c)' =>
    Buying(c) /\ call'[c] = call[c] /\ tx'[call[c].tx].amount = tx[call[c].tx].amount

\* A step after which no call writes that did not before, and that adds to no day.
LEMMA NothingBought ==
  ASSUME TxTypeOK, TxTypeOK', DailyInv, UNCHANGED limits, today <= today', AmountsStay,
         \A c \in Callers : /\ call'[c].phase = "limit" => call'[c].op = "Execute"
                            /\ call'[c].day <= today',
         \A t \in Tx : \/ tx'[t].status # "executed" /\ tx'[t].day <= today'
                       \/ tx'[t] = tx[t]
  PROVE  DailyInv'
<1> SUFFICES ASSUME limits.daily > 0 PROVE Checked' /\ DayFits'
  BY DEF DailyInv
<1>1. Checked /\ DayFits
  BY DEF DailyInv
<1>2. Checked'
  <2>1. ASSUME NEW c \in Callers, Buying(c)'
        PROVE  tx'[call'[c].tx].amount <= LargestPurchase'
    BY <1>1, <2>1 DEF Checked, AmountsStay, LargestPurchase
  <2>2. ASSUME NEW t \in Tx PROVE tx'[t].day <= today'
    <3>1. today \in Nat /\ today' \in Nat /\ tx[t].day \in Nat
      BY DEF TxTypeOK, Day, TxRow
    <3> QED
      BY <1>1, <3>1 DEF Checked
  <2> QED
    BY <2>1, <2>2 DEF Checked
<1>3. ASSUME NEW d \in Day, NEW t \in Tx PROVE Spent(d)'[t] <= Spent(d)[t]
  <2>1. tx[t].amount \in Nat
    BY DEF TxTypeOK, TxRow
  <2> QED
    BY <2>1 DEF Spent
<1>4. ASSUME NEW d \in Day, NEW c \in Callers PROVE Due(d)'[c] <= Due(d)[c]
  <2>1. Due(d)[c] \in Nat
    BY PurchaseTypes DEF Purchases
  <2>2. CASE Buying(c)'
    BY <2>1, <2>2 DEF Due, AmountsStay
  <2>3. CASE ~Buying(c)'
    BY <2>1, <2>3 DEF Due
  <2> QED
    BY <2>2, <2>3
<1>5. DayFits'
  BY <1>1, <1>3, <1>4, DayFitsLess
<1> QED
  BY <1>2, <1>5

\* The caller whose purchase has passed the limit of the day: the others together
\* may add one purchase each.
LEMMA OthersDue ==
  ASSUME TxTypeOK, Checked, NEW c \in Callers, NEW d \in Day
  PROVE  /\ Sum(Due(d), Callers \ {c}) <= (Cardinality(Callers) - 1) * LargestPurchase
         /\ Sum(Due(d), Callers \ {c}) \in Nat
         /\ Sum(Due(d), Callers) = Due(d)[c] + Sum(Due(d), Callers \ {c})
<1> DEFINE D == Callers \ {c}
<1>1. IsFiniteSet(D) /\ Cardinality(D) = Cardinality(Callers) - 1
  BY FS_RemoveElement
<1>2. \A e \in Callers : Due(d)[e] \in Nat /\ Due(d)[e] <= LargestPurchase
  <2>1. \A e \in Callers : Due(d)[e] \in Nat
    BY PurchaseTypes DEF Purchases
  <2>2. LargestPurchase \in Nat
    BY LimitTypes
  <2>3. \A e \in Callers : Due(d)[e] <= LargestPurchase
    BY <2>2 DEF Checked, Due
  <2> QED
    BY <2>1, <2>3
<1>3. Sum(Due(d), D) <= LargestPurchase * Cardinality(D)
  <2>1. \A e \in D : Due(d)[e] \in 0 .. LargestPurchase
    BY <1>2, LimitTypes
  <2> HIDE DEF D
  <2> QED
    BY <1>1, <2>1, LimitTypes, SumAtMost
<1>4. Sum(Due(d), D) \in Nat
  BY <1>1, <1>2, SumType
<1>5. Sum(Due(d), Callers) = Due(d)[c] + Sum(Due(d), D)
  BY <1>2, SumWithout
<1>6. LargestPurchase * Cardinality(D) = (Cardinality(Callers) - 1) * LargestPurchase
  BY <1>1, LimitTypes
<1> QED
  BY <1>3, <1>4, <1>5, <1>6

\* A call that passes the daily check adds its amount to what is due from that day on.
LEMMA CheckDailyFits ==
  ASSUME TxInv, TxTypeOK', Checked, DayFits, NEW c \in Callers, CheckDaily(c),
         WithinDaily(tx[call[c].tx].amount)
  PROVE  Checked' /\ DayFits'
<1> DEFINE a == tx[call[c].tx].amount
<1>0. TxTypeOK
  BY DEF TxInv
<1>1. /\ call[c].tx \in Tx /\ a \in Nat /\ today \in Day /\ today \in Nat
      /\ call[c].op = "Execute" /\ call[c].phase = "limit"
  BY <1>0 DEF CheckDaily, TxTypeOK, TxRow, Writing, Checked, Day
<1>2. /\ UNCHANGED <<limits, tx, today>> /\ \A e \in Callers \ {c} : call'[e] = call[e]
      /\ call'[c].phase = "write" /\ call'[c].op = "Execute"
      /\ call'[c].tx = call[c].tx /\ call'[c].day = today
  BY <1>0, <1>1 DEF CheckDaily, TxTypeOK, Call
<1>3. DailySpend(today) = Sum(Spent(today), Tx) /\ Sum(Spent(today), Tx) \in Nat
  BY <1>0, <1>1, DailySpendIsSum, PurchaseTypes DEF Purchases
<1>4. Sum(Spent(today), Tx) + a <= limits.daily
  BY <1>3 DEF WithinDaily
<1>5. a <= LargestPurchase
  <2>1. WithinPerTransaction(a)
    BY <1>1 DEF TxInv, ExecuteApproved, Writing
  <2> QED
    BY <1>0, <1>1, <1>3, <1>4, <2>1, LimitTypes DEF WithinPerTransaction, LargestPurchase
<1>6. Checked'
  BY <1>1, <1>2, <1>5 DEF Checked, Buying, LargestPurchase
<1>7. ASSUME NEW d \in Day
      PROVE  Sum(Spent(d)', Tx) + Sum(Due(d)', Callers)
               <= limits.daily + (Cardinality(Callers) - 1) * LargestPurchase
  <2>1. Spent(d)' = Spent(d)
    BY <1>2 DEF Spent
  <2>2. \A e \in Callers \ {c} : Due(d)'[e] = Due(d)[e] /\ Due(d)[e] \in Nat
    <3>1. \A e \in Callers \ {c} : Due(d)'[e] = Due(d)[e]
      BY <1>2 DEF Due, Buying
    <3> QED
      BY <1>0, <3>1, PurchaseTypes DEF Purchases
  <2>3. IsFiniteSet(Callers \ {c})
    BY FS_RemoveElement
  <2>4. Sum(Due(d)', Callers \ {c}) = Sum(Due(d), Callers \ {c})
    BY <2>2, <2>3, SumSame
  <2>5. Sum(Due(d)', Callers) = Due(d)'[c] + Sum(Due(d)', Callers \ {c})
    BY PurchaseTypesNext, SumWithout DEF Purchases
  <2>6. /\ Sum(Due(d), Callers \ {c}) <= (Cardinality(Callers) - 1) * LargestPurchase
        /\ Sum(Due(d), Callers \ {c}) \in Nat
        /\ Sum(Due(d), Callers) = Due(d)[c] + Sum(Due(d), Callers \ {c})
    BY <1>0, OthersDue
  <2> DEFINE rest == (Cardinality(Callers) - 1) * LargestPurchase
             spent == Sum(Spent(d), Tx)
             others == Sum(Due(d), Callers \ {c})
  <2>7. rest \in Int /\ spent \in Nat /\ limits.daily \in Nat /\ d \in Int
    BY <1>0, LimitTypes, PurchaseTypes DEF Purchases, Day
  <2>8. CASE d < today
    <3>1. Due(d)'[c] = 0 /\ Due(d)[c] = 0
      BY <1>1, <1>2, <2>8, <2>7 DEF Due, Buying
    <3>2. spent + Sum(Due(d), Callers) <= limits.daily + rest
      BY DEF DayFits
    <3> HIDE DEF rest, spent, others
    <3> QED
      BY <2>1, <2>4, <2>5, <2>6, <3>1, <3>2 DEF spent, others, rest
  <2>9. ASSUME d >= today, spent + a <= limits.daily
        PROVE  Sum(Spent(d)', Tx) + Sum(Due(d)', Callers) <= limits.daily + rest
    <3>1. Due(d)'[c] = a
      BY <1>1, <1>2, <2>9, <2>7 DEF Due, Buying
    <3>2. Sum(Due(d)', Callers) = a + others
      BY <2>4, <2>5, <3>1
    <3>3. others <= rest /\ others \in Nat
      BY <2>6
    <3>4. Sum(Spent(d)', Tx) = spent
      BY <2>1
    <3> HIDE DEF rest, spent, others, a
    <3> QED
      BY <1>1, <2>7, <2>9, <3>2, <3>3, <3>4
  <2>10. CASE d = today
    BY <1>4, <1>1, <2>10, <2>9
  <2>11. CASE d > today
    <3>1. \A t \in Tx : Spent(d)[t] = 0
      <4>1. \A t \in Tx : tx[t].day \in Int
        BY <1>0 DEF TxTypeOK, TxRow, Day
      <4> QED
        BY <1>1, <2>7, <2>11, <4>1 DEF Spent, Checked
    <3>2. spent = 0
      BY <3>1, TxFinite, SumOfZeros
    <3> QED
      BY <1>0, <1>1, <1>5, <2>7, <2>9, <2>11, <3>2, LimitTypes
  <2> QED
    BY <1>1, <2>7, <2>8, <2>10, <2>11
<1> QED
  BY <1>2, <1>6, <1>7 DEF DayFits, LargestPurchase

\* A purchase that is written moves its amount from what is due to what is spent, whatever its date.
LEMMA WriteFits ==
  ASSUME TxInv, TxTypeOK', Checked, DayFits, NEW c \in Callers, NEW b \in call[c].day .. today,
         Sets(c, "Execute", [ tx[call[c].tx] EXCEPT !.status = "executed", !.day = b ])
  PROVE  Checked' /\ DayFits'
<1> DEFINE t == call[c].tx
           a == tx[t].amount
<1>0. TxTypeOK
  BY DEF TxInv
<1>1. /\ Buying(c) /\ t \in Tx /\ a \in Nat /\ call[c].day \in Day /\ today \in Day /\ b \in Day
      /\ b <= today /\ call[c].day <= b
  <2>1. Buying(c) /\ t \in Tx
    BY <1>0 DEF Sets, Buying, TxTypeOK, Writing
  <2>2. call[c].day \in Day /\ today \in Day /\ a \in Nat
    BY <1>0, <2>1 DEF TxTypeOK, Call, TxRow
  <2> QED
    BY <2>1, <2>2 DEF Day
<1>2. /\ UNCHANGED <<limits, today>> /\ call'[c].phase = "audit"
      /\ call'[c].day = 1 /\ \A e \in Callers \ {c} : call'[e] = call[e]
  BY <1>0 DEF Sets, ToAudit, Idle, TxTypeOK
<1>3. /\ tx'[t].status = "executed" /\ tx'[t].day = b /\ tx'[t].amount = a
      /\ \A u \in Tx : u # t => tx'[u] = tx[u]
  BY <1>0, <1>1 DEF Sets, TxTypeOK, TxRow
<1>4. \A e \in Callers : Buying(e)' => e # c /\ Buying(e) /\ call'[e] = call[e]
        /\ call[e].tx \in Tx /\ tx'[call[e].tx].amount = tx[call[e].tx].amount
  BY <1>0, <1>2, <1>3 DEF Buying, TxTypeOK, Writing
<1>5. Checked'
  BY <1>1, <1>2, <1>3, <1>4 DEF Checked, LargestPurchase, Day
<1>6. ASSUME NEW d \in Day
      PROVE  Sum(Spent(d)', Tx) + Sum(Due(d)', Callers)
               <= limits.daily + (Cardinality(Callers) - 1) * LargestPurchase
  <2> DEFINE most == limits.daily + (Cardinality(Callers) - 1) * LargestPurchase
             old == Spent(d)
             new == Spent(d)'
  <2>1. /\ most \in Int /\ \A u \in Tx : old[u] \in Nat /\ new[u] \in Nat
        /\ \A e \in Callers : Due(d)[e] \in Nat /\ Due(d)'[e] \in Nat
        /\ Sum(old, Tx) \in Nat /\ Sum(new, Tx) \in Nat
    BY <1>0, LimitTypes, PurchaseTypes, PurchaseTypesNext DEF Purchases
  <2>2. Sum(old, Tx) + Sum(Due(d), Callers) <= most
    BY DEF DayFits
  <2>3. \A u \in Tx : u # t => new[u] = old[u]
    BY <1>3 DEF Spent
  <2>4. \A e \in Callers : e # c => Due(d)'[e] = Due(d)[e]
    BY <1>2, <1>3, <1>4 DEF Due, Buying
  <2>5. Due(d)'[c] = 0
    BY <1>2 DEF Due, Buying
  <2>6. IsFiniteSet(Tx \ {t}) /\ IsFiniteSet(Callers \ {c})
    BY TxFinite, FS_RemoveElement
  <2>7. Sum(new, Tx \ {t}) = Sum(old, Tx \ {t}) /\ Sum(old, Tx \ {t}) \in Nat
    <3> HIDE DEF old, new, t
    <3> QED
      BY <2>1, <2>3, <2>6, SumSame, SumType
  <2>8. Sum(Due(d)', Callers \ {c}) = Sum(Due(d), Callers \ {c})
        /\ Sum(Due(d), Callers \ {c}) \in Nat
    BY <2>1, <2>4, <2>6, SumSame, SumType
  <2>9. Sum(new, Tx) = new[t] + Sum(new, Tx \ {t}) /\ Sum(old, Tx) = old[t] + Sum(old, Tx \ {t})
    <3> HIDE DEF old, new, t
    <3> QED
      BY <1>1, <2>1, TxFinite, SumWithout
  <2>10. /\ Sum(Due(d)', Callers) = Due(d)'[c] + Sum(Due(d)', Callers \ {c})
         /\ Sum(Due(d), Callers) = Due(d)[c] + Sum(Due(d), Callers \ {c})
    BY <2>1, SumWithout
  <2>11. new[t] <= Due(d)[c]
    <3>1. CASE b = d
      BY <1>1, <1>3, <3>1 DEF Spent, Due
    <3>2. CASE b # d
      BY <1>1, <1>3, <2>1, <3>2 DEF Spent
    <3> QED
      BY <3>1, <3>2
  <2>12. old[t] \in Nat /\ new[t] \in Nat /\ Due(d)[c] \in Nat
    BY <1>1, <2>1
  <2> HIDE DEF old, new, most, t
  <2>13. Sum(new, Tx) + Sum(Due(d)', Callers) <= Sum(old, Tx) + Sum(Due(d), Callers)
    BY <2>5, <2>7, <2>8, <2>9, <2>10, <2>11, <2>12
  <2>14. Sum(new, Tx) + Sum(Due(d)', Callers) \in Nat /\ Sum(old, Tx) + Sum(Due(d), Callers) \in Nat
    BY <2>5, <2>7, <2>8, <2>9, <2>10, <2>12
  <2>15. Sum(new, Tx) + Sum(Due(d)', Callers) <= most
    BY <2>1, <2>2, <2>13, <2>14
  <2> QED
    BY <2>15 DEF new, most
<1> QED
  BY <1>2, <1>5, <1>6 DEF DayFits, LargestPurchase

\* Nothing is spent at first.
LEMMA DailyInvInit == TxInit => DailyInv
<1> SUFFICES ASSUME TxInit PROVE Checked /\ DayFits
  BY DEF DailyInv
<1>1. TxTypeOK
  BY TxInitInv DEF TxInv
<1>2. Checked
  BY DEF TxInit, Checked, Buying, Idle, NoTx
<1>3. ASSUME NEW d \in Day
      PROVE  Sum(Spent(d), Tx) = 0 /\ Sum(Due(d), Callers) = 0
  <2>1. /\ \A t \in Tx : Spent(d)[t] = 0
        /\ \A c \in Callers : Due(d)[c] = 0
    BY DEF TxInit, Spent, Due, Buying, Idle, NoTx
  <2> QED
    BY <2>1, TxFinite, SumOfZeros
<1>4. 0 <= limits.daily + (Cardinality(Callers) - 1) * LargestPurchase
  <2> DEFINE N == Cardinality(Callers)
             L == LargestPurchase
  <2>1. N \in Nat /\ L \in Nat /\ L <= limits.daily /\ limits.daily \in Nat
    BY <1>1, LimitTypes
  <2> HIDE DEF N, L
  <2>2. (N - 1) * L = N * L - L /\ N * L \in Nat
    BY <2>1
  <2> QED
    BY <2>1, <2>2 DEF N, L
<1>5. DayFits
  BY <1>3, <1>4 DEF DayFits
<1> QED
  BY <1>2, <1>5

\* All steps together; a midnight opens a day nothing has been spent on.
LEMMA DailyInvStep ==
  ASSUME TxInv, DailyInv, [TxNext]_vars
  PROVE  DailyInv'
<1> SUFFICES ASSUME limits.daily > 0 PROVE DailyInv'
  <2>1. limits' = limits
    BY DEF TxNext, vars, Midnight, CallerNext, Prepare, Confirm, Cancel, Execute, Reads, CheckDaily,
       Write, Sets, Audit, StatementFails
  <2> QED
    BY <2>1 DEF DailyInv
<1>0. TxTypeOK /\ TxTypeOK' /\ Checked /\ DayFits
  BY TxTypeStep DEF TxInv, DailyInv
<1>1. today \in Nat /\ \A c \in Callers : call[c].day <= today /\ call[c].day \in Nat
  BY <1>0 DEF TxTypeOK, Call, Day, Checked
<1>2. \A t \in Tx : tx[t].day <= today /\ tx[t].day \in Nat
  BY <1>0 DEF TxTypeOK, TxRow, Day, Checked
<1>3. \A c \in Callers : call[c].phase = "limit" => call[c].op = "Execute"
  BY <1>0 DEF Checked
<1>4. CASE UNCHANGED vars
  BY <1>0, <1>1, <1>3, <1>4, NothingBought DEF vars, AmountsStay, Buying
<1>5. CASE Midnight
  BY <1>0, <1>1, <1>3, <1>5, NothingBought DEF Midnight, AmountsStay, Buying
<1>6. ASSUME NEW c \in Callers, CallerNext(c) PROVE DailyInv'
  <2>1. ASSUME NEW t \in Tx, NEW a \in Amounts, Prepare(c, t, a) PROVE DailyInv'
    <3>1. /\ tx[t].status = "none" /\ UNCHANGED <<limits, today>>
          /\ tx'[t].status = "pending" /\ tx'[t].day = 0
          /\ \A u \in Tx : u # t => tx'[u] = tx[u]
      BY <1>0, <2>1 DEF Prepare, NoTx, TxTypeOK, TxRow
    <3>2. /\ call'[c].phase = "audit" /\ call'[c].day = 1
          /\ \A e \in Callers : e # c => call'[e] = call[e]
      BY <1>0, <2>1 DEF Prepare, ToAudit, Idle, TxTypeOK
    <3>3. \A e \in Callers : Buying(e)' => Buying(e) /\ call'[e] = call[e] /\ call[e].tx # t
                                             /\ call[e].tx \in Tx
      BY <1>0, <3>1, <3>2 DEF Buying, TxTypeOK, Writing
    <3>4. AmountsStay
      BY <3>1, <3>3 DEF AmountsStay
    <3>5. \A e \in Callers : /\ call'[e].phase = "limit" => call'[e].op = "Execute"
                             /\ call'[e].day <= today'
      BY <1>0, <1>1, <1>3, <3>1, <3>2 DEF TxTypeOK, Day
    <3>6. today <= today' /\ \A u \in Tx : \/ tx'[u].status # "executed" /\ tx'[u].day <= today'
                                           \/ tx'[u] = tx[u]
      BY <1>1, <3>1
    <3> QED
      BY <1>0, <3>1, <3>4, <3>5, <3>6, NothingBought
  <2>2. ASSUME NEW t \in Tx, Confirm(c, t) \/ Cancel(c, t) \/ Execute(c, t) PROVE DailyInv'
    <3>1. /\ UNCHANGED <<limits, tx, today>> /\ call'[c].day = today
          /\ call'[c].phase = "limit" => call'[c].op = "Execute"
          /\ ~Buying(c)'
          /\ \A e \in Callers : e # c => call'[e] = call[e]
      <4>1. ASSUME Confirm(c, t) \/ Cancel(c, t)
            PROVE  call'[c].phase = "write" /\ call'[c].op # "Execute"
        BY <1>0, <4>1 DEF Confirm, Cancel, Reads, TxTypeOK
      <4>2. ASSUME Execute(c, t)
            PROVE  call'[c].phase = "limit" /\ call'[c].op = "Execute"
        BY <1>0, <4>2 DEF Execute, Reads, TxTypeOK
      <4> QED
        BY <1>0, <2>2, <4>1, <4>2 DEF Confirm, Cancel, Execute, Reads, TxTypeOK, Buying
    <3>2. AmountsStay
      BY <3>1 DEF AmountsStay, Buying
    <3> QED
      BY <1>0, <1>1, <1>3, <3>1, <3>2, NothingBought
  <2>3. CASE CheckDaily(c)
    <3>1. CASE WithinDaily(tx[call[c].tx].amount)
      BY <1>0, <2>3, <3>1, CheckDailyFits DEF DailyInv
    <3>2. CASE ~WithinDaily(tx[call[c].tx].amount)
      <4>1. call' = [ call EXCEPT ![c] = Idle ] /\ UNCHANGED <<limits, tx, today>>
        BY <2>3, <3>2 DEF CheckDaily
      <4>2. \A e \in Callers : call'[e] = call[e] \/ (call'[e].phase = "idle" /\ call'[e].day = 1)
        BY <1>0, <4>1 DEF Idle, TxTypeOK
      <4>3. AmountsStay
        BY <4>1, <4>2 DEF AmountsStay, Buying
      <4> QED
        BY <1>0, <1>1, <1>3, <4>1, <4>2, <4>3, NothingBought DEF TxTypeOK, Day
    <3> QED
      BY <3>1, <3>2
  <2>4. ASSUME NEW b \in call[c].day .. today,
               Sets(c, "Execute", [ tx[call[c].tx] EXCEPT !.status = "executed", !.day = b ])
        PROVE  DailyInv'
    BY <1>0, <2>4, WriteFits DEF DailyInv
  <2>5. ASSUME NEW op \in {"Confirm", "Cancel"}, NEW r,
               Sets(c, op, r), r.status # "executed",
               r.amount = tx[call[c].tx].amount, r.day = tx[call[c].tx].day
        PROVE  DailyInv'
    <3> DEFINE t == call[c].tx
    <3>1. /\ t \in Tx /\ UNCHANGED <<limits, today>> /\ tx'[t] = r
          /\ \A u \in Tx : u # t => tx'[u] = tx[u]
      BY <1>0, <2>5 DEF Sets, TxTypeOK, Writing
    <3>2. /\ call'[c].phase = "audit" /\ call'[c].day = 1
          /\ \A e \in Callers : e # c => call'[e] = call[e]
      BY <1>0, <2>5 DEF Sets, ToAudit, Idle, TxTypeOK
    <3>3. \A u \in Tx : tx'[u].amount = tx[u].amount /\ tx'[u].day = tx[u].day
      BY <2>5, <3>1
    <3>4. \A e \in Callers : Buying(e)' => Buying(e) /\ call'[e] = call[e] /\ call[e].tx \in Tx
      BY <1>0, <3>2 DEF Buying, TxTypeOK, Writing
    <3>5. AmountsStay
      BY <3>3, <3>4 DEF AmountsStay
    <3>6. \A e \in Callers : /\ call'[e].phase = "limit" => call'[e].op = "Execute"
                             /\ call'[e].day <= today'
      BY <1>0, <1>1, <1>3, <3>1, <3>2 DEF TxTypeOK, Day
    <3>7. today <= today' /\ \A u \in Tx : \/ tx'[u].status # "executed" /\ tx'[u].day <= today'
                                           \/ tx'[u] = tx[u]
      BY <1>1, <1>2, <2>5, <3>1, <3>3
    <3> QED
      BY <1>0, <3>1, <3>5, <3>6, <3>7, NothingBought
  <2>6. CASE Write(c)
    <3> DEFINE old == tx[call[c].tx]
    <3>1. old \in TxRow /\ call[c].phase = "write"
      BY <1>0, <2>6 DEF Write, Sets, TxTypeOK, Writing
    <3>2. CASE Sets(c, "Confirm", [ old EXCEPT !.status = "confirmed", !.confirmed = TRUE ])
      <4> DEFINE r == [ old EXCEPT !.status = "confirmed", !.confirmed = TRUE ]
      <4>1. r.status # "executed" /\ r.amount = old.amount /\ r.day = old.day
        BY <3>1 DEF TxRow
      <4> HIDE DEF r
      <4> QED
        BY <2>5, <3>2, <4>1 DEF r
    <3>3. CASE Sets(c, "Cancel", [ old EXCEPT !.status = "cancelled" ])
      <4> DEFINE r == [ old EXCEPT !.status = "cancelled" ]
      <4>1. r.status # "executed" /\ r.amount = old.amount /\ r.day = old.day
        BY <3>1 DEF TxRow
      <4> HIDE DEF r
      <4> QED
        BY <2>5, <3>3, <4>1 DEF r
    <3> QED
      BY <2>4, <2>6, <3>2, <3>3 DEF Write
  <2>7. CASE Audit(c) \/ StatementFails(c)
    <3>1. /\ UNCHANGED <<limits, tx, today>>
          /\ \A e \in Callers : call'[e] = call[e] \/ (call'[e].phase = "idle" /\ call'[e].day = 1)
      BY <1>0, <2>7 DEF Audit, StatementFails, Idle, TxTypeOK
    <3>2. AmountsStay
      BY <3>1 DEF AmountsStay, Buying
    <3> QED
      BY <1>0, <1>1, <1>3, <3>1, <3>2, NothingBought DEF TxTypeOK, Day
  <2> QED
    BY <1>6, <2>1, <2>2, <2>3, <2>6, <2>7 DEF CallerNext
<1> QED
  BY <1>4, <1>5, <1>6 DEF TxNext

\* A day is overspent by at most one purchase for every caller beyond the first,
\* for any number of callers, purchases and days.
THEOREM OverrunCorrect == TxSpec => []DailyOverrunBounded
<1>1. TxInv /\ DailyInv => DailyOverrunBounded
  <2> SUFFICES ASSUME TxInv, DailyInv, limits.daily > 0, NEW d \in Day
               PROVE  DailySpend(d)
                        <= limits.daily + (Cardinality(Callers) - 1) * LargestPurchase
    BY DEF DailyOverrunBounded
  <2>1. TxTypeOK /\ DayFits
    BY DEF TxInv, DailyInv
  <2>2. DailySpend(d) = Sum(Spent(d), Tx)
    BY <2>1, DailySpendIsSum
  <2>3. Sum(Spent(d), Tx) \in Nat /\ Sum(Due(d), Callers) \in Nat
    BY <2>1, PurchaseTypes DEF Purchases
  <2>4. limits.daily + (Cardinality(Callers) - 1) * LargestPurchase \in Int
    BY <2>1, LimitTypes
  <2>5. Sum(Spent(d), Tx) + Sum(Due(d), Callers)
          <= limits.daily + (Cardinality(Callers) - 1) * LargestPurchase
    BY <2>1 DEF DayFits
  <2> QED
    BY <2>2, <2>3, <2>4, <2>5
<1>2. TxInit => TxInv /\ DailyInv
  BY TxInitInv, DailyInvInit
<1>3. TxInv /\ DailyInv /\ [TxNext]_vars => (TxInv /\ DailyInv)'
  BY TxInvStep, DailyInvStep
<1> QED
  BY <1>1, <1>2, <1>3, PTL DEF TxSpec
=============================================================================

-------------------------- MODULE FutureGraphProofs --------------------------
(***************************************************************************)
(* For any records, supports, contents and locks: what is locked stays,    *)
(* new content rests on the inputs, no review takes the last rule of a     *)
(* Mapping away, a Project is stuck only by its metadata or by a deletion, *)
(* and otherwise the plan of a retirement takes along enough.              *)
(***************************************************************************)
EXTENDS FutureGraph, FiniteSetTheorems, TLAPS

-----------------------------------------------------------------------------
(* Numbers. *)

\* Natural numbers are well founded: what some number does, a least one does.
LEMMA LeastNumber ==
    ASSUME NEW T, T \subseteq Nat, T # {}
    PROVE  \E x \in T : \A y \in T : x <= y
  <1> DEFINE R == OpToRel(<, Nat)
  <1>1. IsWellFoundedOn(R, Nat)
    BY NatLessThanWellFounded
  <1>2. \A x, y \in Nat : y < x => <<y, x>> \in R
    BY DEF OpToRel
  <1> HIDE DEF R
  <1>3. PICK x \in T : \A y \in T : ~(<<y, x>> \in R)
    BY <1>1, WFMin
  <1>4. ASSUME NEW y \in T
        PROVE  x <= y
    <2>1. x \in Nat /\ y \in Nat
      OBVIOUS
    <2>2. ~(y < x)
      BY <1>2, <1>3, <2>1
    <2>3. QED
      BY <2>1, <2>2
  <1>5. QED
    BY <1>4

\* Induction up to N, for a set of numbers.
LEMMA UpTo ==
    ASSUME NEW N \in Nat, NEW P, 0 \in P, \A n \in 0 .. N : n \in P /\ n < N => n + 1 \in P
    PROVE  \A n \in 0 .. N : n \in P
  <1> DEFINE T == {n \in 0 .. N : n \notin P}
  <1> SUFFICES ASSUME T # {}
               PROVE  FALSE
    OBVIOUS
  <1>1. T \subseteq Nat
    OBVIOUS
  <1>2. PICK n \in T : \A m \in T : n <= m
    BY <1>1, LeastNumber
  <1>3. n \in 1 .. N
    BY <1>2
  <1>4. n - 1 \in 0 .. N /\ n - 1 < N /\ (n - 1) + 1 = n /\ ~(n <= n - 1)
    BY <1>3
  <1>5. n - 1 \in P
    BY <1>2, <1>4
  <1>6. QED
    BY <1>2, <1>4, <1>5

\* f repeats W from x on, N times, as long as it stays in S.
Repeats(f, W, x, N, S) ==
  f[0] = x /\ \A n \in 1 .. N : f[n - 1] \in S => f[n] = W[f[n - 1]]

\* W adds to the subsets of U.
Growing(W, U) == W \in [SUBSET U -> SUBSET U] /\ \A p \in SUBSET U : p \subseteq W[p]

\* The closure of x under W, within U.
Closure(z, W, x, U) == z \subseteq U /\ x \subseteq z /\ W[z] = z

\* Whatever is done to a member of a set, it can be done any number of times.
LEMMA Iterates ==
    ASSUME NEW S, NEW W, W \in [S -> S], NEW x \in S, NEW N \in Nat
    PROVE  \E f : f \in [0 .. N -> S] /\ Repeats(f, W, x, N, S)
  <1> DEFINE P == {k \in 0 .. N : \E f \in [0 .. k -> S] :
                     f[0] = x /\ \A n \in 1 .. k : f[n] = W[f[n - 1]]}
  <1>1. 0 \in P
    <2> DEFINE g == [n \in 0 .. 0 |-> x]
    <2>1. g \in [0 .. 0 -> S] /\ g[0] = x /\ 1 .. 0 = {}
      OBVIOUS
    <2> HIDE DEF g
    <2>2. QED
      BY <2>1
  <1>2. ASSUME NEW k \in 0 .. N, k \in P, k < N
        PROVE  k + 1 \in P
    <2>1. PICK f \in [0 .. k -> S] : f[0] = x /\ \A n \in 1 .. k : f[n] = W[f[n - 1]]
      BY <1>2
    <2> DEFINE g == [n \in 0 .. k + 1 |-> IF n = k + 1 THEN W[f[k]] ELSE f[n]]
    <2>2. W[f[k]] \in S
      OBVIOUS
    <2>3. g \in [0 .. k + 1 -> S]
      BY <2>2
    <2>4. g[0] = x /\ \A n \in 1 .. k + 1 : g[n] = W[g[n - 1]]
      BY <2>1
    <2>5. k + 1 \in 0 .. N
      BY <1>2
    <2> HIDE DEF g
    <2>6. QED
      BY <2>3, <2>4, <2>5
  <1> HIDE DEF P
  <1>3. N \in P
    BY <1>1, <1>2, UpTo
  <1>4. PICK f \in [0 .. N -> S] : f[0] = x /\ \A n \in 1 .. N : f[n] = W[f[n - 1]]
    BY <1>3 DEF P
  <1>5. Repeats(f, W, x, N, S)
    BY <1>4 DEF Repeats
  <1>6. QED
    BY <1>4, <1>5

\* A set that only grows within a finite one is closed after as many rounds as
\* the finite one has members.
LEMMA GrowsToClosure ==
    ASSUME NEW U, IsFiniteSet(U), NEW N \in Nat, Cardinality(U) <= N,
           NEW W, Growing(W, U), NEW S, S = SUBSET U, NEW x, x \in S,
           NEW f, Repeats(f, W, x, N, S)
    PROVE  Closure(f[N], W, x, U)
  <1> DEFINE P == {n \in 0 .. N : /\ f[n] \in SUBSET U /\ x \subseteq f[n]
                                  /\ W[f[n]] = f[n] \/ Cardinality(f[n]) >= n}
  <1>0. /\ W \in [SUBSET U -> SUBSET U] /\ \A p \in SUBSET U : p \subseteq W[p]
        /\ f[0] = x /\ \A n \in 1 .. N : f[n - 1] \in SUBSET U => f[n] = W[f[n - 1]]
    BY DEF Growing, Repeats
  <1>1. 0 \in P
    <2>1. Cardinality(f[0]) \in Nat
      BY <1>0, FS_Subset, FS_CardinalityType
    <2>2. QED
      BY <1>0, <2>1
  <1>2. ASSUME NEW n \in 0 .. N, n \in P, n < N
        PROVE  n + 1 \in P
    <2>1. n + 1 \in 1 .. N /\ (n + 1) - 1 = n /\ n + 1 \in 0 .. N
      BY <1>2
    <2>2. f[n] \in SUBSET U /\ x \subseteq f[n] /\ (W[f[n]] = f[n] \/ Cardinality(f[n]) >= n)
      BY <1>2
    <2>3. f[n + 1] = W[f[n]]
      BY <1>0, <2>1, <2>2
    <2>4. f[n + 1] \in SUBSET U /\ f[n] \subseteq f[n + 1]
      BY <1>0, <2>2, <2>3
    <2>5. CASE W[f[n]] = f[n]
      <3>1. f[n + 1] = f[n]
        BY <2>3, <2>5
      <3>2. QED
        BY <2>1, <2>2, <2>5, <3>1
    <2>6. CASE W[f[n]] # f[n]
      <3>1. IsFiniteSet(f[n + 1]) /\ f[n] # f[n + 1]
        BY <2>3, <2>4, <2>6, FS_Subset
      <3>2. /\ Cardinality(f[n]) \in Nat /\ Cardinality(f[n + 1]) \in Nat
            /\ Cardinality(f[n]) < Cardinality(f[n + 1])
        <4>1. /\ IsFiniteSet(f[n]) /\ Cardinality(f[n]) <= Cardinality(f[n + 1])
              /\ Cardinality(f[n]) = Cardinality(f[n + 1]) => f[n] = f[n + 1]
          BY <2>4, <3>1, FS_Subset
        <4>2. Cardinality(f[n]) \in Nat /\ Cardinality(f[n + 1]) \in Nat
          BY <3>1, <4>1, FS_CardinalityType
        <4>3. QED
          BY <3>1, <4>1, <4>2
      <3>3. Cardinality(f[n + 1]) >= n + 1
        BY <2>2, <2>6, <3>2
      <3>4. QED
        BY <2>1, <2>2, <2>4, <3>3
    <2>7. QED
      BY <2>5, <2>6
  <1> HIDE DEF P
  <1>3. N \in P
    BY <1>1, <1>2, UpTo
  <1>4. /\ f[N] \in SUBSET U /\ x \subseteq f[N]
        /\ W[f[N]] = f[N] \/ Cardinality(f[N]) >= N
    BY <1>3 DEF P
  <1>5. CASE Cardinality(f[N]) >= N
    <2>1. /\ Cardinality(f[N]) <= Cardinality(U)
          /\ Cardinality(f[N]) = Cardinality(U) => f[N] = U
      BY <1>4, FS_Subset
    <2>2. Cardinality(f[N]) \in Nat /\ Cardinality(U) \in Nat
      BY <1>4, FS_Subset, FS_CardinalityType
    <2>3. f[N] = U
      BY <1>5, <2>1, <2>2
    <2>4. W[U] \in SUBSET U /\ U \subseteq W[U]
      BY <1>0
    <2>5. QED
      BY <1>4, <2>3, <2>4 DEF Closure
  <1>6. QED
    BY <1>4, <1>5 DEF Closure

-----------------------------------------------------------------------------
(* Graphs. *)

\* A finite partial function from keys to their records.
Graph(g) ==
  /\ DOMAIN g \subseteq Keys /\ IsFiniteSet(DOMAIN g)
  /\ g = [k \in DOMAIN g |-> g[k]]
  /\ \A k \in DOMAIN g : g[k] \in RecordsOf(k)

TypeOK == Graph(saved) /\ catalog \in Catalogs

\* What a record of a graph is made of.
LEMMA RecordParts ==
    ASSUME NEW k, NEW r \in RecordsOf(k)
    PROVE  /\ r.active \in BOOLEAN /\ r.locked \in LocksOf[k] /\ r.content \in ContentsOf[k]
           /\ DOMAIN r.sources \subseteq Supports[k]
           /\ r.sources = [s \in DOMAIN r.sources |-> r.sources[s]]
           /\ \A s \in DOMAIN r.sources : r.sources[s] \in StatesOf[k]
           /\ r = [active |-> r.active, locked |-> r.locked, content |-> r.content,
                   sources |-> r.sources]
  BY DEF RecordsOf

\* A graph over a graph is a graph.
LEMMA OverGraph ==
    ASSUME NEW f, NEW g, Graph(f), Graph(g)
    PROVE  Graph(Over(f, g))
  <1> DEFINE h == Over(f, g)
  <1>1. /\ DOMAIN h = DOMAIN f \cup DOMAIN g /\ h = [k \in DOMAIN h |-> h[k]]
        /\ \A k \in DOMAIN f : h[k] = f[k]
        /\ \A k \in DOMAIN g \ DOMAIN f : h[k] = g[k]
    BY DEF Over
  <1> HIDE DEF h
  <1>2. /\ DOMAIN f \subseteq Keys /\ IsFiniteSet(DOMAIN f)
        /\ DOMAIN g \subseteq Keys /\ IsFiniteSet(DOMAIN g)
        /\ \A k \in DOMAIN f : f[k] \in RecordsOf(k)
        /\ \A k \in DOMAIN g : g[k] \in RecordsOf(k)
    BY DEF Graph
  <1>3. IsFiniteSet(DOMAIN f \cup DOMAIN g)
    BY <1>2, FS_Union
  <1>4. \A k \in DOMAIN h : h[k] \in RecordsOf(k)
    BY <1>1, <1>2
  <1>5. Graph(h)
    BY <1>1, <1>2, <1>3, <1>4 DEF Graph
  <1>6. QED
    BY <1>5 DEF h

\* A record over itself: supports that are all stated again.
LEMMA OverAll ==
    ASSUME NEW f, NEW g, f = [s \in DOMAIN f |-> f[s]], DOMAIN g \subseteq DOMAIN f
    PROVE  Over(f, g) = f
  BY DEF Over

\* A draft that carries the supports its records have is what Apply makes of it.
LEMMA MaterializedIsFuture ==
    ASSUME NEW g, NEW draft, Graph(g), Graph(draft),
           \A k \in DOMAIN draft \cap DOMAIN g :
             DOMAIN g[k].sources \subseteq DOMAIN draft[k].sources
    PROVE  Materialized(g, draft) = Future(g, draft)
  <1> DEFINE made == [k \in DOMAIN draft |->
                        IF k \in DOMAIN g THEN Upserted(g[k], draft[k]) ELSE draft[k]]
  <1>1. ASSUME NEW k \in DOMAIN draft, k \in DOMAIN g
        PROVE  Upserted(g[k], draft[k]) = draft[k]
    <2>1. draft[k] \in RecordsOf(k)
      BY DEF Graph
    <2>2. Over(draft[k].sources, g[k].sources) = draft[k].sources
      BY <1>1, <2>1, RecordParts, OverAll
    <2>3. Upserted(g[k], draft[k]) = [draft[k] EXCEPT !.sources = draft[k].sources]
      BY <2>2 DEF Upserted
    <2>4. QED
      BY <2>1, <2>3 DEF RecordsOf
  <1>2. made = draft
    BY <1>1 DEF Graph
  <1>3. QED
    BY <1>2 DEF Materialized, Future

-----------------------------------------------------------------------------
(* The plan of a review or a deletion. *)

\* A round adds to the plan, and only records that can be reviewed.
LEMMA WidenedGrows ==
    ASSUME TypeOK, NEW a, NEW p \in SUBSET (Reviewable \cap DOMAIN saved)
    PROVE  /\ p \subseteq Widened(p, a)
           /\ Widened(p, a) \subseteq Reviewable \cap DOMAIN saved
           /\ a # "reactivate" /\ p \subseteq Considered(a) => Widened(p, a) \subseteq Considered(a)
  <1>1. Considered(a) \subseteq DOMAIN saved /\ DOMAIN saved \subseteq Keys
    BY DEF Considered, ActiveIn, TypeOK, Graph
  <1>2. BundleOf(p, a) \subseteq Reviewable \cap Considered(a)
    BY <1>1 DEF BundleOf, Reviewable
  <1>3. OrphanedGroups(p, a) \subseteq Reviewable \cap Considered(a)
    BY <1>1 DEF OrphanedGroups, Reviewable
  <1>4. QED
    BY <1>1, <1>2, <1>3 DEF Widened

\* The plan holds what was selected, stays within any set that every round
\* stays within, and no further round would add to it.
LEMMA PlanCloses ==
    ASSUME TypeOK, NEW a, a \notin {"lock", "unlock"},
           NEW U \in SUBSET (Reviewable \cap DOMAIN saved),
           \A p \in SUBSET U : Widened(p, a) \subseteq U, NEW x \in SUBSET U
    PROVE  x \subseteq Plan(x, a) /\ Plan(x, a) \subseteq U /\ Widened(Plan(x, a), a) = Plan(x, a)
  <1> DEFINE N == Cardinality(DOMAIN saved)
             W == [p \in SUBSET U |-> Widened(p, a)]
             R == Rounds(x, a)
  <1>1. IsFiniteSet(U) /\ Cardinality(U) <= N /\ N \in Nat
    <2>1. IsFiniteSet(DOMAIN saved) /\ U \subseteq DOMAIN saved
      BY DEF TypeOK, Graph
    <2>2. QED
      BY <2>1, FS_Subset, FS_CardinalityType
  <1>2. W \in [SUBSET U -> SUBSET U] /\ Growing(W, U)
    BY WidenedGrows DEF Growing
  <1>3. \A p \in SUBSET U : W[p] = Widened(p, a)
    OBVIOUS
  <1> HIDE DEF N, W
  <1>4. PICK f \in [0 .. N -> SUBSET U] : f[0] = x /\ \A n \in 1 .. N : f[n] = W[f[n - 1]]
    <2> DEFINE S == SUBSET U
    <2>1. W \in [S -> S] /\ x \in S
      BY <1>2
    <2> HIDE DEF S
    <2>2. PICK f : f \in [0 .. N -> S] /\ Repeats(f, W, x, N, S)
      BY <1>1, <2>1, Iterates
    <2>3. \A n \in 1 .. N : n - 1 \in 0 .. N
      BY <1>1
    <2>4. f[0] = x /\ \A n \in 1 .. N : f[n] = W[f[n - 1]]
      BY <2>2, <2>3 DEF Repeats
    <2>5. QED
      BY <2>2, <2>4 DEF S
  <1>5. f = [n \in 0 .. N |-> IF n = 0 THEN x ELSE Widened(f[n - 1], a)]
    <2>1. \A n \in 0 .. N : f[n] = IF n = 0 THEN x ELSE Widened(f[n - 1], a)
      <3> TAKE n \in 0 .. N
      <3>1. CASE n = 0
        BY <1>4, <3>1
      <3>2. CASE n # 0
        <4>1. n \in 1 .. N /\ n - 1 \in 0 .. N
          BY <1>1, <3>2
        <4>2. QED
          BY <1>3, <1>4, <3>2, <4>1
      <3>3. QED
        BY <3>1, <3>2
    <2>2. QED
      BY <1>4, <2>1
  <1>6. R = [n \in 0 .. N |-> IF n = 0 THEN x ELSE Widened(R[n - 1], a)]
    BY <1>5, Zenon DEF Rounds, N
  <1> HIDE DEF R
  <1>7. R[0] = x /\ \A n \in 1 .. N : R[n] = Widened(R[n - 1], a)
    <2>1. 0 \in 0 .. N
      BY <1>1
    <2>2. ASSUME NEW n \in 1 .. N
          PROVE  R[n] = Widened(R[n - 1], a)
      <3>1. n \in 0 .. N /\ n # 0
        BY <1>1
      <3>2. QED
        BY <1>6, <3>1
    <2>3. QED
      BY <1>6, <2>1, <2>2
  <1>8. R[N] \subseteq U /\ x \subseteq R[N] /\ W[R[N]] = R[N]
    <2> DEFINE S == SUBSET U
    <2>1. Repeats(R, W, x, N, S)
      BY <1>3, <1>7 DEF Repeats
    <2>2. x \in S /\ S = SUBSET U
      OBVIOUS
    <2> HIDE DEF S
    <2>3. Closure(R[N], W, x, U)
      BY <1>1, <1>2, <2>1, <2>2, GrowsToClosure
    <2>4. QED
      BY <2>3 DEF Closure
  <1>9. Plan(x, a) = R[N]
    BY DEF Plan, R, N
  <1>10. QED
    BY <1>3, <1>8, <1>9

\* What can be selected can be reviewed.
LEMMA SelectionsWithin ==
    ASSUME TypeOK, NEW a, NEW x \in Selections(a)
    PROVE  /\ x \subseteq Reviewable \cap DOMAIN saved
           /\ a \in {"lock", "unlock"} => \A k \in x : LocksOf[k] = BOOLEAN
  <1>1. Considered(a) \subseteq DOMAIN saved /\ DOMAIN saved \subseteq Keys
    BY DEF Considered, ActiveIn, TypeOK, Graph
  <1>2. \A k \in Considered(a) : k \notin Reviewable => k[1] \in {"context_group", "project_input_scope"}
    BY <1>1 DEF Reviewable
  <1>3. CASE \E k \in Reviewable \cap DOMAIN saved :
               x = {k} /\ (a \in {"lock", "unlock"} => LocksOf[k] = BOOLEAN)
    BY <1>3
  <1>4. CASE /\ a \in {"deactivate", "delete"}
             /\ \E layer \in {{"subject_area", "subject_area_table"},
                              {"logical_entity", "logical_attribute", "logical_relationship"},
                              {"dimensional_entity", "dimensional_attribute",
                               "dimensional_relationship"}} :
                  x = {k \in Considered(a) : k[1] \in layer}
    BY <1>1, <1>2, <1>4
  <1>5. QED
    BY <1>3, <1>4 DEF Selections

\* The plan of a selection can be reviewed, holds it, and is closed.
LEMMA PlanWithin ==
    ASSUME TypeOK, NEW a, NEW x \in Selections(a)
    PROVE  /\ x \subseteq Plan(x, a) /\ Plan(x, a) \subseteq Reviewable \cap DOMAIN saved
           /\ a \in {"lock", "unlock"} => \A k \in Plan(x, a) : LocksOf[k] = BOOLEAN
           /\ a \notin {"lock", "unlock"} => Widened(Plan(x, a), a) = Plan(x, a)
  <1>1. x \subseteq Reviewable \cap DOMAIN saved
    BY SelectionsWithin
  <1>2. CASE a \in {"lock", "unlock"}
    BY <1>1, <1>2, SelectionsWithin DEF Plan
  <1>3. CASE a \notin {"lock", "unlock"}
    <2> DEFINE U == Reviewable \cap DOMAIN saved
    <2>1. \A p \in SUBSET U : Widened(p, a) \subseteq U
      BY WidenedGrows
    <2>2. U \in SUBSET (Reviewable \cap DOMAIN saved) /\ x \in SUBSET U
      BY <1>1
    <2> HIDE DEF U
    <2>3. x \subseteq Plan(x, a) /\ Plan(x, a) \subseteq U /\ Widened(Plan(x, a), a) = Plan(x, a)
      BY <1>3, <2>1, <2>2, PlanCloses
    <2>4. QED
      BY <1>3, <2>3 DEF U
  <1>4. QED
    BY <1>2, <1>3

-----------------------------------------------------------------------------
(* What a step does to the graph. *)

Decisions == {"lock", "unlock", "deactivate", "reactivate"}

\* A decision changes one of the two lifecycle fields of a record.
LEMMA DecidedParts ==
    ASSUME NEW k, NEW r \in RecordsOf(k), NEW a \in Decisions,
           a \in {"lock", "unlock"} => LocksOf[k] = BOOLEAN
    PROVE  /\ Decided(r, a) \in RecordsOf(k)
           /\ Decided(r, a).sources = r.sources /\ Decided(r, a).content = r.content
           /\ a = "deactivate" => ~Decided(r, a).active
           /\ a = "reactivate" => Decided(r, a).active
           /\ a \in {"lock", "unlock"} => Decided(r, a).active = r.active
  <1>1. /\ r = [active |-> r.active, locked |-> r.locked, content |-> r.content,
                sources |-> r.sources]
        /\ r.active \in BOOLEAN /\ r.locked \in LocksOf[k] /\ r.content \in ContentsOf[k]
        /\ r.sources \in UNION {[s -> StatesOf[k]] : s \in SUBSET Supports[k]}
    BY DEF RecordsOf
  <1>2. CASE a = "lock"
    BY <1>1, <1>2 DEF Decided, RecordsOf
  <1>3. CASE a = "unlock"
    BY <1>1, <1>3 DEF Decided, RecordsOf
  <1>4. CASE a = "deactivate"
    BY <1>1, <1>4 DEF Decided, RecordsOf
  <1>5. CASE a = "reactivate"
    BY <1>1, <1>5 DEF Decided, RecordsOf
  <1>6. QED
    BY <1>2, <1>3, <1>4, <1>5 DEF Decisions

\* What a review writes is a draft of the records of its plan.
LEMMA ReviewedGraph ==
    ASSUME TypeOK, NEW a \in Decisions, NEW x \in Selections(a), NEW p, p = Plan(x, a)
    PROVE  /\ Graph(Reviewed(p, a)) /\ DOMAIN Reviewed(p, a) = p /\ p \subseteq DOMAIN saved
           /\ \A k \in p : Reviewed(p, a)[k] = Decided(saved[k], a)
  <1>1. /\ p \subseteq DOMAIN saved
        /\ a \in {"lock", "unlock"} => \A k \in p : LocksOf[k] = BOOLEAN
    BY PlanWithin
  <1>2. /\ DOMAIN saved \subseteq Keys /\ IsFiniteSet(DOMAIN saved)
        /\ \A k \in DOMAIN saved : saved[k] \in RecordsOf(k)
    BY DEF TypeOK, Graph
  <1>3. IsFiniteSet(p)
    BY <1>1, <1>2, FS_Subset
  <1>4. \A k \in p : Decided(saved[k], a) \in RecordsOf(k)
    BY <1>1, <1>2, DecidedParts
  <1>5. QED
    BY <1>1, <1>2, <1>3, <1>4 DEF Graph, Reviewed

\* Every step leaves the graph, applies a draft, reviews or deletes.
LEMMA StepKinds ==
    ASSUME TypeOK, [Next]_vars
    PROVE  \/ saved' = saved /\ catalog' \in Catalogs
           \/ \E draft : Graph(draft) /\ ApplyDraft(draft)
           \/ \E a \in Decisions : \E x \in Selections(a) : Review(x, a)
           \/ \E x \in Selections("delete") : Delete(x)
  <1>1. CASE UNCHANGED vars
    BY <1>1 DEF vars, TypeOK
  <1>2. ASSUME NEW c \in Catalogs, Recatalog(c)
        PROVE  saved' = saved /\ catalog' \in Catalogs
    BY <1>2 DEF Recatalog
  <1>3. ASSUME NEW pair \in Together, Apply(pair[1], pair[2])
        PROVE  \E draft : Graph(draft) /\ ApplyDraft(draft)
    <2> DEFINE k == pair[1]
               l == pair[2]
    <2>1. k \in Keys /\ l \in Keys
      BY FutureGraphConstants
    <2> HIDE DEF k, l
    <2>2. CASE k = l
      <3>1. PICK r \in RecordsOf(k) : ApplyDraft([n \in {k} |-> r])
        BY <1>3, <2>2 DEF Apply, k, l
      <3>2. Graph([n \in {k} |-> r])
        BY <2>1, FS_Singleton DEF Graph
      <3>3. QED
        BY <3>1, <3>2
    <2>3. CASE k # l
      <3>1. PICK r \in RecordsOf(k), q \in RecordsOf(l) :
              ApplyDraft([n \in {k, l} |-> IF n = k THEN r ELSE q])
        BY <1>3, <2>3 DEF Apply, k, l
      <3>2. IsFiniteSet({k} \cup {l})
        BY FS_Singleton, FS_Union
      <3>3. {k} \cup {l} = {k, l}
        OBVIOUS
      <3>4. Graph([n \in {k, l} |-> IF n = k THEN r ELSE q])
        BY <2>1, <2>3, <3>2, <3>3 DEF Graph
      <3>5. QED
        BY <3>1, <3>4
    <2>4. QED
      BY <2>2, <2>3
  <1>4. ASSUME NEW k \in Keys, NEW c \in ContentsOf[k], Edit(k, c)
        PROVE  \E draft : Graph(draft) /\ ApplyDraft(draft)
    <2> DEFINE draft == [n \in {k} |-> [saved[n] EXCEPT !.content = c]]
    <2>1. saved[k] \in RecordsOf(k)
      BY <1>4 DEF Edit, TypeOK, Graph
    <2>2. [saved[k] EXCEPT !.content = c] \in RecordsOf(k)
      BY <2>1 DEF RecordsOf
    <2>3. Graph(draft)
      BY <2>2, FS_Singleton DEF Graph
    <2>4. ApplyDraft(draft)
      BY <1>4 DEF Edit
    <2> HIDE DEF draft
    <2>5. QED
      BY <2>3, <2>4
  <1>5. ASSUME NEW a \in Actions, NEW x \in Selections(a), Review(x, a)
        PROVE  \E d \in Decisions : \E y \in Selections(d) : Review(y, d)
    <2>1. a \in Decisions
      BY DEF Actions, Decisions
    <2>2. QED
      BY <1>5, <2>1
  <1>6. QED
    BY <1>1, <1>2, <1>3, <1>4, <1>5 DEF Next

\* An applied draft becomes part of the graph as it is.
LEMMA ApplyAccepts ==
    ASSUME TypeOK, NEW draft, Graph(draft), ApplyDraft(draft)
    PROVE  /\ saved' = Future(saved, draft) /\ catalog' = catalog
           /\ Valid(saved, draft, catalog, TRUE)
           /\ \A k \in DOMAIN draft \cap DOMAIN saved :
                DOMAIN saved[k].sources \subseteq DOMAIN draft[k].sources
  <1>1. \A k \in DOMAIN draft \cap DOMAIN saved :
          DOMAIN saved[k].sources \subseteq DOMAIN draft[k].sources
    BY DEF ApplyDraft
  <1>2. Graph(saved)
    BY DEF TypeOK
  <1>3. Materialized(saved, draft) = Future(saved, draft)
    BY <1>1, <1>2, MaterializedIsFuture
  <1>4. QED
    BY <1>1, <1>3 DEF ApplyDraft

\* A review is validated as a draft, and becomes part of the graph as one.
LEMMA ReviewAccepts ==
    ASSUME TypeOK, NEW a \in Decisions, NEW x \in Selections(a), Review(x, a)
    PROVE  LET p == Plan(x, a)
               d == Reviewed(p, a)
           IN  /\ saved' = Future(saved, d) /\ catalog' = catalog
               /\ Valid(ReviewBase(p, a), d, catalog, a \notin {"lock", "unlock"})
               /\ Future(ReviewBase(p, a), d) = Future(saved, d)
               /\ a # "unlock" => ReviewBase(p, a) = saved
  <1> DEFINE p == Plan(x, a)
             d == Reviewed(p, a)
  <1>1. /\ saved' = Over(d, saved) /\ catalog' = catalog
        /\ Valid(ReviewBase(p, a), d, catalog, a \notin {"lock", "unlock"})
    BY DEF Review
  <1> HIDE DEF d
  <1>2. Over(d, Over(d, saved)) = Over(d, saved)
    BY DEF Over
  <1>3. /\ a # "unlock" => ReviewBase(p, a) = saved
        /\ a = "unlock" => ReviewBase(p, a) = Over(d, saved)
    BY DEF ReviewBase, d
  <1>4. QED
    BY <1>1, <1>2, <1>3 DEF Future, d

\* The graph stays one.
LEMMA TypeStep ==
    ASSUME TypeOK, [Next]_vars
    PROVE  TypeOK'
  <1>1. Graph(saved) /\ catalog \in Catalogs
    BY DEF TypeOK
  <1>2. CASE saved' = saved /\ catalog' \in Catalogs
    BY <1>1, <1>2 DEF TypeOK
  <1>3. ASSUME NEW draft, Graph(draft), ApplyDraft(draft)
        PROVE  TypeOK'
    <2>1. saved' = Over(draft, saved) /\ catalog' = catalog
      BY <1>3, ApplyAccepts DEF Future
    <2>2. Graph(Over(draft, saved))
      BY <1>1, <1>3, OverGraph
    <2>3. QED
      BY <1>1, <2>1, <2>2 DEF TypeOK
  <1>4. ASSUME NEW a \in Decisions, NEW x \in Selections(a), Review(x, a)
        PROVE  TypeOK'
    <2> DEFINE d == Reviewed(Plan(x, a), a)
    <2>1. saved' = Over(d, saved) /\ catalog' = catalog
      BY <1>4 DEF Review
    <2>2. Graph(d)
      BY ReviewedGraph
    <2> HIDE DEF d
    <2>3. Graph(Over(d, saved))
      BY <1>1, <2>2, OverGraph
    <2>4. QED
      BY <1>1, <2>1, <2>3 DEF TypeOK
  <1>5. ASSUME NEW x \in Selections("delete"), Delete(x)
        PROVE  TypeOK'
    <2> DEFINE D == DOMAIN saved \ Plan(x, "delete")
    <2>1. saved' = [k \in D |-> saved[k]] /\ catalog' = catalog
      BY <1>5 DEF Delete
    <2>2. D \subseteq DOMAIN saved
      OBVIOUS
    <2> HIDE DEF D
    <2>3. IsFiniteSet(D)
      BY <1>1, <2>2, FS_Subset DEF Graph
    <2>4. Graph([k \in D |-> saved[k]])
      BY <1>1, <2>2, <2>3 DEF Graph
    <2>5. QED
      BY <1>1, <2>1, <2>4 DEF TypeOK
  <1>6. QED
    BY <1>2, <1>3, <1>4, <1>5, StepKinds

\* The saved records are a finite graph, every record one of its key.
THEOREM TypeCorrect == Spec => []TypeOK
  <1>1. Init => TypeOK
    BY FS_EmptySet DEF Init, TypeOK, Graph
  <1>2. TypeOK /\ [Next]_vars => TypeOK'
    BY TypeStep
  <1>3. QED
    BY <1>1, <1>2, PTL DEF Spec

-----------------------------------------------------------------------------
(* Locks. *)

LocksKept ==
  \A k \in DOMAIN saved :
    /\ saved[k].locked
         => k \in DOMAIN saved' /\ saved'[k] \in {saved[k], [saved[k] EXCEPT !.locked = FALSE]}
    /\ \A s \in DOMAIN saved[k].sources : saved[k].sources[s] = "locked"
         => k \in DOMAIN saved' /\ s \in DOMAIN saved'[k].sources
            /\ saved'[k].sources[s] = "locked"

\* An applied draft restates what is locked.
LEMMA ApplyLocks ==
    ASSUME TypeOK, NEW draft, Graph(draft), ApplyDraft(draft)
    PROVE  LocksKept
  <1> SUFFICES ASSUME NEW k \in DOMAIN saved
               PROVE  /\ k \in DOMAIN saved'
                      /\ saved[k].locked => saved'[k] = saved[k]
                      /\ \A s \in DOMAIN saved[k].sources : saved[k].sources[s] = "locked"
                           => s \in DOMAIN saved'[k].sources /\ saved'[k].sources[s] = "locked"
    BY DEF LocksKept
  <1>1. /\ saved' = Over(draft, saved) /\ LocksRespected(saved, draft)
        /\ k \in DOMAIN draft => DOMAIN saved[k].sources \subseteq DOMAIN draft[k].sources
    BY ApplyAccepts DEF Future, Valid
  <1>2. /\ k \in DOMAIN saved'
        /\ k \in DOMAIN draft => saved'[k] = draft[k]
        /\ k \notin DOMAIN draft => saved'[k] = saved[k]
    BY <1>1 DEF Over
  <1>3. CASE k \in DOMAIN draft /\ draft[k] # saved[k]
    <2>1. /\ ~saved[k].locked
          /\ \A s \in DOMAIN draft[k].sources \cap DOMAIN saved[k].sources :
               saved[k].sources[s] = "locked" => draft[k].sources[s] = "locked"
      BY <1>1, <1>3 DEF LocksRespected
    <2>2. QED
      BY <1>1, <1>2, <1>3, <2>1
  <1>4. CASE k \notin DOMAIN draft \/ draft[k] = saved[k]
    BY <1>2, <1>4
  <1>5. QED
    BY <1>3, <1>4

\* A review leaves supports alone and is refused where a record is locked, but
\* for unlocking it.
LEMMA ReviewLocks ==
    ASSUME TypeOK, NEW a \in Decisions, NEW x \in Selections(a), Review(x, a)
    PROVE  LocksKept
  <1> DEFINE p == Plan(x, a)
             d == Reviewed(p, a)
  <1>1. /\ saved' = Over(d, saved)
        /\ a # "unlock" => LocksRespected(saved, d)
    BY ReviewAccepts DEF Future, Valid
  <1>2. /\ DOMAIN d = p /\ p \subseteq DOMAIN saved
        /\ \A k \in p : d[k] = Decided(saved[k], a)
    BY ReviewedGraph
  <1> SUFFICES ASSUME NEW k \in DOMAIN saved
               PROVE  /\ k \in DOMAIN saved' /\ saved'[k].sources = saved[k].sources
                      /\ saved[k].locked
                           => saved'[k] \in {saved[k], [saved[k] EXCEPT !.locked = FALSE]}
    BY DEF LocksKept
  <1> HIDE DEF d, p
  <1>3. k \in DOMAIN saved' /\ saved'[k] = IF k \in p THEN Decided(saved[k], a) ELSE saved[k]
    BY <1>1, <1>2 DEF Over
  <1>4. saved[k] \in RecordsOf(k)
    BY DEF TypeOK, Graph
  <1>5. Decided(saved[k], a).sources = saved[k].sources
    BY <1>4 DEF Decided, Decisions, RecordsOf
  <1>6. ASSUME saved[k].locked, k \in p
        PROVE  Decided(saved[k], a) \in {saved[k], [saved[k] EXCEPT !.locked = FALSE]}
    <2>1. CASE a = "unlock"
      BY <2>1 DEF Decided
    <2>2. CASE a # "unlock"
      <3>1. d[k] = saved[k]
        BY <1>1, <1>2, <1>6, <2>2 DEF LocksRespected
      <3>2. QED
        BY <1>2, <1>6, <3>1
    <2>3. QED
      BY <2>1, <2>2
  <1>7. QED
    BY <1>3, <1>5, <1>6

\* A deletion that reaches anything locked is refused.
LEMMA DeleteLocks ==
    ASSUME NEW x \in Selections("delete"), Delete(x)
    PROVE  LocksKept
  <1>1. /\ saved' = [k \in DOMAIN saved \ Plan(x, "delete") |-> saved[k]]
        /\ \A k \in Plan(x, "delete") : ~Protected(k)
    BY DEF Delete
  <1>2. QED
    BY <1>1 DEF LocksKept, Protected

\* LockedStays: drafts, reviews and deletions leave what is locked as it is;
\* only unlocking changes a locked record, and a locked support stays.
THEOREM LocksStay == Spec => LockedStays
  <1>1. TypeOK /\ [Next]_vars => [LocksKept]_saved
    BY ApplyLocks, ReviewLocks, DeleteLocks, StepKinds
  <1>2. QED
    BY <1>1, TypeCorrect, PTL DEF Spec, LockedStays, LocksKept

-----------------------------------------------------------------------------
(* Scope. *)

ContentScoped ==
  \A k \in DOMAIN saved' :
    ~(k \in DOMAIN saved /\ RetainsHistory(saved[k], saved'[k]))
      => DOMAIN saved'[k].sources \ Keys \subseteq InputObjects(saved', catalog')

\* A draft that validates cites nothing new out of scope.
LEMMA DraftScoped ==
    ASSUME NEW draft, Graph(draft), InScope(saved, draft, catalog),
           saved' = Future(saved, draft),
           catalog' = catalog
    PROVE  ContentScoped
  <1> SUFFICES ASSUME NEW k \in DOMAIN saved',
                      ~(k \in DOMAIN saved /\ RetainsHistory(saved[k], saved'[k]))
               PROVE  DOMAIN saved'[k].sources \ Keys \subseteq InputObjects(saved', catalog')
    BY DEF ContentScoped
  <1>1. k \in DOMAIN draft => saved'[k] = draft[k]
    BY DEF Future, Over
  <1>2. k \notin DOMAIN draft => k \in DOMAIN saved /\ saved'[k] = saved[k]
    BY DEF Future, Over
  <1>3. k \in DOMAIN draft
    BY <1>2 DEF RetainsHistory
  <1>4. ~Retained(saved, draft, k)
    BY <1>1, <1>3 DEF Retained
  <1>5. CASE k[1] = "project_input_scope"
    <2>1. k \in Keys /\ draft[k] \in RecordsOf(k)
      BY <1>3 DEF Graph
    <2>2. DOMAIN draft[k].sources = {}
      BY <1>5, <2>1, RecordParts, KeyShapes
    <2>3. QED
      BY <1>1, <1>3, <2>2
  <1>6. CASE k[1] # "project_input_scope"
    <2>1. NamedObjects(k, saved'[k]) \subseteq InputObjects(saved', catalog')
      BY <1>4, <1>6 DEF InScope
    <2>2. QED
      BY <2>1 DEF NamedObjects
  <1>7. QED
    BY <1>5, <1>6

\* A record that is only unlocked retains its history.
LEMMA UnlockScoped ==
    ASSUME TypeOK, NEW x \in Selections("unlock"), Review(x, "unlock")
    PROVE  ContentScoped
  <1> DEFINE p == Plan(x, "unlock")
             d == Reviewed(p, "unlock")
  <1>1. "unlock" \in Decisions
    BY DEF Decisions
  <1>2. saved' = Over(d, saved)
    BY DEF Review
  <1>3. /\ DOMAIN d = p /\ p \subseteq DOMAIN saved
        /\ \A k \in p : d[k] = Decided(saved[k], "unlock")
    BY <1>1, ReviewedGraph
  <1> HIDE DEF d, p
  <1> SUFFICES ASSUME NEW k \in DOMAIN saved'
               PROVE  k \in DOMAIN saved /\ RetainsHistory(saved[k], saved'[k])
    BY DEF ContentScoped
  <1>4. k \in DOMAIN saved /\ (saved'[k] = Decided(saved[k], "unlock") \/ saved'[k] = saved[k])
    BY <1>2, <1>3 DEF Over
  <1>5. saved[k] \in RecordsOf(k)
    BY <1>4 DEF TypeOK, Graph
  <1>6. RetainsHistory(saved[k], saved[k])
    BY DEF RetainsHistory
  <1>7. RetainsHistory(saved[k], Decided(saved[k], "unlock"))
    BY <1>5 DEF RetainsHistory, ActiveSources, Decided, RecordsOf
  <1>8. QED
    BY <1>4, <1>6, <1>7

\* ContentInScope: whatever a draft or a review makes of a record beyond its
\* retained history cites Objects of the Project's inputs only.
THEOREM ContentRests == Spec => ContentInScope
  <1>1. TypeOK /\ [Next]_vars => [ContentScoped]_saved
    <2> SUFFICES ASSUME TypeOK, [Next]_vars, saved' # saved
                 PROVE  ContentScoped
      OBVIOUS
    <2>1. ASSUME NEW draft, Graph(draft), ApplyDraft(draft)
          PROVE  ContentScoped
      <3>1. saved' = Future(saved, draft) /\ catalog' = catalog /\ InScope(saved, draft, catalog)
        BY <2>1, ApplyAccepts DEF Valid
      <3>2. QED
        BY <2>1, <3>1, DraftScoped
    <2>2. ASSUME NEW a \in Decisions, NEW x \in Selections(a), Review(x, a)
          PROVE  ContentScoped
      <3>1. CASE a = "unlock"
        BY <2>2, <3>1, UnlockScoped
      <3>2. CASE a # "unlock"
        <4> DEFINE d == Reviewed(Plan(x, a), a)
        <4>1. saved' = Future(saved, d) /\ catalog' = catalog /\ InScope(saved, d, catalog)
          BY <2>2, <3>2, ReviewAccepts DEF Valid
        <4>2. Graph(d)
          BY ReviewedGraph
        <4> HIDE DEF d
        <4>3. QED
          BY <4>1, <4>2, DraftScoped
      <3>3. QED
        BY <3>1, <3>2
    <2>3. ASSUME NEW x \in Selections("delete"), Delete(x)
          PROVE  ContentScoped
      BY <2>3 DEF Delete, ContentScoped, RetainsHistory
    <2>4. QED
      BY <2>1, <2>2, <2>3, StepKinds
  <1>2. QED
    BY <1>1, TypeCorrect, PTL DEF Spec, ContentInScope, ContentScoped

-----------------------------------------------------------------------------
(* What is saved still validates. *)

\* What validation asks of a graph at rest, Validation Groups left out.
Standing(g) ==
  /\ ReferencesResolve(g)
  /\ CodeIsAssigned(g, {})
  /\ \A k \in ActiveIn(g) :
       /\ ActiveReferences(k) \subseteq ActiveIn(g)
       /\ \A s \in ActiveSources(g[k]) \cap Keys : SupportNeeds(s) \subseteq ActiveIn(g)

Grouped(g) == \A k \in ActiveIn(g) : k[1] = "validation_group" => GroupIsMapped(g, k)

\* The dependencies of a graph, with and without its Validation Groups.
LEMMA DependenciesSplit ==
    ASSUME NEW g
    PROVE  ReferencesResolve(g) /\ CodeIsAssigned(g, {}) /\ DependenciesActive(g)
             <=> Standing(g) /\ Grouped(g)
  BY DEF DependenciesActive, Standing, Grouped

\* Nothing but its references, dependencies and assignments, and the metadata it
\* names, is asked of a graph that nobody changes.
LEMMA StuckMeans ==
    ASSUME TypeOK
    PROVE  Stuck <=> ~(Catalogued /\ Standing(saved) /\ GroupsAreMapped)
  <1>1. DOMAIN <<>> = {}
    OBVIOUS
  <1>2. Future(saved, <<>>) = saved
    <2>1. saved = [k \in DOMAIN saved |-> saved[k]]
      BY DEF TypeOK, Graph
    <2>2. QED
      BY <1>1, <2>1 DEF Future, Over
  <1>3. LocksRespected(saved, <<>>)
    BY <1>1 DEF LocksRespected
  <1>4. InScope(saved, <<>>, catalog) <=> Catalogued
    <2>1. \A k \in DOMAIN saved : Retained(saved, <<>>, k)
      BY <1>1 DEF Retained
    <2>2. QED
      BY <1>2, <2>1 DEF InScope, Catalogued
  <1>5. NewMappingsHaveRules(saved, saved)
    BY DEF NewMappingsHaveRules, ActiveIn
  <1>6. Authored(<<>>) = {}
    BY <1>1 DEF Authored
  <1>7. Stuck <=> ~ /\ Catalogued
                    /\ ReferencesResolve(saved) /\ DependenciesActive(saved)
                    /\ CodeIsAssigned(saved, {})
    BY <1>2, <1>3, <1>4, <1>5, <1>6 DEF Stuck, Valid
  <1>8. QED
    BY <1>7, DependenciesSplit DEF Grouped, GroupsAreMapped

\* A graph that validates as somebody's draft stands for itself.
LEMMA ValidStands ==
    ASSUME NEW base, NEW draft, NEW b \in BOOLEAN, Valid(base, draft, catalog, b)
    PROVE  Standing(Future(base, draft)) /\ Grouped(Future(base, draft))
  <1> DEFINE g == Future(base, draft)
             A == IF b THEN Authored(draft) ELSE {}
  <1>1. ReferencesResolve(g) /\ DependenciesActive(g) /\ CodeIsAssigned(g, A)
    BY DEF Valid
  <1> HIDE DEF g, A
  <1>2. CodeIsAssigned(g, {})
    BY <1>1 DEF CodeIsAssigned
  <1>3. Standing(g) /\ Grouped(g)
    BY <1>1, <1>2, DependenciesSplit
  <1>4. QED
    BY <1>3 DEF g

\* A graph from which records are taken, or in which they are retired, stands
\* as long as nothing that stays refers to what goes (q) or depends on what is
\* no longer active (p).
LEMMA ShrunkStands ==
    ASSUME TypeOK, Standing(saved), NEW p, NEW q, NEW g,
           DOMAIN g = DOMAIN saved \ q, ActiveIn(g) = ActiveIn(saved) \ p,
           \A k \in DOMAIN g : /\ g[k].sources = saved[k].sources
                               /\ g[k].content = saved[k].content
                               /\ References(k) \cap q = {}
                               /\ DOMAIN saved[k].sources \cap Keys \cap q = {},
           \A k \in ActiveIn(g) :
             /\ ActiveReferences(k) \cap p = {}
             /\ \A s \in ActiveSources(saved[k]) \cap Keys : SupportNeeds(s) \cap p = {}
    PROVE  Standing(g)
  <1>1. ActiveIn(g) \subseteq DOMAIN g /\ ActiveIn(g) \subseteq ActiveIn(saved)
    BY DEF ActiveIn
  <1>2. ReferencesResolve(g)
    <2> SUFFICES ASSUME NEW k \in DOMAIN g
                 PROVE  /\ References(k) \cup (DOMAIN g[k].sources \cap Keys) \subseteq DOMAIN g
                        /\ ParentSupports(g, k)
                        /\ k[1] \in {"logical_relationship", "dimensional_relationship"} /\ g[k].active
                             => g[k[3]].content = "full"
      BY DEF ReferencesResolve
    <2>1. /\ References(k) \cup (DOMAIN saved[k].sources \cap Keys) \subseteq DOMAIN saved
          /\ ParentSupports(saved, k)
          /\ k[1] \in {"logical_relationship", "dimensional_relationship"} /\ saved[k].active
               => saved[k[3]].content = "full"
      BY DEF Standing, ReferencesResolve
    <2>2. References(k) \subseteq DOMAIN g /\ DOMAIN g[k].sources \cap Keys \subseteq DOMAIN g
      BY <2>1
    <2>3. ParentSupports(g, k)
      <3> SUFFICES ASSUME k[1] = "dimensional_attribute"
                   PROVE  ParentSupports(g, k)
        BY DEF ParentSupports
      <3>1. EntityOf(k) \in DOMAIN g
        BY <2>2 DEF References
      <3>2. /\ g[k].sources = saved[k].sources
            /\ g[EntityOf(k)].sources = saved[EntityOf(k)].sources
            /\ k \in ActiveIn(g) => k \in ActiveIn(saved)
        BY <1>1, <3>1
      <3>3. QED
        BY <2>1, <3>2 DEF ParentSupports, ActiveSources
    <2>4. ASSUME k[1] \in {"logical_relationship", "dimensional_relationship"}, g[k].active
          PROVE  g[k[3]].content = "full"
      <3>1. saved[k].active
        BY <1>1, <2>4 DEF ActiveIn
      <3>2. k[3] \in DOMAIN g
        BY <2>2, <2>4 DEF References
      <3>3. QED
        BY <2>1, <2>4, <3>1, <3>2
    <2>5. QED
      BY <2>2, <2>3, <2>4
  <1>3. CodeIsAssigned(g, {})
    <2> SUFFICES ASSUME NEW c \in ActiveIn(g), c[1] = "generated_code",
                        NEW m \in MappingsOf(g, c[2])
                 PROVE  Cardinality(AssignmentsOf(g, m)) <= 1
      BY DEF CodeIsAssigned
    <2>1. m \in MappingsOf(saved, c[2]) /\ AssignmentsOf(g, m) \subseteq AssignmentsOf(saved, m)
      BY <1>1 DEF MappingsOf, AssignmentsOf
    <2>2. Cardinality(AssignmentsOf(saved, m)) <= 1
      BY <1>1, <2>1 DEF Standing, CodeIsAssigned
    <2>3. IsFiniteSet(AssignmentsOf(saved, m))
      <3>1. AssignmentsOf(saved, m) \subseteq DOMAIN saved
        BY DEF AssignmentsOf, ActiveIn
      <3>2. QED
        BY <3>1, FS_Subset DEF TypeOK, Graph
    <2>4. /\ Cardinality(AssignmentsOf(g, m)) <= Cardinality(AssignmentsOf(saved, m))
          /\ Cardinality(AssignmentsOf(g, m)) \in Nat
          /\ Cardinality(AssignmentsOf(saved, m)) \in Nat
      BY <2>1, <2>3, FS_Subset, FS_CardinalityType
    <2>5. QED
      BY <2>2, <2>4
  <1>4. ASSUME NEW k \in ActiveIn(g)
        PROVE  /\ ActiveReferences(k) \subseteq ActiveIn(g)
               /\ \A s \in ActiveSources(g[k]) \cap Keys : SupportNeeds(s) \subseteq ActiveIn(g)
    <2>1. /\ ActiveReferences(k) \subseteq ActiveIn(saved)
          /\ \A s \in ActiveSources(saved[k]) \cap Keys : SupportNeeds(s) \subseteq ActiveIn(saved)
      BY <1>1 DEF Standing
    <2>2. ActiveSources(g[k]) = ActiveSources(saved[k])
      BY <1>1 DEF ActiveSources
    <2>3. QED
      BY <2>1, <2>2
  <1>5. QED
    BY <1>2, <1>3, <1>4 DEF Standing

\* What a closed plan of a retirement or a deletion leaves refers to nothing in
\* it.
LEMMA OutsidePlan ==
    ASSUME TypeOK, NEW a \in {"deactivate", "delete"},
           NEW p \in SUBSET (Reviewable \cap DOMAIN saved), Widened(p, a) = p,
           NEW k \in Considered(a), k \notin p
    PROVE  /\ References(k) \cap p = {} /\ ActiveReferences(k) \cap p = {}
           /\ ActiveSources(saved[k]) \cap Keys \cap p = {}
           /\ a = "delete" => DOMAIN saved[k].sources \cap Keys \cap p = {}
  <1>1. k \in Keys /\ k \in DOMAIN saved /\ DOMAIN saved[k].sources \subseteq Supports[k]
    <2>1. k \in DOMAIN saved
      BY DEF Considered, ActiveIn
    <2>2. k \in Keys /\ saved[k] \in RecordsOf(k)
      BY <2>1 DEF TypeOK, Graph
    <2>3. QED
      BY <2>1, <2>2, RecordParts
  <1>2. \A s \in p : s[1] \notin {"context_group", "project_input_scope"}
    BY DEF Reviewable
  <1>3. ActiveSources(saved[k]) \subseteq DOMAIN saved[k].sources
    BY DEF ActiveSources
  <1>4. References(k) \subseteq ActiveReferences(k) \cup {<<"context_group", k[2]>>}
    BY DEF References, ActiveReferences
  <1>5. <<"context_group", k[2]>> \notin p
    BY <1>2
  <1>6. CASE k \in Reviewable
    <2>1. ParentsOf(k, a) \cap p = {}
      BY <1>6 DEF Widened
    <2>2. ActiveReferences(k) \cap p = {}
      BY <2>1 DEF ParentsOf, LifecycleReferences
    <2>3. ActiveSources(saved[k]) \cap Keys \cap p = {}
      <3>1. CASE a = "delete"
        BY <1>3, <2>1, <3>1 DEF ParentsOf, SupportsOf
      <3>2. CASE a = "deactivate"
        <4>1. \A s \in ActiveSources(saved[k]) \cap Keys :
                s[1] \in {"context_record", "logical_entity", "logical_attribute"}
          BY <1>1, <1>3, KeyShapes
        <4>2. ActiveSources(saved[k]) \cap Keys \subseteq SupportsOf(k, a)
          BY <3>2, <4>1 DEF SupportsOf, ContextSupports, EntitySupports
        <4>3. QED
          BY <2>1, <4>2 DEF ParentsOf
      <3>3. QED
        BY <3>1, <3>2
    <2>4. a = "delete" => DOMAIN saved[k].sources \cap Keys \cap p = {}
      BY <2>1 DEF ParentsOf, SupportsOf
    <2>5. QED
      BY <1>4, <1>5, <2>2, <2>3, <2>4
  <1>7. CASE k \notin Reviewable
    <2>1. k[1] \in {"context_group", "project_input_scope"}
      BY <1>1, <1>7 DEF Reviewable
    <2>2. References(k) = {} /\ ActiveReferences(k) = {}
      BY <2>1 DEF References, ActiveReferences
    <2>3. DOMAIN saved[k].sources \cap Keys = {}
      BY <1>1, <2>1, KeyShapes
    <2>4. QED
      BY <1>3, <2>2, <2>3
  <1>8. QED
    BY <1>6, <1>7

\* Nor do the supports of what it leaves need anything in it.
LEMMA NeedsOutside ==
    ASSUME TypeOK, Standing(saved), NEW a \in {"deactivate", "delete"},
           NEW p \in SUBSET (Reviewable \cap DOMAIN saved), Widened(p, a) = p,
           NEW k \in ActiveIn(saved), k \notin p, NEW s \in ActiveSources(saved[k]) \cap Keys
    PROVE  SupportNeeds(s) \cap p = {}
  <1>1. ActiveIn(saved) \subseteq Considered(a)
    BY DEF Considered, ActiveIn
  <1>2. s \notin p
    BY <1>1, OutsidePlan
  <1>3. SupportNeeds(s) \subseteq ActiveIn(saved)
    BY DEF Standing
  <1>4. CASE s[1] = "context_record"
    <2>1. <<"context_group", s[2]>> \notin p
      BY DEF Reviewable
    <2>2. QED
      BY <1>2, <1>4, <2>1 DEF SupportNeeds
  <1>5. CASE s[1] = "logical_attribute"
    <2>1. s \in ActiveIn(saved)
      BY <1>3, <1>5 DEF SupportNeeds
    <2>2. ActiveReferences(s) \cap p = {}
      BY <1>1, <1>2, <2>1, OutsidePlan
    <2>3. EntityOf(s) \in ActiveReferences(s)
      BY <1>5 DEF ActiveReferences, References
    <2>4. QED
      BY <1>2, <1>5, <2>2, <2>3 DEF SupportNeeds
  <1>6. CASE s[1] \notin {"context_record", "logical_attribute"}
    BY <1>2, <1>6 DEF SupportNeeds
  <1>7. QED
    BY <1>4, <1>5, <1>6

\* A deletion leaves a graph that stands.
LEMMA DeleteStands ==
    ASSUME TypeOK, Standing(saved), NEW x \in Selections("delete"), Delete(x)
    PROVE  Standing(saved')
  <1> DEFINE a == "delete"
             p == Plan(x, a)
             g == saved'
  <1>1. g = [k \in DOMAIN saved \ p |-> saved[k]]
    BY DEF Delete
  <1>2. p \in SUBSET (Reviewable \cap DOMAIN saved) /\ Widened(p, a) = p
    BY PlanWithin
  <1> HIDE DEF p, g
  <1>3. DOMAIN g = DOMAIN saved \ p /\ ActiveIn(g) = ActiveIn(saved) \ p
    BY <1>1 DEF ActiveIn
  <1>4. \A k \in DOMAIN g : /\ g[k].sources = saved[k].sources
                            /\ g[k].content = saved[k].content
    BY <1>1
  <1>5. a \in {"deactivate", "delete"} /\ Considered(a) = DOMAIN saved
    BY DEF Considered
  <1>6. ASSUME NEW k \in DOMAIN g
        PROVE  /\ References(k) \cap p = {} /\ ActiveReferences(k) \cap p = {}
               /\ DOMAIN saved[k].sources \cap Keys \cap p = {}
    <2>1. k \in Considered(a) /\ k \notin p
      BY <1>3, <1>5
    <2>2. QED
      BY <1>2, <1>5, <2>1, OutsidePlan
  <1>7. ASSUME NEW k \in ActiveIn(g)
        PROVE  /\ ActiveReferences(k) \cap p = {}
               /\ \A s \in ActiveSources(saved[k]) \cap Keys : SupportNeeds(s) \cap p = {}
    <2>1. k \in DOMAIN g /\ k \in ActiveIn(saved) /\ k \notin p
      BY <1>3 DEF ActiveIn
    <2>2. QED
      BY <1>2, <1>5, <1>6, <2>1, NeedsOutside
  <1> HIDE DEF a
  <1>8. Standing(g)
    BY <1>3, <1>4, <1>6, <1>7, ShrunkStands
  <1>9. QED
    BY <1>8 DEF g

-----------------------------------------------------------------------------
(* The invariant. *)

\* The graph stands, and Validation Groups are mapped where nobody deletes.
IInv == /\ TypeOK
        /\ Standing(saved)
        /\ ~Deletes => GroupsAreMapped

\* What validated, Apply or a review makes the saved graph.
LEMMA AcceptedStands ==
    ASSUME NEW base, NEW draft, NEW b \in BOOLEAN, Valid(base, draft, catalog, b),
           saved' = Future(base, draft)
    PROVE  Standing(saved') /\ GroupsAreMapped'
  <1>1. Standing(Future(base, draft)) /\ Grouped(Future(base, draft))
    BY ValidStands
  <1>2. QED
    BY <1>1 DEF Grouped, GroupsAreMapped

\* The invariant is inductive.
LEMMA Inductive ==
    ASSUME IInv, [Next]_vars
    PROVE  IInv'
  <1>1. TypeOK /\ Standing(saved) /\ (~Deletes => GroupsAreMapped)
    BY DEF IInv
  <1>2. TypeOK'
    BY <1>1, TypeStep
  <1>3. CASE saved' = saved
    <2>1. Standing(saved') /\ (GroupsAreMapped => GroupsAreMapped')
      BY <1>1, <1>3 DEF GroupsAreMapped
    <2>2. QED
      BY <1>1, <1>2, <2>1 DEF IInv
  <1>4. ASSUME NEW draft, Graph(draft), ApplyDraft(draft)
        PROVE  Standing(saved') /\ GroupsAreMapped'
    <2>1. saved' = Future(saved, draft) /\ Valid(saved, draft, catalog, TRUE)
      BY <1>1, <1>4, ApplyAccepts
    <2>2. QED
      BY <2>1, AcceptedStands
  <1>5. ASSUME NEW a \in Decisions, NEW x \in Selections(a), Review(x, a)
        PROVE  Standing(saved') /\ GroupsAreMapped'
    <2> DEFINE base == ReviewBase(Plan(x, a), a)
               d == Reviewed(Plan(x, a), a)
               b == a \notin {"lock", "unlock"}
    <2>1. saved' = Future(base, d) /\ Valid(base, d, catalog, b)
      BY <1>1, <1>5, ReviewAccepts
    <2>2. b \in BOOLEAN
      OBVIOUS
    <2> HIDE DEF base, d, b
    <2>3. QED
      BY <2>1, <2>2, AcceptedStands
  <1>6. ASSUME NEW x \in Selections("delete"), Delete(x)
        PROVE  Standing(saved') /\ Deletes
    BY <1>1, <1>6, DeleteStands DEF Delete
  <1>7. QED
    BY <1>1, <1>2, <1>3, <1>4, <1>5, <1>6, StepKinds DEF IInv

\* A Project starts without records.
LEMMA Initial ==
    ASSUME Init
    PROVE  IInv
  <1>1. saved = <<>> /\ catalog \in Catalogs /\ DOMAIN saved = {}
    BY DEF Init
  <1>2. TypeOK
    BY <1>1, FS_EmptySet DEF TypeOK, Graph
  <1>3. ActiveIn(saved) = {}
    BY <1>1 DEF ActiveIn
  <1>4. Standing(saved) /\ GroupsAreMapped
    BY <1>1, <1>3 DEF Standing, ReferencesResolve, CodeIsAssigned, GroupsAreMapped
  <1>5. QED
    BY <1>2, <1>4 DEF IInv

\* Whatever drafts, reviews, deletions and changes of the registered metadata
\* come, the saved references resolve, what is active rests on what is active,
\* and no System of a coded Entity is assigned twice.
THEOREM Invariance == Spec => []IInv
  BY Initial, Inductive, PTL DEF Spec

\* StuckHasCause: a Project is stuck, a draft that leaves its saved records alone
\* refused for them, exactly while the metadata lacks a System or an Object that
\* they name, or a Validation Group has lost its last Mapping.
THEOREM StuckByMetadataOrGroups == Spec => []StuckHasCause
  <1>1. IInv => StuckHasCause
    BY StuckMeans DEF IInv, StuckHasCause
  <1>2. QED
    BY <1>1, Invariance, PTL

\* StuckHasCause and GroupsAreMapped: without deletions no Validation Group loses
\* its last Mapping, so that a Project is stuck exactly while the metadata lacks
\* what its records name.
THEOREM StuckByMetadataWithoutDeletes ==
    ASSUME ~Deletes PROVE Spec => [](StuckHasCause /\ GroupsAreMapped)
  <1>1. IInv => StuckHasCause /\ GroupsAreMapped
    BY StuckMeans DEF IInv, StuckHasCause
  <1>2. QED
    BY <1>1, Invariance, PTL

-----------------------------------------------------------------------------
(* Retirement. *)

\* A plan to retire active records holds active records only.
LEMMA RetiredAreActive ==
    ASSUME TypeOK, NEW x \in Selections("deactivate"), x \subseteq ActiveIn(saved)
    PROVE  LET p == Plan(x, "deactivate")
           IN  /\ p \in SUBSET (Reviewable \cap DOMAIN saved) /\ p \subseteq ActiveIn(saved)
               /\ Widened(p, "deactivate") = p
  <1> DEFINE a == "deactivate"
             U == Reviewable \cap DOMAIN saved \cap ActiveIn(saved)
  <1>1. x \in SUBSET U
    BY SelectionsWithin
  <1>2. U \in SUBSET (Reviewable \cap DOMAIN saved)
    OBVIOUS
  <1>3. Considered(a) = ActiveIn(saved) /\ a \notin {"lock", "unlock"} /\ a # "reactivate"
    BY DEF Considered
  <1>4. \A p \in SUBSET U : Widened(p, a) \subseteq U
    BY <1>3, WidenedGrows
  <1> HIDE DEF U, a
  <1>5. Plan(x, a) \subseteq U /\ Widened(Plan(x, a), a) = Plan(x, a)
    BY <1>1, <1>2, <1>3, <1>4, PlanCloses
  <1>6. QED
    BY <1>5 DEF U, a

\* The graph a retirement makes: the plan's records inactive, the rest as it is.
LEMMA RetiredParts ==
    ASSUME TypeOK, NEW x \in Selections("deactivate"),
           NEW p, p = Plan(x, "deactivate"), NEW d, d = Reviewed(p, "deactivate"),
           NEW g, g = Future(saved, d)
    PROVE  /\ DOMAIN d = p /\ p \subseteq DOMAIN saved
           /\ \A k \in p : /\ d[k].sources = saved[k].sources
                           /\ d[k].content = saved[k].content
                           /\ ~d[k].active
           /\ DOMAIN g = DOMAIN saved /\ ActiveIn(g) = ActiveIn(saved) \ p
           /\ \A k \in DOMAIN g : /\ g[k].sources = saved[k].sources
                                  /\ g[k].content = saved[k].content
  <1>1. "deactivate" \in Decisions /\ "deactivate" \notin {"lock", "unlock"}
    BY DEF Decisions
  <1>2. /\ DOMAIN d = p /\ p \subseteq DOMAIN saved
        /\ \A k \in p : d[k] = Decided(saved[k], "deactivate")
    BY <1>1, ReviewedGraph
  <1>3. \A k \in DOMAIN saved : saved[k] \in RecordsOf(k)
    BY DEF TypeOK, Graph
  <1>4. ASSUME NEW k \in p
        PROVE  /\ d[k].sources = saved[k].sources
               /\ d[k].content = saved[k].content
               /\ ~d[k].active
    <2> DEFINE r == saved[k]
    <2>1. r \in RecordsOf(k)
      BY <1>2, <1>3
    <2> HIDE DEF r
    <2>2. /\ Decided(r, "deactivate").sources = r.sources
          /\ Decided(r, "deactivate").content = r.content
          /\ ~Decided(r, "deactivate").active
      BY <1>1, <2>1, DecidedParts
    <2>3. QED
      BY <1>2, <2>2 DEF r
  <1>5. /\ DOMAIN g = DOMAIN saved
        /\ \A k \in DOMAIN g : g[k] = IF k \in p THEN d[k] ELSE saved[k]
    BY <1>2 DEF Future, Over
  <1>6. ActiveIn(g) = ActiveIn(saved) \ p
    BY <1>4, <1>5 DEF ActiveIn
  <1>7. QED
    BY <1>2, <1>4, <1>5, <1>6

\* An active assignment's Code is retired with it, and so is every artifact of
\* its Entity.
LEMMA CodeRetiredTogether ==
    ASSUME TypeOK, Standing(saved), NEW p \in SUBSET ActiveIn(saved),
           Widened(p, "deactivate") = p,
           NEW c \in ActiveIn(saved), c[1] = "generated_code",
           NEW k \in p, k[1] \in {"generated_code", "generated_code_source_system"},
           k[2] = c[2]
    PROVE  c \in p
  <1>1. Considered("deactivate") = ActiveIn(saved)
    BY DEF Considered
  <1>2. ASSUME NEW n \in p, n[1] = "generated_code", n[2] = c[2]
        PROVE  c \in p
    <2>1. c \in BundleOf(p, "deactivate")
      BY <1>1, <1>2 DEF BundleOf
    <2>2. QED
      BY <2>1 DEF Widened
  <1>3. CASE k[1] = "generated_code_source_system"
    <2> DEFINE n == <<"generated_code", k[2], k[3]>>
    <2>1. References(k) = {n} /\ n \in ActiveReferences(k)
      BY <1>3 DEF References, ActiveReferences
    <2>2. n \in ActiveIn(saved)
      BY <2>1 DEF Standing
    <2>3. n[1] = "generated_code" /\ n[2] = k[2]
      OBVIOUS
    <2> HIDE DEF n
    <2>4. n \in Reviewable /\ k \in DOMAIN saved
      BY <2>2, <2>3 DEF Reviewable, ActiveIn, TypeOK, Graph
    <2>5. k \in MembersOf(n, "deactivate")
      BY <1>3, <2>1, <2>4 DEF MembersOf
    <2>6. n \in p
      BY <1>1, <2>2, <2>4, <2>5 DEF Widened, ParentsOf
    <2>7. QED
      BY <1>2, <2>3, <2>6
  <1>4. QED
    BY <1>2, <1>3

\* A System's Validation Groups are retired with its last Mapping.
LEMMA GroupsRetiredTogether ==
    ASSUME NEW p, Widened(p, "deactivate") = p, GroupsAreMapped,
           NEW g, ActiveIn(g) = ActiveIn(saved) \ p
    PROVE  Grouped(g)
  <1> SUFFICES ASSUME NEW v \in ActiveIn(saved), v \notin p, v[1] = "validation_group",
                      \A m \in ActiveIn(saved) : m[1] = "mapping_object" /\ m[3] = v[2] => m \in p
               PROVE  FALSE
    BY DEF Grouped, GroupIsMapped
  <1>1. Considered("deactivate") = ActiveIn(saved)
    BY DEF Considered
  <1>2. \E m \in p : m[1] = "mapping_object" /\ m[3] = v[2]
    BY DEF GroupsAreMapped, GroupIsMapped
  <1>3. v \in OrphanedGroups(p, "deactivate")
    BY <1>1, <1>2 DEF OrphanedGroups
  <1>4. QED
    BY <1>3 DEF Widened

\* Without a locked record in its plan, a retirement validates.
LEMMA RetirementValidates ==
    ASSUME TypeOK, Standing(saved), GroupsAreMapped, Catalogued,
           NEW x \in Selections("deactivate"), x \subseteq ActiveIn(saved),
           \A k \in Plan(x, "deactivate") : saved[k].locked => ~saved[k].active
    PROVE  Valid(saved, Reviewed(Plan(x, "deactivate"), "deactivate"), catalog, TRUE)
  <1> DEFINE a == "deactivate"
             p == Plan(x, a)
             d == Reviewed(p, a)
             g == Future(saved, d)
  <1>1. /\ p \in SUBSET (Reviewable \cap DOMAIN saved) /\ p \in SUBSET ActiveIn(saved)
        /\ Widened(p, a) = p
    BY RetiredAreActive
  <1>2. /\ DOMAIN d = p /\ p \subseteq DOMAIN saved
        /\ \A k \in p : /\ d[k].sources = saved[k].sources
                        /\ d[k].content = saved[k].content
                        /\ ~d[k].active
        /\ DOMAIN g = DOMAIN saved /\ ActiveIn(g) = ActiveIn(saved) \ p
        /\ \A k \in DOMAIN g : /\ g[k].sources = saved[k].sources
                               /\ g[k].content = saved[k].content
    <2>1. p = Plan(x, "deactivate") /\ d = Reviewed(p, "deactivate") /\ g = Future(saved, d)
      OBVIOUS
    <2> HIDE DEF p, d, g
    <2>2. QED
      BY <2>1, RetiredParts
  <1>3. \A k \in p : ~saved[k].locked
    BY <1>1 DEF ActiveIn
  <1> HIDE DEF d, p, a
  <1>4. LocksRespected(saved, d)
    <2>1. \A k \in p : k[1] # "context_group"
      BY <1>1 DEF Reviewable
    <2>2. QED
      BY <1>2, <1>3, <2>1 DEF LocksRespected
  <1>5. InScope(saved, d, catalog)
    <2>1. \A k \in DOMAIN g : Retained(saved, d, k)
      BY <1>2 DEF Retained, RetainsHistory, ActiveSources
    <2>2. ASSUME NEW k \in DOMAIN g
          PROVE  /\ NamedSystems(k, g[k]) \subseteq catalog.systems
                 /\ NamedObjects(k, g[k]) \subseteq catalog.objects
      <3>1. /\ NamedSystems(k, g[k]) = NamedSystems(k, saved[k])
            /\ NamedObjects(k, g[k]) = NamedObjects(k, saved[k])
        BY <1>2 DEF NamedSystems, NamedObjects
      <3>2. QED
        BY <1>2, <3>1 DEF Catalogued
    <2>3. QED
      BY <2>1, <2>2 DEF InScope
  <1> HIDE DEF g
  <1>6. Standing(g)
    <2> DEFINE q == {}
    <2>1. DOMAIN g = DOMAIN saved \ q
      BY <1>2
    <2>2. \A k \in DOMAIN g : /\ g[k].sources = saved[k].sources
                              /\ g[k].content = saved[k].content
                              /\ References(k) \cap q = {}
                              /\ DOMAIN saved[k].sources \cap Keys \cap q = {}
      BY <1>2
    <2>3. ASSUME NEW k \in ActiveIn(g)
          PROVE  /\ ActiveReferences(k) \cap p = {}
                 /\ \A s \in ActiveSources(saved[k]) \cap Keys : SupportNeeds(s) \cap p = {}
      <3>1. k \in ActiveIn(saved) /\ k \notin p
        BY <1>2
      <3>2. a \in {"deactivate", "delete"} /\ k \in Considered(a)
        BY <3>1 DEF a, Considered
      <3>3. QED
        BY <1>1, <3>1, <3>2, OutsidePlan, NeedsOutside
    <2> HIDE DEF q
    <2>4. QED
      BY <1>2, <2>1, <2>2, <2>3, ShrunkStands
  <1>7. Grouped(g)
    BY <1>1, <1>2, GroupsRetiredTogether DEF a
  <1>8. NewMappingsHaveRules(saved, g)
    BY <1>2 DEF NewMappingsHaveRules, ActiveIn
  <1>9. CodeIsAssigned(g, Authored(d))
    <2>1. ASSUME NEW c \in ActiveIn(g), c[1] = "generated_code"
          PROVE  c[2] \notin Authored(d)
      <3> SUFFICES ASSUME NEW k \in p,
                          k[1] \in {"generated_code", "generated_code_source_system"},
                          k[2] = c[2]
                   PROVE  FALSE
        BY <1>2 DEF Authored
      <3>1. c \in ActiveIn(saved) /\ c \notin p
        BY <1>2
      <3>2. QED
        BY <1>1, <2>1, <3>1, CodeRetiredTogether DEF a
    <2>2. CodeIsAssigned(g, {})
      BY <1>6 DEF Standing
    <2>3. QED
      BY <2>1, <2>2 DEF CodeIsAssigned
  <1>10. Valid(saved, d, catalog, TRUE)
    BY <1>4, <1>5, <1>6, <1>7, <1>8, <1>9, DependenciesSplit DEF Valid, g
  <1>11. QED
    BY <1>10 DEF d, p, a

\* RetirementCloses: as long as every Validation Group is mapped and the metadata
\* has what the saved records name, active records can be retired together with
\* what depends on them, and the rest validates.
THEOREM RetirementsClose == Spec => []RetirementCloses
  <1>1. IInv => RetirementCloses
    BY RetirementValidates DEF IInv, RetirementCloses
  <1>2. QED
    BY <1>1, Invariance, PTL

-----------------------------------------------------------------------------
(* Rules. *)

\* A Mapping outside a closed plan keeps what carries its rule outside it too.
LEMMA RuleOutside ==
    ASSUME TypeOK, NEW a \in {"deactivate", "delete"},
           NEW p \in SUBSET (Reviewable \cap DOMAIN saved), Widened(p, a) = p,
           NEW m \in ActiveIn(saved), m[1] = "mapping_object", m \notin p,
           NEW k \in ActiveIn(saved), k[1] = "mapping_attribute",
           <<k[2], k[3]>> = <<m[2], m[3]>>, AttributeOf(k[2], k[4]) \in ActiveIn(saved)
    PROVE  k \notin p /\ AttributeOf(k[2], k[4]) \notin p
  <1>1. /\ m \in Reviewable /\ k \in Reviewable
        /\ m = <<"mapping_object", k[2], k[3]>>
    <2>1. m \in Keys /\ k \in Keys
      BY DEF ActiveIn, TypeOK, Graph
    <2>2. m = <<m[1], m[2], m[3]>>
      BY <2>1, KeyShapes
    <2>3. m = <<"mapping_object", k[2], k[3]>>
      BY <2>2
    <2>4. QED
      BY <2>1, <2>3 DEF Reviewable
  <1>2. m \in Considered(a) /\ k \in Considered(a) /\ k \in DOMAIN saved
    BY DEF Considered, ActiveIn
  <1>3. k \notin p
    <2>1. k \in MembersOf(m, a)
      BY <1>1, <1>2 DEF MembersOf
    <2>2. k \in ParentsOf(m, a)
      BY <2>1 DEF ParentsOf
    <2>3. a # "reactivate"
      OBVIOUS
    <2>4. QED
      BY <1>1, <1>2, <2>2, <2>3 DEF Widened
  <1>4. AttributeOf(k[2], k[4]) \in ActiveReferences(k)
    BY DEF ActiveReferences, References
  <1>5. QED
    BY <1>2, <1>3, <1>4, OutsidePlan

RulesKept ==
  \A m \in ActiveIn(saved) \cap ActiveIn(saved') :
    m[1] = "mapping_object" /\ HasRule(saved, m) => HasRule(saved', m)

\* A graph that keeps the contents, and the rest of every rule active, keeps the
\* rules.
LEMMA RulesStay ==
    ASSUME \A m \in ActiveIn(saved) \cap ActiveIn(saved') : saved'[m].content = saved[m].content,
           \A m \in ActiveIn(saved) \cap ActiveIn(saved') : m[1] = "mapping_object" =>
             \A k \in ActiveIn(saved) :
               /\ k[1] = "mapping_attribute" /\ <<k[2], k[3]>> = <<m[2], m[3]>>
               /\ AttributeOf(k[2], k[4]) \in ActiveIn(saved)
               => k \in ActiveIn(saved') /\ AttributeOf(k[2], k[4]) \in ActiveIn(saved')
    PROVE  RulesKept
  BY DEF RulesKept, HasRule

\* A review keeps the rules of the Mappings it leaves active.
LEMMA ReviewRules ==
    ASSUME TypeOK, NEW a \in Decisions, NEW x \in Selections(a), Review(x, a)
    PROVE  RulesKept
  <1> DEFINE p == Plan(x, a)
             d == Reviewed(p, a)
  <1>1. saved' = Over(d, saved)
    BY DEF Review
  <1>2. /\ DOMAIN d = p /\ p \subseteq DOMAIN saved
        /\ \A k \in p : d[k] = Decided(saved[k], a)
    BY ReviewedGraph
  <1>3. /\ p \in SUBSET (Reviewable \cap DOMAIN saved)
        /\ a \notin {"lock", "unlock"} => Widened(p, a) = p
        /\ a \in {"lock", "unlock"} => \A k \in p : LocksOf[k] = BOOLEAN
    BY PlanWithin
  <1> HIDE DEF d, p
  <1>4. ASSUME NEW k \in p
        PROVE  /\ d[k].content = saved[k].content
               /\ a = "deactivate" => ~d[k].active
               /\ a = "reactivate" => d[k].active
               /\ a \in {"lock", "unlock"} => d[k].active = saved[k].active
    <2> DEFINE r == saved[k]
    <2>1. r \in RecordsOf(k)
      BY <1>2 DEF TypeOK, Graph
    <2>2. a \in {"lock", "unlock"} => LocksOf[k] = BOOLEAN
      BY <1>3
    <2> HIDE DEF r
    <2>3. /\ Decided(r, a).content = r.content
          /\ a = "deactivate" => ~Decided(r, a).active
          /\ a = "reactivate" => Decided(r, a).active
          /\ a \in {"lock", "unlock"} => Decided(r, a).active = r.active
      BY <2>1, <2>2, DecidedParts
    <2>4. QED
      BY <1>2, <2>3 DEF r
  <1>5. /\ DOMAIN saved' = DOMAIN saved
        /\ \A k \in DOMAIN saved : saved'[k] = IF k \in p THEN d[k] ELSE saved[k]
    BY <1>1, <1>2 DEF Over
  <1>6. \A m \in ActiveIn(saved) \cap ActiveIn(saved') : saved'[m].content = saved[m].content
    BY <1>4, <1>5 DEF ActiveIn
  <1>7. CASE a # "deactivate"
    <2>1. ActiveIn(saved) \subseteq ActiveIn(saved')
      BY <1>4, <1>5, <1>7 DEF ActiveIn, Decisions
    <2>2. QED
      BY <1>6, <2>1, RulesStay
  <1>8. CASE a = "deactivate"
    <2>1. /\ ActiveIn(saved) \ p \subseteq ActiveIn(saved')
          /\ ActiveIn(saved') \cap p = {}
      <3>1. \A k \in p : ~d[k].active
        BY <1>4, <1>8
      <3>2. QED
        BY <1>5, <3>1 DEF ActiveIn
    <2>2. ASSUME NEW m \in ActiveIn(saved) \cap ActiveIn(saved'), m[1] = "mapping_object",
                 NEW k \in ActiveIn(saved), k[1] = "mapping_attribute",
                 <<k[2], k[3]>> = <<m[2], m[3]>>,
                 AttributeOf(k[2], k[4]) \in ActiveIn(saved)
          PROVE  k \in ActiveIn(saved') /\ AttributeOf(k[2], k[4]) \in ActiveIn(saved')
      <3>1. m \notin p
        BY <2>1
      <3>2. k \notin p /\ AttributeOf(k[2], k[4]) \notin p
        BY <1>3, <1>8, <2>2, <3>1, RuleOutside
      <3>3. QED
        BY <2>1, <2>2, <3>2
    <2>3. QED
      BY <1>6, <2>2, RulesStay
  <1>9. QED
    BY <1>7, <1>8

\* A deletion keeps the rules of the Mappings it leaves active.
LEMMA DeleteRules ==
    ASSUME TypeOK, NEW x \in Selections("delete"), Delete(x)
    PROVE  RulesKept
  <1> DEFINE p == Plan(x, "delete")
  <1>1. saved' = [k \in DOMAIN saved \ p |-> saved[k]]
    BY DEF Delete
  <1>2. p \in SUBSET (Reviewable \cap DOMAIN saved) /\ Widened(p, "delete") = p
    BY PlanWithin
  <1> HIDE DEF p
  <1>3. ActiveIn(saved') = ActiveIn(saved) \ p
    BY <1>1 DEF ActiveIn
  <1>4. \A m \in ActiveIn(saved) \cap ActiveIn(saved') : saved'[m].content = saved[m].content
    BY <1>1 DEF ActiveIn
  <1>5. ASSUME NEW m \in ActiveIn(saved) \cap ActiveIn(saved'), m[1] = "mapping_object",
               NEW k \in ActiveIn(saved), k[1] = "mapping_attribute",
               <<k[2], k[3]>> = <<m[2], m[3]>>,
               AttributeOf(k[2], k[4]) \in ActiveIn(saved)
        PROVE  k \in ActiveIn(saved') /\ AttributeOf(k[2], k[4]) \in ActiveIn(saved')
    <2>1. k \notin p /\ AttributeOf(k[2], k[4]) \notin p
      BY <1>2, <1>3, <1>5, RuleOutside
    <2>2. QED
      BY <1>3, <1>5, <2>1
  <1>6. QED
    BY <1>4, <1>5, RulesStay

\* ReviewsKeepRules: what carries a Mapping's last rule is neither retired nor
\* deleted without the Mapping.
THEOREM RulesRest == Spec => ReviewsKeepRules
  <1> DEFINE Reviews == \/ \E a \in Actions : \E s \in Selections(a) : Review(s, a)
                        \/ \E s \in Selections("delete") : Delete(s)
             Lost == \E m \in ActiveIn(saved) \cap ActiveIn(saved') :
                       m[1] = "mapping_object" /\ HasRule(saved, m) /\ ~HasRule(saved', m)
  <1>1. TypeOK => (Lost => ~Reviews)
    <2> SUFFICES ASSUME TypeOK, Reviews
                 PROVE  ~Lost
      OBVIOUS
    <2>1. RulesKept
      <3>1. Actions \subseteq Decisions
        BY DEF Actions, Decisions
      <3>2. QED
        BY <3>1, ReviewRules, DeleteRules
    <2>2. QED
      BY <2>1 DEF RulesKept
  <1>2. QED
    BY <1>1, TypeCorrect, PTL DEF Spec, ReviewsKeepRules

=============================================================================

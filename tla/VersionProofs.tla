---------------------------- MODULE VersionProofs ----------------------------
(***************************************************************************)
(* Proofs about VersionStore, for every set of vaults of any sizes, any    *)
(* limits and any versions of earlier sessions, with the start-up prune    *)
(* running beside the saves or not.                                        *)
(*                                                                         *)
(* Types, and that nothing is pruned needlessly, need no assumption.  The  *)
(* limits, and which version goes, need files that can be deleted          *)
(* (~UnlinkMayFail): the prunes go on after a deletion that failed, and    *)
(* count on it.                                                            *)
(***************************************************************************)
EXTENDS VersionStore, TLAPS, FiniteSetTheorems, NaturalsInduction

-----------------------------------------------------------------------------
(* Totals                                                                  *)
(*                                                                         *)
(* SizeOfAll takes the files one after another in an order that CHOOSE     *)
(* picks.  It is shown that there is such a sum, and that the order does   *)
(* not matter.  Induction over sets is stated with a set of sets instead   *)
(* of a predicate.                                                         *)

LEMMA LeastNat == \A T \in SUBSET Nat : T # {} => \E x \in T : \A y \in T : x <= y
<1> SUFFICES ASSUME NEW T \in SUBSET Nat, T # {} PROVE \E x \in T : \A y \in T : x <= y
  OBVIOUS
<1>1. PICK x \in T : \A y \in T : ~(<<y, x>> \in OpToRel(<, Nat))
  BY NatLessThanWellFounded, WFMin
<1>2. \A y \in T : ~(y < x)
  BY <1>1 DEF OpToRel
<1>3. \A y \in T : x <= y
  BY <1>2
<1> QED
  BY <1>3

\* What holds of the empty set, and of every set of which it holds without one
\* of its elements, holds of a finite set.
LEMMA SetsInduction ==
    ASSUME NEW S, IsFiniteSet(S), NEW G, {} \in G,
           \A T \in SUBSET S : (T # {} /\ \A x \in T : T \ {x} \in G) => T \in G
    PROVE  S \in G
<1> SUFFICES ASSUME S \notin G PROVE FALSE
  OBVIOUS
<1> DEFINE Bad == {T \in SUBSET S : T \notin G}
           Counts == {Cardinality(T) : T \in Bad}
<1>1. \A T \in SUBSET S : IsFiniteSet(T) /\ Cardinality(T) \in Nat
  BY FS_Subset, FS_CardinalityType
<1>2. Counts \in SUBSET Nat /\ Counts # {}
  BY <1>1
<1>3. PICK n \in Counts : \A m \in Counts : n <= m
  BY <1>2, LeastNat
<1>4. PICK T \in Bad : Cardinality(T) = n
  BY <1>3
<1>5. T # {}
  BY <1>4
<1>6. ASSUME NEW x \in T PROVE T \ {x} \in G
  <2>1. T \ {x} \in SUBSET S
    BY <1>4
  <2>2. Cardinality(T \ {x}) = Cardinality(T) - 1 /\ Cardinality(T) \in Nat
    BY <1>1, <1>4, <1>6, FS_RemoveElement
  <2>3. T \ {x} \notin Bad
    <3> SUFFICES ASSUME T \ {x} \in Bad PROVE FALSE
      OBVIOUS
    <3>1. Cardinality(T \ {x}) \in Counts
      OBVIOUS
    <3> QED
      BY <1>3, <1>4, <2>2, <3>1
  <2> QED
    BY <2>1, <2>3
<1> QED
  BY <1>4, <1>5, <1>6

Weight(p) == SizeOf[p[1]]
Pick(s) == CHOOSE p \in s : TRUE

\* g adds up the sizes of each subset of S.
Adds(S, g) ==
    g = [s \in SUBSET S |-> IF s = {} THEN 0 ELSE Weight(Pick(s)) + g[s \ {Pick(s)}]]

LEMMA SumUnfold == ASSUME NEW S PROVE SizeOfAll(S) = (CHOOSE g : Adds(S, g))[S]
BY DEF SizeOfAll, MapThenSumSet, MapThenFoldSet, Adds, Weight, Pick

LEMMA PickIn == \A s : s # {} => Pick(s) \in s
BY DEF Pick

LEMMA WeightType == \A p \in Paths : Weight(p) \in Nat
BY StoreAssumption DEF Paths, Weight

\* There is such a function for every finite set of files.
LEMMA SumExists ==
    ASSUME NEW S \in SUBSET Paths, IsFiniteSet(S)
    PROVE  \E g \in [SUBSET S -> Nat] : Adds(S, g)
<1> DEFINE Body(s, g) == IF s = {} THEN 0 ELSE Weight(Pick(s)) + g[s \ {Pick(s)}]
           Upto(T, g) == \A s \in SUBSET T : g[s] = Body(s, g)
           G == {T \in SUBSET S : \E g \in [SUBSET S -> Nat] : Upto(T, g)}
<1>f. \A s \in SUBSET S : IsFiniteSet(s) /\ Cardinality(s) \in Nat
  BY FS_Subset, FS_CardinalityType
<1> DEFINE Reach(n) == \E g \in [SUBSET S -> Nat] :
                          \A s \in SUBSET S : Cardinality(s) <= n => g[s] = Body(s, g)
           Stuck == {n \in Nat : ~Reach(n)}
<1>1. Reach(0)
  <2> DEFINE z == [s \in SUBSET S |-> 0]
  <2>1. z \in [SUBSET S -> Nat]
    OBVIOUS
  <2>2. \A s \in SUBSET S : Cardinality(s) <= 0 => z[s] = Body(s, z)
    BY <1>f, FS_EmptySet
  <2> QED
    BY <2>1, <2>2
<1>2. ASSUME NEW n \in Nat, Reach(n) PROVE Reach(n + 1)
  <2>1. PICK g \in [SUBSET S -> Nat] :
          \A s \in SUBSET S : Cardinality(s) <= n => g[s] = Body(s, g)
    BY <1>2
  <2> DEFINE h == [s \in SUBSET S |-> Body(s, g)]
  <2>2. h \in [SUBSET S -> Nat]
    <3> SUFFICES ASSUME NEW s \in SUBSET S PROVE Body(s, g) \in Nat
      OBVIOUS
    <3>1. s # {} => Pick(s) \in s /\ s \ {Pick(s)} \in SUBSET S
      BY PickIn
    <3>2. s # {} => Weight(Pick(s)) \in Nat /\ g[s \ {Pick(s)}] \in Nat
      BY <2>1, <3>1, WeightType
    <3> QED
      BY <3>2
  <2>3. \A s \in SUBSET S : Cardinality(s) <= n => h[s] = g[s]
    BY <2>1
  <2>4. ASSUME NEW s \in SUBSET S, Cardinality(s) <= n + 1 PROVE h[s] = Body(s, h)
    <3>1. CASE s = {}
      BY <3>1
    <3>2. CASE s # {}
      <4>1. Pick(s) \in s /\ s \ {Pick(s)} \in SUBSET S
        BY <3>2, PickIn
      <4>2. Cardinality(s \ {Pick(s)}) = Cardinality(s) - 1 /\ Cardinality(s) \in Nat
        BY <1>f, <4>1, FS_RemoveElement
      <4>3. Cardinality(s \ {Pick(s)}) <= n
        BY <2>4, <4>2
      <4>4. h[s \ {Pick(s)}] = g[s \ {Pick(s)}]
        BY <2>3, <4>1, <4>3
      <4>5. h[s] = Weight(Pick(s)) + g[s \ {Pick(s)}]
        BY <3>2
      <4> HIDE DEF h
      <4> QED
        BY <3>2, <4>4, <4>5
    <3> QED
      BY <3>1, <3>2
  <2> HIDE DEF h, Body
  <2> QED
    BY <2>2, <2>4
<1>3. ASSUME NEW n \in Nat PROVE Reach(n)
  <2> HIDE DEF Reach
  <2> SUFFICES ASSUME Stuck # {} PROVE FALSE
    OBVIOUS
  <2>1. PICK m \in Stuck : \A k \in Stuck : m <= k
    BY LeastNat
  <2>2. m # 0 /\ m \in Nat /\ ~Reach(m)
    BY <1>1, <2>1
  <2>3. m - 1 \in Nat /\ m - 1 \notin Stuck /\ (m - 1) + 1 = m
    BY <2>1, <2>2
  <2>4. Reach((m - 1) + 1)
    BY <1>2, <2>3
  <2> QED
    BY <2>2, <2>3, <2>4
<1>4. Cardinality(S) \in Nat
  BY <1>f
<1>5. PICK g \in [SUBSET S -> Nat] :
        \A s \in SUBSET S : Cardinality(s) <= Cardinality(S) => g[s] = Body(s, g)
  BY <1>3, <1>4
<1>6. \A s \in SUBSET S : g[s] = Body(s, g)
  BY <1>5, FS_Subset
<1>7. g = [s \in SUBSET S |-> Body(s, g)]
  BY <1>6
<1> QED
  BY <1>7 DEF Adds

\* And there is only one: two of them agree on what both add up.
LEMMA SumUnique ==
    ASSUME NEW S, NEW T, NEW g, NEW h, Adds(S, g), Adds(T, h),
           NEW s, s \subseteq S, s \subseteq T, IsFiniteSet(s)
    PROVE  g[s] = h[s]
<1> DEFINE G == {u \in SUBSET s : g[u] = h[u]}
<1>0. \A u \in SUBSET s :
        /\ g[u] = IF u = {} THEN 0 ELSE Weight(Pick(u)) + g[u \ {Pick(u)}]
        /\ h[u] = IF u = {} THEN 0 ELSE Weight(Pick(u)) + h[u \ {Pick(u)}]
  BY DEF Adds
<1>1. {} \in G
  BY <1>0
<1>2. ASSUME NEW u \in SUBSET s, u # {}, \A x \in u : u \ {x} \in G PROVE u \in G
  <2>1. Pick(u) \in u
    BY <1>2, PickIn
  <2>2. g[u \ {Pick(u)}] = h[u \ {Pick(u)}]
    BY <1>2, <2>1
  <2> QED
    BY <1>0, <1>2, <2>2
<1>3. s \in G
  <2> HIDE DEF G
  <2> QED
    BY <1>1, <1>2, SetsInduction
<1> QED
  BY <1>3

LEMMA SumStep ==
    ASSUME NEW S \in SUBSET Paths, IsFiniteSet(S)
    PROVE  /\ SizeOfAll(S) \in Nat
           /\ S = {} => SizeOfAll(S) = 0
           /\ S # {} => SizeOfAll(S) = Weight(Pick(S)) + SizeOfAll(S \ {Pick(S)})
<1> DEFINE T == S \ {Pick(S)}
           g == CHOOSE f : Adds(S, f)
           h == CHOOSE f : Adds(T, f)
<1>1. T \in SUBSET Paths /\ IsFiniteSet(T)
  BY FS_Subset
<1>2. PICK k \in [SUBSET S -> Nat] : Adds(S, k)
  BY SumExists
<1>3. Adds(S, g)
  BY <1>2
<1>4. Adds(T, h)
  BY <1>1, SumExists
<1>5. SizeOfAll(S) = g[S] /\ SizeOfAll(T) = h[T]
  BY SumUnfold
<1> HIDE DEF g, h
<1>6. g[S] = k[S]
  BY <1>2, <1>3, SumUnique
<1>7. g[T] = h[T]
  BY <1>1, <1>3, <1>4, SumUnique
<1>8. g[S] = IF S = {} THEN 0 ELSE Weight(Pick(S)) + g[T]
  BY <1>3 DEF Adds
<1> QED
  BY <1>2, <1>5, <1>6, <1>7, <1>8

\* It does not matter which file is counted first.
LEMMA SumRemove ==
    ASSUME NEW S \in SUBSET Paths, IsFiniteSet(S), NEW p \in S
    PROVE  SizeOfAll(S) = Weight(p) + SizeOfAll(S \ {p})
<1> DEFINE Any(T) == \A x \in T : SizeOfAll(T) = Weight(x) + SizeOfAll(T \ {x})
           G == {T \in SUBSET S : Any(T)}
<1>f. \A T \in SUBSET S : T \in SUBSET Paths /\ IsFiniteSet(T)
  BY FS_Subset
<1>1. {} \in G
  OBVIOUS
<1>2. ASSUME NEW T \in SUBSET S, T # {}, \A x \in T : T \ {x} \in G PROVE T \in G
  <2> SUFFICES ASSUME NEW x \in T PROVE SizeOfAll(T) = Weight(x) + SizeOfAll(T \ {x})
    OBVIOUS
  <2> DEFINE c == Pick(T)
  <2>1. c \in T
    BY <1>2, PickIn
  <2> HIDE DEF c
  <2>2. SizeOfAll(T) = Weight(c) + SizeOfAll(T \ {c})
    BY <1>f, <1>2, SumStep DEF c
  <2>3. CASE x = c
    BY <2>2, <2>3
  <2>4. CASE x # c
    <3>1. SizeOfAll(T \ {c}) = Weight(x) + SizeOfAll((T \ {c}) \ {x})
      BY <1>2, <2>1, <2>4
    <3>2. SizeOfAll(T \ {x}) = Weight(c) + SizeOfAll((T \ {x}) \ {c})
      BY <1>2, <2>1, <2>4
    <3>3. (T \ {c}) \ {x} = (T \ {x}) \ {c} /\ (T \ {c}) \ {x} \in SUBSET S
      OBVIOUS
    <3>4. SizeOfAll((T \ {c}) \ {x}) \in Nat /\ Weight(c) \in Nat /\ Weight(x) \in Nat
      BY <1>f, <2>1, <3>3, SumStep, WeightType
    <3>5. SizeOfAll((T \ {x}) \ {c}) = SizeOfAll((T \ {c}) \ {x})
      BY <3>3
    <3> QED
      BY <2>2, <3>1, <3>2, <3>4, <3>5
  <2> QED
    BY <2>3, <2>4
<1>3. S \in G
  <2> HIDE DEF G
  <2> QED
    BY <1>1, <1>2, SetsInduction
<1> QED
  BY <1>3

\* Two separate sets of files.
LEMMA SumUnion ==
    ASSUME NEW A \in SUBSET Paths, IsFiniteSet(A), NEW B \in SUBSET Paths, IsFiniteSet(B),
           A \cap B = {}
    PROVE  SizeOfAll(A \cup B) = SizeOfAll(A) + SizeOfAll(B)
<1> DEFINE G == {T \in SUBSET B : SizeOfAll(A \cup T) = SizeOfAll(A) + SizeOfAll(T)}
<1>f. \A T \in SUBSET B : T \in SUBSET Paths /\ IsFiniteSet(T) /\ IsFiniteSet(A \cup T)
  BY FS_Subset, FS_Union
<1>0. SizeOfAll(A) \in Nat /\ SizeOfAll({}) = 0
  BY SumStep, FS_EmptySet
<1>1. {} \in G
  <2>1. A \cup {} = A
    OBVIOUS
  <2> QED
    BY <1>0, <2>1
<1>2. ASSUME NEW T \in SUBSET B, T # {}, \A x \in T : T \ {x} \in G PROVE T \in G
  <2>1. PICK x \in T : TRUE
    BY <1>2
  <2>2. (A \cup T) \ {x} = A \cup (T \ {x}) /\ A \cup T \in SUBSET Paths
    BY <2>1
  <2>3. SizeOfAll(A \cup T) = Weight(x) + SizeOfAll(A \cup (T \ {x}))
    BY <1>f, <2>1, <2>2, SumRemove
  <2>4. SizeOfAll(T) = Weight(x) + SizeOfAll(T \ {x})
    BY <1>f, <2>1, SumRemove
  <2>5. SizeOfAll(A \cup (T \ {x})) = SizeOfAll(A) + SizeOfAll(T \ {x})
    BY <1>2, <2>1
  <2>6. SizeOfAll(T \ {x}) \in Nat /\ Weight(x) \in Nat
    BY <1>f, <2>1, SumStep, WeightType
  <2> QED
    BY <1>0, <2>3, <2>4, <2>5, <2>6
<1>3. B \in G
  <2> HIDE DEF G
  <2> QED
    BY <1>1, <1>2, SetsInduction
<1> QED
  BY <1>3

-----------------------------------------------------------------------------
(* Types *)

Stages == {"rest", "raised", "visit", "stat", "count", "scan", "shrink"}

Stamped == UNION {[S -> Times] : S \in SUBSET Paths}

Prunes == [pc: Stages, dir: Vaults, left: SUBSET Vaults, seen: Stamped, total: Nat]

Saves == [pc: {"idle", "create", "stamp", "prune", "saved", "unsaved"},
          vault: Vaults, stamp: Times, alone: BOOLEAN]

Types ==
    /\ now \in Times
    /\ mtime \in [Vaults -> Times]
    /\ dirs \subseteq Vaults
    /\ store \in Stamped /\ \A p \in Existing : p[1] \in dirs
    /\ worker \in Saves
    /\ pruner \in [Threads -> Prunes]

\* A total is never less than that of the files still listed.
Totals ==
    \A t \in Threads :
        /\ pruner[t].pc \in {"scan", "shrink"} => SizeOfAll(Seen(t)) <= pruner[t].total
        /\ pruner[t].pc = "scan" => \A p \in Seen(t) : p[1] \notin pruner[t].left

\* Nothing is of the future, and a version about to be made is a new file.
Dated ==
    /\ \A v \in Vaults : mtime[v] <= now
    /\ \A p \in Existing : store[p] <= now /\ p[2] < now
    /\ \A t \in Threads : \A p \in Seen(t) : p[2] < now
    /\ worker.pc # "idle" => worker.stamp < now
    /\ worker.pc = "create" => File \notin Existing /\ \A t \in Threads : File \notin Seen(t)

TypeInv == Types /\ Totals /\ Dated

LEMMA StampedFacts ==
    ASSUME NEW f \in Stamped
    PROVE  /\ DOMAIN f \in SUBSET Paths
           /\ \A p \in DOMAIN f : f[p] \in Times
           /\ \A p : Without(f, p) \in Stamped /\ DOMAIN Without(f, p) = DOMAIN f \ {p}
           /\ \A p : \A q \in DOMAIN f \ {p} : Without(f, p)[q] = f[q]
<1>1. PICK S \in SUBSET Paths : f \in [S -> Times]
  BY DEF Stamped
<1>2. \A p : Without(f, p) \in [S \ {p} -> Times]
  BY <1>1 DEF Without
<1> QED
  BY <1>1, <1>2 DEF Stamped, Without

LEMMA NothingStamped == [p \in {} |-> 0] \in Stamped
<1>1. [p \in {} |-> 0] \in [{} -> Times]
  OBVIOUS
<1> QED
  BY <1>1 DEF Stamped

LEMMA PathsFinite == \A S \in SUBSET Paths : IsFiniteSet(S)
<1>1. IsFiniteSet(Times)
  BY StoreAssumption, FS_Interval DEF Times
<1>2. IsFiniteSet(Paths)
  BY <1>1, StoreAssumption, FS_Product DEF Paths
<1> QED
  BY <1>2, FS_Subset

LEMMA RestType ==
    ASSUME NEW pc \in Stages, NEW vs \in SUBSET Vaults
    PROVE  /\ Resting(pc) \in Prunes /\ Resting(pc).pc = pc /\ Resting(pc).total = 0
           /\ DOMAIN Resting(pc).seen = {} /\ Resting(pc).left = {}
           /\ Starting(vs) \in Prunes /\ Starting(vs).pc = "visit" /\ Starting(vs).left = vs
           /\ Starting(vs).total = 0 /\ DOMAIN Starting(vs).seen = {}
<1>1. Idle.vault \in Vaults
  BY StoreAssumption DEF Idle
<1>2. Resting(pc) \in Prunes /\ Resting("visit") \in Prunes
  BY <1>1, NothingStamped DEF Resting, Prunes, Stages
<1> QED
  BY <1>2 DEF Resting, Starting, Prunes

\* One thread's prune goes on, the other's stays where it is.
LEMMA SetFacts ==
    ASSUME pruner \in [Threads -> Prunes], NEW t \in Threads, NEW rec \in Prunes, Set(t, rec)
    PROVE  /\ pruner' \in [Threads -> Prunes] /\ pruner'[t] = rec
           /\ \A u \in Threads \ {t} : pruner'[u] = pruner[u]
BY DEF Set

LEMMA FileFacts ==
    ASSUME Types
    PROVE  /\ Existing \in SUBSET Paths /\ \A p \in Existing : store[p] \in Times
           /\ File \in Paths /\ File[1] = worker.vault /\ File[2] = worker.stamp
           /\ \A v : FilesIn(v) \in SUBSET Existing /\ IsFiniteSet(FilesIn(v))
           /\ \A t \in Threads : Seen(t) \in SUBSET Paths /\ IsFiniteSet(Seen(t))
           /\ \A t \in Threads : \A p \in Seen(t) : pruner[t].seen[p] \in Times
<1>1. Existing \in SUBSET Paths /\ \A p \in Existing : store[p] \in Times
  BY StampedFacts DEF Types, Existing
<1>2. \A t \in Threads : pruner[t].seen \in Stamped
  BY DEF Types, Prunes
<1>3. File \in Paths /\ File[1] = worker.vault /\ File[2] = worker.stamp
  BY DEF Types, Saves, File, Paths
<1> QED
  BY <1>1, <1>2, <1>3, StampedFacts, PathsFinite DEF FilesIn, Seen

-----------------------------------------------------------------------------
(* What each step of a prune makes of its record *)

LEMMA VisitFacts ==
    ASSUME Types, NEW t \in Threads, Visit(t)
    PROVE  LET r == pruner[t] q == pruner'[t] IN
           /\ pruner' \in [Threads -> Prunes]
           /\ \A u \in Threads \ {t} : pruner'[u] = pruner[u]
           /\ r.pc = "visit"
           /\ \/ \E v \in r.left \cap dirs :
                    /\ q.pc = "stat" /\ q.dir = v /\ q.left = r.left \ {v}
                    /\ DOMAIN q.seen = FilesIn(v)
              \/ q.pc = "raised" /\ DOMAIN q.seen = {}
              \/ \E v \in r.left \ dirs :
                    q.pc = "visit" /\ q.left = r.left \ {v} /\ q.seen = r.seen
              \/ /\ r.left = {} /\ q.pc = "scan" /\ q.left = dirs
                 /\ DOMAIN q.seen = {} /\ q.total = 0
<1>r. pruner \in [Threads -> Prunes] /\ pruner[t] \in Prunes /\ pruner[t].pc = "visit"
  BY DEF Types, Visit
<1>1. ASSUME NEW v \in pruner[t].left, v \in dirs,
             Set(t, [pruner[t] EXCEPT !.pc = "stat", !.dir = v, !.left = pruner[t].left \ {v},
                                      !.seen = [p \in FilesIn(v) |-> 0]])
      PROVE  /\ pruner' \in [Threads -> Prunes]
             /\ \A u \in Threads \ {t} : pruner'[u] = pruner[u]
             /\ pruner'[t].pc = "stat" /\ pruner'[t].dir = v
             /\ pruner'[t].left = pruner[t].left \ {v}
             /\ DOMAIN pruner'[t].seen = FilesIn(v)
  <2> DEFINE f == [p \in FilesIn(v) |-> 0]
             rec == [pruner[t] EXCEPT !.pc = "stat", !.dir = v, !.left = pruner[t].left \ {v},
                                      !.seen = f]
  <2>1. f \in [FilesIn(v) -> Times] /\ FilesIn(v) \in SUBSET Paths
    BY FileFacts, StoreAssumption DEF Times
  <2>2. f \in Stamped /\ DOMAIN f = FilesIn(v)
    BY <2>1 DEF Stamped
  <2> HIDE DEF f
  <2>3. rec \in Prunes /\ rec.pc = "stat" /\ rec.dir = v /\ rec.seen = f
        /\ rec.left = pruner[t].left \ {v}
    BY <1>r, <2>2 DEF Prunes, Stages
  <2>4. Set(t, rec)
    BY <1>1 DEF f
  <2> HIDE DEF rec
  <2>5. pruner' \in [Threads -> Prunes] /\ pruner'[t] = rec
        /\ \A u \in Threads \ {t} : pruner'[u] = pruner[u]
    BY <1>r, <2>3, <2>4, SetFacts
  <2> QED
    BY <2>2, <2>3, <2>5
<1>2. Set(t, Resting("raised")) =>
             /\ pruner' \in [Threads -> Prunes]
             /\ \A u \in Threads \ {t} : pruner'[u] = pruner[u]
             /\ pruner'[t].pc = "raised" /\ DOMAIN pruner'[t].seen = {}
  BY <1>r, SetFacts, RestType DEF Stages
<1>3. ASSUME NEW v \in pruner[t].left,
             Set(t, [pruner[t] EXCEPT !.left = pruner[t].left \ {v}])
      PROVE  /\ pruner' \in [Threads -> Prunes]
             /\ \A u \in Threads \ {t} : pruner'[u] = pruner[u]
             /\ pruner'[t].pc = "visit" /\ pruner'[t].left = pruner[t].left \ {v}
             /\ pruner'[t].seen = pruner[t].seen
  <2> DEFINE rec == [pruner[t] EXCEPT !.left = pruner[t].left \ {v}]
  <2>1. rec \in Prunes /\ rec.pc = "visit" /\ rec.left = pruner[t].left \ {v}
        /\ rec.seen = pruner[t].seen
    BY <1>r DEF Prunes
  <2> QED
    BY <1>r, <1>3, <2>1, SetFacts
<1>4. Set(t, [Starting(dirs) EXCEPT !.pc = "scan"]) =>
             /\ pruner' \in [Threads -> Prunes]
             /\ \A u \in Threads \ {t} : pruner'[u] = pruner[u]
             /\ pruner'[t].pc = "scan" /\ pruner'[t].left = dirs
             /\ DOMAIN pruner'[t].seen = {} /\ pruner'[t].total = 0
  <2> DEFINE rec == [Starting(dirs) EXCEPT !.pc = "scan"]
  <2>0. Starting(dirs) \in Prunes /\ Starting(dirs).left = dirs /\ Starting(dirs).total = 0
        /\ DOMAIN Starting(dirs).seen = {}
    BY RestType DEF Types, Stages
  <2>1. rec \in Prunes /\ rec.pc = "scan" /\ rec.left = dirs /\ rec.total = 0
        /\ DOMAIN rec.seen = {}
    BY <2>0 DEF Prunes, Stages
  <2> HIDE DEF rec
  <2>2. Set(t, rec) => /\ pruner' \in [Threads -> Prunes] /\ pruner'[t] = rec
                       /\ \A u \in Threads \ {t} : pruner'[u] = pruner[u]
    BY <1>r, <2>1, SetFacts
  <2> QED
    BY <2>1, <2>2 DEF rec
<1> QED
  BY <1>r, <1>1, <1>2, <1>3, <1>4 DEF Visit

LEMMA StatFacts ==
    ASSUME Types, NEW t \in Threads, Stat(t)
    PROVE  LET r == pruner[t] q == pruner'[t] IN
           /\ pruner' \in [Threads -> Prunes]
           /\ \A u \in Threads \ {t} : pruner'[u] = pruner[u]
           /\ r.pc = "stat"
           /\ \/ \E victims \in SUBSET Seen(t) :
                    /\ Seen(t) \subseteq Existing
                    /\ Cardinality(victims) = Excess(Cardinality(Seen(t)))
                    /\ AreOldest(victims, Seen(t))
                    /\ q.pc = "count" /\ q.left = r.left
                    /\ DOMAIN q.seen = victims
                    /\ \A p \in victims : q.seen[p] = store[p]
              \/ q.pc = "raised" /\ DOMAIN q.seen = {}
<1>r. pruner \in [Threads -> Prunes] /\ pruner[t] \in Prunes /\ pruner[t].pc = "stat"
  BY DEF Types, Stat
<1>1. ASSUME Seen(t) \subseteq Existing, NEW victims \in SUBSET Seen(t),
             Set(t, [pruner[t] EXCEPT !.pc = "count", !.seen = [p \in victims |-> store[p]]])
      PROVE  /\ pruner' \in [Threads -> Prunes]
             /\ \A u \in Threads \ {t} : pruner'[u] = pruner[u]
             /\ pruner'[t].pc = "count" /\ pruner'[t].left = pruner[t].left
             /\ DOMAIN pruner'[t].seen = victims
             /\ \A p \in victims : pruner'[t].seen[p] = store[p]
  <2> DEFINE f == [p \in victims |-> store[p]]
             rec == [pruner[t] EXCEPT !.pc = "count", !.seen = f]
  <2>1. f \in [victims -> Times] /\ victims \in SUBSET Paths
    BY <1>1, FileFacts
  <2>2. f \in Stamped /\ DOMAIN f = victims /\ \A p \in victims : f[p] = store[p]
    BY <2>1 DEF Stamped
  <2> HIDE DEF f
  <2>3. rec \in Prunes /\ rec.pc = "count" /\ rec.seen = f /\ rec.left = pruner[t].left
    BY <1>r, <2>2 DEF Prunes, Stages
  <2>4. Set(t, rec)
    BY <1>1 DEF f
  <2> HIDE DEF rec
  <2>5. pruner' \in [Threads -> Prunes] /\ pruner'[t] = rec
        /\ \A u \in Threads \ {t} : pruner'[u] = pruner[u]
    BY <1>r, <2>3, <2>4, SetFacts
  <2> QED
    BY <2>2, <2>3, <2>5
<1>2. Set(t, Resting("raised")) =>
             /\ pruner' \in [Threads -> Prunes]
             /\ \A u \in Threads \ {t} : pruner'[u] = pruner[u]
             /\ pruner'[t].pc = "raised" /\ DOMAIN pruner'[t].seen = {}
  BY <1>r, SetFacts, RestType DEF Stages
<1>3. CASE Set(t, Resting("raised"))
  BY <1>r, <1>2, <1>3
<1>4. ASSUME Seen(t) \subseteq Existing,
             NEW victims \in kSubset(Excess(Cardinality(Seen(t))), Seen(t)),
             AreOldest(victims, Seen(t)),
             Set(t, [pruner[t] EXCEPT !.pc = "count", !.seen = [p \in victims |-> store[p]]])
      PROVE  LET r == pruner[t] q == pruner'[t] IN
             /\ pruner' \in [Threads -> Prunes]
             /\ \A u \in Threads \ {t} : pruner'[u] = pruner[u]
             /\ \E vs \in SUBSET Seen(t) :
                    /\ Cardinality(vs) = Excess(Cardinality(Seen(t)))
                    /\ AreOldest(vs, Seen(t))
                    /\ q.pc = "count" /\ q.left = r.left
                    /\ DOMAIN q.seen = vs
                    /\ \A p \in vs : q.seen[p] = store[p]
  <2>1. victims \in SUBSET Seen(t) /\ Cardinality(victims) = Excess(Cardinality(Seen(t)))
    BY <1>4 DEF kSubset
  <2> QED
    BY <1>1, <1>4, <2>1
<1> QED
  BY <1>r, <1>3, <1>4 DEF Stat

LEMMA PruneCountFacts ==
    ASSUME Types, NEW t \in Threads, PruneCount(t)
    PROVE  LET r == pruner[t] q == pruner'[t] IN
           /\ pruner' \in [Threads -> Prunes]
           /\ \A u \in Threads \ {t} : pruner'[u] = pruner[u]
           /\ r.pc = "count" /\ q.left = r.left
           /\ \/ \E p \in Seen(t) :
                    /\ IsOldest(r.seen, p)
                    /\ q.pc = "count" /\ DOMAIN q.seen = Seen(t) \ {p}
                    /\ \A x \in Seen(t) \ {p} : q.seen[x] = r.seen[x]
                    /\ Unlink(p) \/ ((p \notin Existing \/ UnlinkMayFail) /\ store' = store)
              \/ Seen(t) = {} /\ q.pc = "visit" /\ q.seen = r.seen /\ store' = store
<1>r. pruner \in [Threads -> Prunes] /\ pruner[t] \in Prunes /\ pruner[t].pc = "count"
  BY DEF Types, PruneCount
<1>1. ASSUME NEW p \in Seen(t),
             Set(t, [pruner[t] EXCEPT !.seen = Without(pruner[t].seen, p)])
      PROVE  /\ pruner' \in [Threads -> Prunes]
             /\ \A u \in Threads \ {t} : pruner'[u] = pruner[u]
             /\ pruner'[t].pc = "count" /\ pruner'[t].left = pruner[t].left
             /\ DOMAIN pruner'[t].seen = Seen(t) \ {p}
             /\ \A x \in Seen(t) \ {p} : pruner'[t].seen[x] = pruner[t].seen[x]
  <2> DEFINE f == Without(pruner[t].seen, p)
             rec == [pruner[t] EXCEPT !.seen = f]
  <2>1. f \in Stamped /\ DOMAIN f = Seen(t) \ {p}
        /\ \A x \in Seen(t) \ {p} : f[x] = pruner[t].seen[x]
    BY <1>r, StampedFacts DEF Prunes, Seen
  <2> HIDE DEF f
  <2>2. rec \in Prunes /\ rec.pc = "count" /\ rec.seen = f /\ rec.left = pruner[t].left
    BY <1>r, <2>1 DEF Prunes
  <2>3. Set(t, rec)
    BY <1>1 DEF f
  <2> HIDE DEF rec
  <2>4. pruner' \in [Threads -> Prunes] /\ pruner'[t] = rec
        /\ \A u \in Threads \ {t} : pruner'[u] = pruner[u]
    BY <1>r, <2>2, <2>3, SetFacts
  <2> QED
    BY <2>1, <2>2, <2>4
<1>2. ASSUME Set(t, [pruner[t] EXCEPT !.pc = "visit"])
      PROVE  /\ pruner' \in [Threads -> Prunes]
             /\ \A u \in Threads \ {t} : pruner'[u] = pruner[u]
             /\ pruner'[t].pc = "visit" /\ pruner'[t].left = pruner[t].left
             /\ pruner'[t].seen = pruner[t].seen
  <2> DEFINE rec == [pruner[t] EXCEPT !.pc = "visit"]
  <2>1. rec \in Prunes /\ rec.pc = "visit" /\ rec.left = pruner[t].left
        /\ rec.seen = pruner[t].seen
    BY <1>r DEF Prunes, Stages
  <2> QED
    BY <1>r, <1>2, <2>1, SetFacts
<1>3. ASSUME NEW p \in Seen(t), IsOldest(pruner[t].seen, p),
             Set(t, [pruner[t] EXCEPT !.seen = Without(pruner[t].seen, p)]),
             \/ Unlink(p)
             \/ (p \notin Existing \/ UnlinkMayFail) /\ UNCHANGED store
      PROVE  LET r == pruner[t] q == pruner'[t] IN
             /\ pruner' \in [Threads -> Prunes]
             /\ \A u \in Threads \ {t} : pruner'[u] = pruner[u]
             /\ q.left = r.left
             /\ \E x \in Seen(t) :
                    /\ IsOldest(r.seen, x)
                    /\ q.pc = "count" /\ DOMAIN q.seen = Seen(t) \ {x}
                    /\ \A y \in Seen(t) \ {x} : q.seen[y] = r.seen[y]
                    /\ Unlink(x) \/ ((x \notin Existing \/ UnlinkMayFail) /\ store' = store)
  BY <1>1, <1>3
<1> QED
  BY <1>r, <1>2, <1>3 DEF PruneCount

LEMMA ScanDirFacts ==
    ASSUME Types, NEW t \in Threads, ScanDir(t)
    PROVE  LET r == pruner[t] q == pruner'[t] IN
           /\ pruner' \in [Threads -> Prunes]
           /\ \A u \in Threads \ {t} : pruner'[u] = pruner[u]
           /\ r.pc = "scan"
           /\ \/ \E v \in r.left \cap dirs :
                    /\ q.pc = "scan" /\ q.left = r.left \ {v}
                    /\ q.total = r.total + SizeOfAll(FilesIn(v))
                    /\ DOMAIN q.seen = Seen(t) \cup FilesIn(v)
                    /\ \A p \in FilesIn(v) : q.seen[p] = store[p]
                    /\ \A p \in Seen(t) \ FilesIn(v) : q.seen[p] = r.seen[p]
              \/ (\E v \in r.left : v \notin dirs) /\ q.pc = "rest" /\ DOMAIN q.seen = {}
              \/ r.left = {} /\ q.pc = "shrink" /\ q.seen = r.seen /\ q.total = r.total
<1>r. pruner \in [Threads -> Prunes] /\ pruner[t] \in Prunes /\ pruner[t].pc = "scan"
  BY DEF Types, ScanDir
<1>1. ASSUME NEW v \in pruner[t].left, v \in dirs,
             Set(t, [pruner[t] EXCEPT
                      !.left = pruner[t].left \ {v},
                      !.total = pruner[t].total + SizeOfAll(FilesIn(v)),
                      !.seen = [p \in DOMAIN pruner[t].seen \cup FilesIn(v) |->
                                  IF p \in FilesIn(v) THEN store[p] ELSE pruner[t].seen[p]]])
      PROVE  LET r == pruner[t] q == pruner'[t] IN
             /\ pruner' \in [Threads -> Prunes]
             /\ \A u \in Threads \ {t} : pruner'[u] = pruner[u]
             /\ q.pc = "scan" /\ q.left = r.left \ {v}
             /\ q.total = r.total + SizeOfAll(FilesIn(v))
             /\ DOMAIN q.seen = Seen(t) \cup FilesIn(v)
             /\ \A p \in FilesIn(v) : q.seen[p] = store[p]
             /\ \A p \in Seen(t) \ FilesIn(v) : q.seen[p] = r.seen[p]
  <2> DEFINE f == [p \in Seen(t) \cup FilesIn(v) |->
                      IF p \in FilesIn(v) THEN store[p] ELSE pruner[t].seen[p]]
             n == pruner[t].total + SizeOfAll(FilesIn(v))
             rec == [pruner[t] EXCEPT !.left = pruner[t].left \ {v}, !.total = n, !.seen = f]
  <2>1. /\ FilesIn(v) \subseteq Existing /\ Existing \subseteq Paths
        /\ \A p \in Existing : store[p] \in Times
        /\ Seen(t) \subseteq Paths /\ IsFiniteSet(FilesIn(v))
        /\ \A p \in Seen(t) : pruner[t].seen[p] \in Times
    BY FileFacts
  <2>a. FilesIn(v) \in SUBSET Paths /\ Seen(t) \cup FilesIn(v) \in SUBSET Paths
    BY <2>1
  <2>b. ASSUME NEW p \in Seen(t) \cup FilesIn(v)
        PROVE  (IF p \in FilesIn(v) THEN store[p] ELSE pruner[t].seen[p]) \in Times
    BY <2>1, <2>b
  <2>2. f \in [Seen(t) \cup FilesIn(v) -> Times]
    BY <2>b
  <2>3. /\ f \in Stamped /\ DOMAIN f = Seen(t) \cup FilesIn(v)
        /\ \A p \in FilesIn(v) : f[p] = store[p]
        /\ \A p \in Seen(t) \ FilesIn(v) : f[p] = pruner[t].seen[p]
    BY <2>a, <2>2 DEF Stamped
  <2>4. n \in Nat
    <3>1. SizeOfAll(FilesIn(v)) \in Nat /\ pruner[t].total \in Nat
      BY <1>r, <2>1, <2>a, SumStep DEF Prunes
    <3> QED
      BY <3>1
  <2>5. Set(t, rec)
    BY <1>1 DEF Seen
  <2>6. n = pruner[t].total + SizeOfAll(FilesIn(v))
    OBVIOUS
  <2> HIDE DEF f, n
  <2>7. rec \in Prunes /\ rec.pc = "scan" /\ rec.seen = f /\ rec.total = n
        /\ rec.left = pruner[t].left \ {v}
    BY <1>r, <2>3, <2>4 DEF Prunes
  <2> HIDE DEF rec
  <2>8. pruner' \in [Threads -> Prunes] /\ pruner'[t] = rec
        /\ \A u \in Threads \ {t} : pruner'[u] = pruner[u]
    BY <1>r, <2>5, <2>7, SetFacts
  <2> QED
    BY <2>3, <2>6, <2>7, <2>8
<1>2. Set(t, Resting("rest")) =>
             /\ pruner' \in [Threads -> Prunes]
             /\ \A u \in Threads \ {t} : pruner'[u] = pruner[u]
             /\ pruner'[t].pc = "rest" /\ DOMAIN pruner'[t].seen = {}
  BY <1>r, SetFacts, RestType DEF Stages
<1>3. ASSUME Set(t, [pruner[t] EXCEPT !.pc = "shrink"])
      PROVE  /\ pruner' \in [Threads -> Prunes]
             /\ \A u \in Threads \ {t} : pruner'[u] = pruner[u]
             /\ pruner'[t].pc = "shrink" /\ pruner'[t].total = pruner[t].total
             /\ pruner'[t].seen = pruner[t].seen
  <2> DEFINE rec == [pruner[t] EXCEPT !.pc = "shrink"]
  <2>1. rec \in Prunes /\ rec.pc = "shrink" /\ rec.total = pruner[t].total
        /\ rec.seen = pruner[t].seen
    BY <1>r DEF Prunes, Stages
  <2> QED
    BY <1>r, <1>3, <2>1, SetFacts
<1> QED
  BY <1>r, <1>1, <1>2, <1>3 DEF ScanDir

LEMMA ShrinkFacts ==
    ASSUME Types, Totals, NEW t \in Threads, Shrink(t)
    PROVE  LET r == pruner[t] q == pruner'[t] IN
           /\ pruner' \in [Threads -> Prunes]
           /\ \A u \in Threads \ {t} : pruner'[u] = pruner[u]
           /\ r.pc = "shrink"
           /\ \/ \E p \in Seen(t) :
                    /\ ~Fits(r.total) /\ IsOldest(r.seen, p)
                    /\ q.pc = "shrink" /\ DOMAIN q.seen = Seen(t) \ {p}
                    /\ \A x \in Seen(t) \ {p} : q.seen[x] = r.seen[x]
                    /\ \/ /\ Unlink(p)
                          /\ dirs' = IF LeavesEmpty(p) THEN dirs \ {p[1]} ELSE dirs
                          /\ q.total = r.total - Weight(p)
                       \/ /\ p \notin Existing \/ UnlinkMayFail
                          /\ q.total = r.total /\ store' = store /\ dirs' = dirs
              \/ /\ Fits(r.total) \/ Seen(t) = {}
                 /\ q.pc = "rest" /\ DOMAIN q.seen = {} /\ store' = store /\ dirs' = dirs
<1>r. pruner \in [Threads -> Prunes] /\ pruner[t] \in Prunes /\ pruner[t].pc = "shrink"
  BY DEF Types, Shrink
<1>0. ASSUME NEW p \in Seen(t), NEW n \in Nat, NEW rec,
             rec = [pruner[t] EXCEPT !.seen = Without(pruner[t].seen, p), !.total = n],
             Set(t, rec)
      PROVE  /\ pruner' \in [Threads -> Prunes]
             /\ \A u \in Threads \ {t} : pruner'[u] = pruner[u]
             /\ pruner'[t].pc = "shrink" /\ pruner'[t].total = n
             /\ DOMAIN pruner'[t].seen = Seen(t) \ {p}
             /\ \A x \in Seen(t) \ {p} : pruner'[t].seen[x] = pruner[t].seen[x]
  <2> DEFINE f == Without(pruner[t].seen, p)
  <2>1. f \in Stamped /\ DOMAIN f = Seen(t) \ {p}
        /\ \A x \in Seen(t) \ {p} : f[x] = pruner[t].seen[x]
    BY <1>r, StampedFacts DEF Prunes, Seen
  <2>2. rec = [pruner[t] EXCEPT !.seen = f, !.total = n]
    BY <1>0
  <2> HIDE DEF f
  <2>3. rec \in Prunes /\ rec.pc = "shrink" /\ rec.seen = f /\ rec.total = n
    BY <1>r, <2>1, <2>2 DEF Prunes
  <2>4. pruner' \in [Threads -> Prunes] /\ pruner'[t] = rec
        /\ \A u \in Threads \ {t} : pruner'[u] = pruner[u]
    BY <1>r, <1>0, <2>3, SetFacts
  <2> QED
    BY <2>1, <2>3, <2>4
<1>1. ASSUME NEW p \in Seen(t),
             Set(t, [pruner[t] EXCEPT !.seen = Without(pruner[t].seen, p),
                                      !.total = pruner[t].total - SizeOf[p[1]]])
      PROVE  /\ pruner' \in [Threads -> Prunes]
             /\ \A u \in Threads \ {t} : pruner'[u] = pruner[u]
             /\ pruner'[t].pc = "shrink" /\ pruner'[t].total = pruner[t].total - Weight(p)
             /\ DOMAIN pruner'[t].seen = Seen(t) \ {p}
             /\ \A x \in Seen(t) \ {p} : pruner'[t].seen[x] = pruner[t].seen[x]
  <2>1. Seen(t) \in SUBSET Paths /\ IsFiniteSet(Seen(t)) /\ pruner[t].total \in Nat
    BY <1>r, FileFacts DEF Prunes
  <2>2. SizeOfAll(Seen(t)) = Weight(p) + SizeOfAll(Seen(t) \ {p})
    BY <2>1, SumRemove
  <2>3. SizeOfAll(Seen(t) \ {p}) \in Nat /\ Weight(p) \in Nat
    BY <2>1, SumStep, FS_Subset, WeightType
  <2>4. SizeOfAll(Seen(t)) <= pruner[t].total
    BY <1>r DEF Totals
  <2>5. pruner[t].total - Weight(p) \in Nat
    BY <2>1, <2>2, <2>3, <2>4
  <2>6. Set(t, [pruner[t] EXCEPT !.seen = Without(pruner[t].seen, p),
                                 !.total = pruner[t].total - Weight(p)])
    BY <1>1 DEF Weight
  <2> QED
    BY <1>0, <2>5, <2>6
<1>2. ASSUME NEW p \in Seen(t),
             Set(t, [pruner[t] EXCEPT !.seen = Without(pruner[t].seen, p)])
      PROVE  /\ pruner' \in [Threads -> Prunes]
             /\ \A u \in Threads \ {t} : pruner'[u] = pruner[u]
             /\ pruner'[t].pc = "shrink" /\ pruner'[t].total = pruner[t].total
             /\ DOMAIN pruner'[t].seen = Seen(t) \ {p}
             /\ \A x \in Seen(t) \ {p} : pruner'[t].seen[x] = pruner[t].seen[x]
  <2> DEFINE rec == [pruner[t] EXCEPT !.seen = Without(pruner[t].seen, p)]
  <2>1. pruner[t].total \in Nat
    BY <1>r DEF Prunes
  <2>2. rec = [pruner[t] EXCEPT !.seen = Without(pruner[t].seen, p),
                                !.total = pruner[t].total]
    BY <1>r DEF Prunes
  <2>3. Set(t, rec)
    BY <1>2
  <2> QED
    BY <1>0, <2>1, <2>2, <2>3
<1>3. Set(t, Resting("rest")) =>
             /\ pruner' \in [Threads -> Prunes]
             /\ \A u \in Threads \ {t} : pruner'[u] = pruner[u]
             /\ pruner'[t].pc = "rest" /\ DOMAIN pruner'[t].seen = {}
  BY <1>r, SetFacts, RestType DEF Stages
<1> QED
  BY <1>r, <1>1, <1>2, <1>3 DEF Shrink

LEMMA UnlinkFacts ==
    ASSUME Types, NEW p, Unlink(p)
    PROVE  /\ p \in Existing /\ store' \in Stamped /\ Existing' = Existing \ {p}
           /\ \A q \in Existing \ {p} : store'[q] = store[q]
           /\ \A v : FilesIn(v)' = FilesIn(v) \ {p}
<1>1. store \in Stamped /\ p \in Existing /\ store' = Without(store, p)
  BY DEF Types, Unlink
<1>2. store' \in Stamped /\ DOMAIN store' = DOMAIN store \ {p}
      /\ \A q \in DOMAIN store \ {p} : store'[q] = store[q]
  BY <1>1, StampedFacts
<1> QED
  BY <1>1, <1>2 DEF Existing, FilesIn

\* What a step of a prune may do outside its own record.
LEMMA PruneFrame ==
    ASSUME Types, Totals, NEW t \in Threads, PruneStep(t)
    PROVE  /\ UNCHANGED <<now, mtime, worker>>
           /\ pruner' \in [Threads -> Prunes]
           /\ \A u \in Threads \ {t} : pruner'[u] = pruner[u]
           /\ \/ store' = store /\ dirs' = dirs
              \/ \E p \in Seen(t) :
                    /\ Unlink(p)
                    /\ dirs' \in {dirs, IF LeavesEmpty(p) THEN dirs \ {p[1]} ELSE dirs}
<1>1. CASE Visit(t)
  BY <1>1, VisitFacts DEF Visit
<1>2. CASE Stat(t)
  BY <1>2, StatFacts DEF Stat
<1>3. CASE PruneCount(t)
  <2>1. UNCHANGED <<now, mtime, dirs, worker>>
    BY <1>3 DEF PruneCount
  <2> QED
    BY <1>3, <2>1, PruneCountFacts
<1>4. CASE ScanDir(t)
  <2>1. UNCHANGED <<now, mtime, dirs, store, worker>>
    BY <1>4 DEF ScanDir
  <2> QED
    BY <1>4, <2>1, ScanDirFacts
<1>5. CASE Shrink(t)
  <2>1. UNCHANGED <<now, mtime, worker>>
    BY <1>5 DEF Shrink
  <2> QED
    BY <1>5, <2>1, ShrinkFacts
<1> QED
  BY <1>1, <1>2, <1>3, <1>4, <1>5 DEF PruneStep

\* A directory that goes with its last file.
LEMMA DirsFacts ==
    ASSUME Types, NEW p, Unlink(p),
           dirs' \in {dirs, IF LeavesEmpty(p) THEN dirs \ {p[1]} ELSE dirs}
    PROVE  dirs' \subseteq Vaults /\ \A q \in Existing' : q[1] \in dirs'
<1>1. Existing' = Existing \ {p} /\ p \in Existing
  BY UnlinkFacts
<1>2. dirs \subseteq Vaults /\ \A q \in Existing : q[1] \in dirs
  BY DEF Types
<1>3. ASSUME NEW q \in Existing', dirs' # dirs PROVE q[1] \in dirs'
  <2>1. FilesIn(p[1]) = {p} /\ dirs' = dirs \ {p[1]}
    BY <1>3 DEF LeavesEmpty
  <2>2. q \in Existing /\ q # p
    BY <1>1
  <2>3. q[1] # p[1]
    BY <2>1, <2>2 DEF FilesIn
  <2> QED
    BY <1>2, <2>1, <2>2, <2>3
<1> QED
  BY <1>1, <1>2, <1>3

LEMMA CreateFacts ==
    ASSUME Types, CreateCopy, now \in Times
    PROVE  \/ /\ worker.pc = "create" /\ worker.vault \in dirs
              /\ store' \in Stamped /\ Existing' = Existing \cup {File}
              /\ store'[File] = now
              /\ \A q \in Existing \ {File} : store'[q] = store[q]
              /\ \A v : FilesIn(v)' = FilesIn(v) \cup (IF v = worker.vault THEN {File} ELSE {})
              /\ worker' \in Saves /\ worker'.pc = "stamp" /\ File' = File
              /\ worker'.vault = worker.vault /\ worker'.alone = worker.alone
              /\ worker'.stamp = worker.stamp
           \/ /\ worker.pc = "create"
              /\ store' = store /\ worker' \in Saves /\ worker'.pc = "unsaved"
              /\ worker'.vault = worker.vault /\ worker'.alone = worker.alone
              /\ worker'.stamp = worker.stamp
<1>w. worker \in Saves /\ worker.pc = "create"
  BY DEF Types, CreateCopy
<1>1. CASE /\ worker.vault \in dirs
           /\ store' = [p \in Existing \cup {File} |-> IF p = File THEN now ELSE store[p]]
           /\ worker' = [worker EXCEPT !.pc = "stamp"]
  <2>1. Existing \subseteq Paths /\ File \in Paths /\ File[1] = worker.vault
    BY FileFacts
  <2>2. \A p \in Existing : store[p] \in Times
    BY FileFacts
  <2>3. store' \in [Existing \cup {File} -> Times] /\ Existing \cup {File} \in SUBSET Paths
    BY <1>1, <2>1, <2>2
  <2>4. /\ store' \in Stamped /\ DOMAIN store' = Existing \cup {File}
        /\ store'[File] = now
        /\ \A q \in Existing \ {File} : store'[q] = store[q]
    BY <1>1, <2>3 DEF Stamped
  <2>5. /\ worker' \in Saves /\ worker'.pc = "stamp" /\ worker'.vault = worker.vault
        /\ worker'.stamp = worker.stamp /\ worker'.alone = worker.alone
    BY <1>w, <1>1 DEF Saves
  <2>6. Existing' = Existing \cup {File}
    BY <2>4 DEF Existing
  <2>7. \A v : FilesIn(v)' = FilesIn(v) \cup (IF v = worker.vault THEN {File} ELSE {})
    BY <2>1, <2>6 DEF FilesIn
  <2> QED
    BY <1>w, <1>1, <2>4, <2>5, <2>6, <2>7 DEF File
<1>2. CASE worker' = [worker EXCEPT !.pc = "unsaved"] /\ UNCHANGED store
  BY <1>w, <1>2 DEF Saves
<1> QED
  BY <1>1, <1>2 DEF CreateCopy

LEMMA StampFacts ==
    ASSUME Types, StampCopy
    PROVE  /\ worker.pc = "stamp" /\ worker' \in Saves /\ worker'.vault = worker.vault
           /\ worker'.stamp = worker.stamp /\ worker'.alone = worker.alone
           /\ File' = File /\ Existing' = Existing
           /\ \A v : FilesIn(v)' = FilesIn(v)
           /\ store' \in Stamped /\ pruner' \in [Threads -> Prunes]
           /\ pruner'["startup"] = pruner["startup"]
           /\ \/ /\ worker'.pc = "prune" /\ File \in Existing
                 /\ store'[File] = mtime[worker.vault]
                 /\ \A q \in Existing \ {File} : store'[q] = store[q]
                 /\ pruner'["rekey"].pc = "visit" /\ pruner'["rekey"].left = {worker.vault}
                 /\ DOMAIN pruner'["rekey"].seen = {}
              \/ /\ worker'.pc = "unsaved" /\ File \notin Existing
                 /\ store' = store /\ pruner' = pruner
<1>w. worker \in Saves /\ worker.pc = "stamp" /\ store \in Stamped
      /\ pruner \in [Threads -> Prunes] /\ mtime \in [Vaults -> Times]
  BY DEF Types, StampCopy
<1>t. "rekey" \in Threads /\ "startup" \in Threads
  BY DEF Threads
<1>1. CASE /\ File \in Existing
           /\ store' = [store EXCEPT ![File] = mtime[worker.vault]]
           /\ worker' = [worker EXCEPT !.pc = "prune"]
           /\ Set("rekey", Starting({worker.vault}))
  <2>1. /\ worker' \in Saves /\ worker'.pc = "prune" /\ worker'.vault = worker.vault
        /\ worker'.stamp = worker.stamp /\ worker'.alone = worker.alone
    BY <1>w, <1>1 DEF Saves
  <2>2. PICK S \in SUBSET Paths : store \in [S -> Times]
    BY <1>w DEF Stamped
  <2>3. mtime[worker.vault] \in Times
    BY <1>w DEF Saves
  <2>4. /\ store' \in Stamped /\ DOMAIN store' = DOMAIN store
        /\ store'[File] = mtime[worker.vault]
        /\ \A q \in Existing \ {File} : store'[q] = store[q]
    BY <1>1, <2>2, <2>3 DEF Stamped, Existing
  <2>5. Existing' = Existing /\ \A v : FilesIn(v)' = FilesIn(v)
    BY <2>4 DEF Existing, FilesIn
  <2>6. {worker.vault} \in SUBSET Vaults
    BY <1>w DEF Saves
  <2>7. /\ pruner' \in [Threads -> Prunes] /\ pruner'["rekey"] = Starting({worker.vault})
        /\ pruner'["startup"] = pruner["startup"]
    BY <1>w, <1>t, <1>1, <2>6, RestType, SetFacts DEF Stages
  <2>8. /\ Starting({worker.vault}).pc = "visit"
        /\ Starting({worker.vault}).left = {worker.vault}
        /\ DOMAIN Starting({worker.vault}).seen = {}
    BY <2>6, RestType DEF Stages
  <2>9. File' = File
    BY <2>1 DEF File
  <2> QED
    BY <1>w, <1>1, <2>1, <2>4, <2>5, <2>7, <2>8, <2>9
<1>2. CASE /\ File \notin Existing /\ worker' = [worker EXCEPT !.pc = "unsaved"]
           /\ UNCHANGED <<store, pruner>>
  <2>1. /\ worker' \in Saves /\ worker'.pc = "unsaved" /\ worker'.vault = worker.vault
        /\ worker'.stamp = worker.stamp /\ worker'.alone = worker.alone
    BY <1>w, <1>2 DEF Saves
  <2> QED
    BY <1>w, <1>2, <2>1 DEF File, Existing, FilesIn
<1> QED
  BY <1>1, <1>2 DEF StampCopy

-----------------------------------------------------------------------------
LEMMA TypesStep == TypeInv /\ [Next]_vars => Types'
<1> SUFFICES ASSUME TypeInv, [Next]_vars PROVE Types'
  OBVIOUS
<1> USE DEF TypeInv
<1>i. Idle \in Saves
  BY StoreAssumption DEF Idle, Saves, Times
<1>1. ASSUME NEW v \in Vaults, MakeDir(v) PROVE Types'
  <2>1. now \in Times /\ now' \in Times /\ worker' \in Saves
    BY <1>1, StoreAssumption DEF MakeDir, Types, Times, Saves
  <2> QED
    BY <1>1, <2>1 DEF MakeDir, Types, Existing
<1>2. CASE CreateCopy
  <2>1. UNCHANGED <<now, mtime, dirs, pruner>> /\ now \in Times
    BY <1>2 DEF CreateCopy, Types
  <2>2. File[1] = worker.vault
    BY FileFacts
  <2>3. store' \in Stamped /\ worker' \in Saves /\ \A p \in Existing' : p[1] \in dirs
    BY <1>2, <2>1, <2>2, CreateFacts DEF Types, Existing
  <2> QED
    BY <2>1, <2>3 DEF Types, Existing
<1>3. CASE StampCopy
  <2>1. UNCHANGED <<now, mtime, dirs>>
    BY <1>3 DEF StampCopy
  <2> QED
    BY <1>3, <2>1, StampFacts DEF Types
<1>4. CASE ReturnPath
  BY <1>4 DEF ReturnPath, Types, Saves, Existing
<1>5. CASE Overwrite
  <2>1. mtime' \in [Vaults -> Times]
    BY <1>5 DEF Overwrite, Types
  <2> QED
    BY <1>5, <1>i, <2>1 DEF Overwrite, Types, Existing
<1>6. CASE KeepVault
  BY <1>6, <1>i DEF KeepVault, Types, Existing
<1>7. ASSUME NEW p \in Existing, ReplaceCurrent(p) PROVE Types'
  <2>1. store[p] \in Times
    BY FileFacts
  <2>2. mtime' \in [Vaults -> Times]
    BY <1>7, <2>1 DEF ReplaceCurrent, Types
  <2> QED
    BY <1>7, <2>2 DEF ReplaceCurrent, Types, Existing
<1>8. ASSUME NEW p \in Existing, DeleteVersion(p) PROVE Types'
  <2>1. Unlink(p) /\ UNCHANGED <<now, mtime, worker, pruner>>
        /\ dirs' \in {dirs, IF LeavesEmpty(p) THEN dirs \ {p[1]} ELSE dirs}
    BY <1>8 DEF DeleteVersion
  <2> QED
    BY <2>1, UnlinkFacts, DirsFacts DEF Types
<1>9. ASSUME NEW t \in Threads, PruneStep(t) PROVE Types'
  <2>1. /\ UNCHANGED <<now, mtime, worker>> /\ pruner' \in [Threads -> Prunes]
        /\ \/ store' = store /\ dirs' = dirs
           \/ \E p \in Seen(t) :
                 /\ Unlink(p)
                 /\ dirs' \in {dirs, IF LeavesEmpty(p) THEN dirs \ {p[1]} ELSE dirs}
    BY <1>9, PruneFrame
  <2>2. CASE store' = store /\ dirs' = dirs
    BY <2>1, <2>2 DEF Types, Existing
  <2>3. ASSUME NEW p \in Seen(t), Unlink(p),
               dirs' \in {dirs, IF LeavesEmpty(p) THEN dirs \ {p[1]} ELSE dirs}
        PROVE  Types'
    BY <2>1, <2>3, UnlinkFacts, DirsFacts DEF Types
  <2> QED
    BY <2>1, <2>2, <2>3
<1>10. CASE UNCHANGED vars
  BY <1>10 DEF vars, Types, Existing
<1> QED
  BY <1>1, <1>2, <1>3, <1>4, <1>5, <1>6, <1>7, <1>8, <1>9, <1>10 DEF Next, WorkerStep

\* What a prune lists, it has listed before, or it is there.
LEMMA PruneSeen ==
    ASSUME Types, Totals, NEW t \in Threads, PruneStep(t)
    PROVE  /\ Seen(t)' \subseteq Seen(t) \cup Existing
           /\ \A u \in Threads \ {t} : Seen(u)' = Seen(u)
<1>0. \A u \in Threads \ {t} : Seen(u)' = Seen(u)
  BY PruneFrame DEF Seen
<1>f. \A v : FilesIn(v) \subseteq Existing
  BY DEF FilesIn
<1>1. CASE Visit(t)
  BY <1>0, <1>1, <1>f, VisitFacts DEF Seen
<1>2. CASE Stat(t)
  BY <1>0, <1>2, StatFacts DEF Seen
<1>3. CASE PruneCount(t)
  BY <1>0, <1>3, PruneCountFacts DEF Seen
<1>4. CASE ScanDir(t)
  BY <1>0, <1>4, <1>f, ScanDirFacts DEF Seen
<1>5. CASE Shrink(t)
  BY <1>0, <1>5, ShrinkFacts DEF Seen
<1> QED
  BY <1>1, <1>2, <1>3, <1>4, <1>5 DEF PruneStep

LEMMA TotalsStep == TypeInv /\ [Next]_vars => Totals'
<1> SUFFICES ASSUME TypeInv, [Next]_vars PROVE Totals'
  OBVIOUS
<1> USE DEF TypeInv
<1>1. ASSUME UNCHANGED pruner PROVE Totals'
  BY <1>1 DEF Totals, Seen
<1>2. CASE StampCopy
  <2>1. \/ pruner' = pruner
        \/ /\ pruner'["startup"] = pruner["startup"] /\ pruner'["rekey"].pc = "visit"
           /\ pruner'["startup"].seen = pruner["startup"].seen
    BY <1>2, StampFacts
  <2> QED
    BY <1>1, <2>1 DEF Totals, Seen, Threads
<1>3. ASSUME NEW t \in Threads, PruneStep(t) PROVE Totals'
  <2> DEFINE Kept(u) ==
        /\ pruner'[u].pc \in {"scan", "shrink"} => SizeOfAll(Seen(u)') <= pruner'[u].total
        /\ pruner'[u].pc = "scan" => \A p \in Seen(u)' : p[1] \notin pruner'[u].left
  <2>0. \A u \in Threads \ {t} : pruner'[u] = pruner[u] /\ Seen(u)' = Seen(u)
    BY <1>3, PruneFrame, PruneSeen
  <2>1. \A u \in Threads \ {t} : Kept(u)
    BY <2>0 DEF Totals
  <2>2. Kept(t)
    <3>s. Seen(t) \in SUBSET Paths /\ IsFiniteSet(Seen(t))
      BY FileFacts
    <3>n. pruner[t].total \in Nat
      BY DEF Types, Prunes
    <3>1. CASE Visit(t)
      <4>1. pruner'[t].pc \notin {"scan", "shrink"} \/
            (pruner'[t].pc = "scan" /\ Seen(t)' = {} /\ pruner'[t].total = 0)
        BY <3>1, VisitFacts DEF Seen
      <4>2. SizeOfAll({}) = 0
        BY SumStep, FS_EmptySet
      <4> QED
        BY <4>1, <4>2
    <3>2. CASE Stat(t)
      <4>1. pruner'[t].pc \notin {"scan", "shrink"}
        BY <3>2, StatFacts
      <4> QED
        BY <4>1
    <3>3. CASE PruneCount(t)
      <4>1. pruner'[t].pc \notin {"scan", "shrink"}
        BY <3>3, PruneCountFacts
      <4> QED
        BY <4>1
    <3>4. CASE ScanDir(t)
      <4>1. ASSUME NEW v \in pruner[t].left, pruner'[t].pc = "scan",
                   pruner'[t].left = pruner[t].left \ {v},
                   pruner'[t].total = pruner[t].total + SizeOfAll(FilesIn(v)),
                   Seen(t)' = Seen(t) \cup FilesIn(v), pruner[t].pc = "scan"
            PROVE  Kept(t)
        <5>1. FilesIn(v) \in SUBSET Paths /\ IsFiniteSet(FilesIn(v))
          BY FileFacts
        <5>2. \A p \in Seen(t) : p[1] \notin pruner[t].left
          BY <4>1 DEF Totals
        <5>3. Seen(t) \cap FilesIn(v) = {}
          BY <4>1, <5>2 DEF FilesIn
        <5>4. SizeOfAll(Seen(t) \cup FilesIn(v)) = SizeOfAll(Seen(t)) + SizeOfAll(FilesIn(v))
          BY <3>s, <5>1, <5>3, SumUnion
        <5>5. SizeOfAll(Seen(t)) \in Nat /\ SizeOfAll(FilesIn(v)) \in Nat
          BY <3>s, <5>1, SumStep
        <5>6. SizeOfAll(Seen(t)) <= pruner[t].total
          BY <4>1 DEF Totals
        <5>7. SizeOfAll(Seen(t)') <= pruner'[t].total
          BY <3>n, <4>1, <5>4, <5>5, <5>6
        <5>8. \A p \in Seen(t)' : p[1] \notin pruner'[t].left
          BY <4>1, <5>2 DEF FilesIn
        <5> QED
          BY <5>7, <5>8
      <4>2. CASE pruner'[t].pc = "rest"
        BY <4>2
      <4>3. CASE pruner'[t].pc = "shrink" /\ Seen(t)' = Seen(t)
                 /\ pruner'[t].total = pruner[t].total /\ pruner[t].pc = "scan"
        BY <4>3 DEF Totals
      <4> QED
        BY <3>4, <4>1, <4>2, <4>3, ScanDirFacts DEF Seen
    <3>5. CASE Shrink(t)
      <4>1. ASSUME NEW p \in Seen(t), Seen(t)' = Seen(t) \ {p},
                   pruner'[t].pc = "shrink", pruner[t].pc = "shrink",
                   pruner'[t].total \in {pruner[t].total, pruner[t].total - Weight(p)}
            PROVE  Kept(t)
        <5>1. SizeOfAll(Seen(t)) = Weight(p) + SizeOfAll(Seen(t) \ {p})
          BY <3>s, SumRemove
        <5>2. SizeOfAll(Seen(t) \ {p}) \in Nat /\ Weight(p) \in Nat
          BY <3>s, SumStep, FS_Subset, WeightType
        <5>3. SizeOfAll(Seen(t)) <= pruner[t].total
          BY <4>1 DEF Totals
        <5> QED
          BY <3>n, <4>1, <5>1, <5>2, <5>3
      <4>2. CASE pruner'[t].pc = "rest"
        BY <4>2
      <4> QED
        BY <3>5, <4>1, <4>2, ShrinkFacts DEF Seen
    <3> QED
      BY <1>3, <3>1, <3>2, <3>3, <3>4, <3>5 DEF PruneStep
  <2> QED
    BY <2>1, <2>2 DEF Totals, Seen
<1> QED
  BY <1>1, <1>2, <1>3
  DEF Next, WorkerStep, MakeDir, CreateCopy, ReturnPath, Overwrite, KeepVault, ReplaceCurrent,
      DeleteVersion, vars

LEMMA DatedStep == TypeInv /\ [Next]_vars => Dated'
<1> SUFFICES ASSUME TypeInv, [Next]_vars PROVE Dated'
  OBVIOUS
<1> USE DEF TypeInv
<1>t. /\ now \in Nat /\ \A v \in Vaults : mtime[v] \in Nat
      /\ Existing \subseteq Paths /\ \A p \in Existing : store[p] \in Nat /\ p[2] \in Nat
  BY FileFacts, StoreAssumption DEF Types, Times, Paths
<1>s. \A t \in Threads : \A p \in Seen(t) : p[2] \in Nat
  BY FileFacts, StoreAssumption DEF Times, Paths
<1>w. worker \in Saves /\ worker.stamp \in Nat
  BY StoreAssumption DEF Types, Saves, Times
<1>1. ASSUME NEW v \in Vaults, MakeDir(v) PROVE Dated'
  <2>1. /\ UNCHANGED <<mtime, store, pruner>> /\ now' = now + 1 /\ worker'.stamp = now
        /\ worker'.pc = "create" /\ worker'.vault = v
    BY <1>1 DEF MakeDir
  <2>2. File' = <<v, now>>
    BY <2>1 DEF File
  <2>3. \A p \in Existing : p[2] < now
    BY DEF Dated
  <2>4. \A t \in Threads : \A p \in Seen(t) : p[2] < now
    BY DEF Dated
  <2>5. File' \notin Existing /\ \A t \in Threads : File' \notin Seen(t)
    BY <1>t, <2>2, <2>3, <2>4
  <2> QED
    BY <1>t, <1>s, <2>1, <2>5 DEF Dated, Existing, Seen
<1>2. CASE CreateCopy
  <2>1. UNCHANGED <<now, mtime, dirs, pruner>> /\ now \in Times
    BY <1>2 DEF CreateCopy, Types
  <2>2. File[2] = worker.stamp /\ \A t \in Threads : Seen(t)' = Seen(t)
    BY <2>1, FileFacts DEF Seen
  <2>3. worker.pc = "create" /\ worker.stamp < now
    BY <1>2 DEF CreateCopy, Dated
  <2>4. worker'.stamp = worker.stamp /\ worker'.pc # "create"
    BY <1>2, <2>1, CreateFacts
  <2>5. \A p \in Existing' : store'[p] <= now /\ p[2] < now
    <3>1. CASE store' = store
      BY <3>1 DEF Dated, Existing
    <3>2. CASE /\ Existing' = Existing \cup {File} /\ store'[File] = now
               /\ \A q \in Existing \ {File} : store'[q] = store[q]
      BY <1>t, <2>2, <2>3, <3>2 DEF Dated
    <3> QED
      BY <1>2, <2>1, <3>1, <3>2, CreateFacts
  <2> QED
    BY <2>1, <2>2, <2>3, <2>4, <2>5 DEF Dated
<1>3. CASE StampCopy
  <2>1. UNCHANGED <<now, mtime, dirs>> /\ mtime[worker.vault] <= now
    BY <1>3, <1>w DEF StampCopy, Dated, Saves
  <2>2. /\ worker.pc = "stamp" /\ worker'.stamp = worker.stamp
        /\ worker'.pc \in {"prune", "unsaved"} /\ Existing' = Existing
        /\ store' = store \/ (/\ store'[File] = mtime[worker.vault]
                              /\ \A q \in Existing \ {File} : store'[q] = store[q])
        /\ Seen("startup")' = Seen("startup") /\ Seen("rekey")' \subseteq Seen("rekey")
    BY <1>3, StampFacts DEF Seen
  <2>3. \A p \in Existing' : store'[p] <= now /\ p[2] < now
    BY <2>1, <2>2 DEF Dated
  <2>4. \A t \in Threads : Seen(t)' \subseteq Seen(t)
    BY <2>2 DEF Threads
  <2> QED
    BY <2>1, <2>2, <2>3, <2>4 DEF Dated
<1>4. CASE ReturnPath
  BY <1>4, <1>w DEF ReturnPath, Dated, File, Seen, Existing, Saves
<1>5. CASE Overwrite
  BY <1>5, <1>t, <1>w DEF Overwrite, Dated, Idle, Types, Seen, Existing
<1>6. CASE KeepVault
  BY <1>6, <1>t, <1>w DEF KeepVault, Dated, Idle, Types, Seen, Existing
<1>7. ASSUME NEW p \in Existing, ReplaceCurrent(p) PROVE Dated'
  BY <1>7, <1>t, <1>w DEF ReplaceCurrent, Dated, Types, Seen, Existing
<1>8. ASSUME NEW p \in Existing, DeleteVersion(p) PROVE Dated'
  <2>1. Unlink(p) /\ UNCHANGED <<now, mtime, worker, pruner>> /\ worker.pc = "idle"
    BY <1>8 DEF DeleteVersion
  <2>2. Existing' = Existing \ {p} /\ \A q \in Existing \ {p} : store'[q] = store[q]
    BY <2>1, UnlinkFacts
  <2> QED
    BY <2>1, <2>2 DEF Dated, Seen
<1>9. ASSUME NEW t \in Threads, PruneStep(t) PROVE Dated'
  <2>1. UNCHANGED <<now, mtime, worker>>
    BY <1>9, PruneFrame
  <2>2. Existing' \subseteq Existing /\ \A q \in Existing' : store'[q] = store[q]
    <3>1. CASE store' = store
      BY <3>1 DEF Existing
    <3>2. CASE \E p \in Seen(t) : Unlink(p)
      BY <3>2, UnlinkFacts
    <3> QED
      BY <1>9, <3>1, <3>2, PruneFrame
  <2>3. \A u \in Threads : Seen(u)' \subseteq Seen(u) \cup Existing
    BY <1>9, PruneSeen
  <2> QED
    BY <2>1, <2>2, <2>3 DEF Dated, File
<1>10. CASE UNCHANGED vars
  BY <1>10 DEF vars, Dated, Existing, Seen, File
<1> QED
  BY <1>1, <1>2, <1>3, <1>4, <1>5, <1>6, <1>7, <1>8, <1>9, <1>10 DEF Next, WorkerStep

LEMMA TypeInitially == Init => TypeInv
<1> SUFFICES ASSUME Init PROVE TypeInv
  OBVIOUS
<1>1. PICK kept \in SUBSET (Vaults \X (0..(Past - 1))) :
        /\ now = Past + 1
        /\ mtime = [v \in Vaults |-> Past]
        /\ store = [p \in kept |-> p[2]]
        /\ dirs = {p[1] : p \in kept}
        /\ worker = Idle
        /\ pruner = [t \in Threads |->
                        IF t = "startup" /\ StartupPrune THEN Starting(dirs)
                                                         ELSE Resting("rest")]
  BY DEF Init
<1>2. \A p \in kept : p[1] \in Vaults /\ p[2] \in Nat /\ p[2] < Past /\ p[2] \in Times
  BY StoreAssumption DEF Times
<1>3. kept \in SUBSET Paths
  BY <1>2, StoreAssumption DEF Paths, Times
<1>4. store \in Stamped /\ Existing = kept
  BY <1>1, <1>2, <1>3 DEF Stamped, Existing
<1>5. worker \in Saves /\ worker.pc = "idle"
  BY <1>1, StoreAssumption DEF Idle, Saves, Times
<1>6. dirs \in SUBSET Vaults
  BY <1>1, <1>2
<1>7. /\ pruner \in [Threads -> Prunes]
      /\ \A t \in Threads : Seen(t) = {} /\ pruner[t].pc \notin {"scan", "shrink"}
  <2>1. Starting(dirs) \in Prunes /\ Resting("rest") \in Prunes
    BY <1>6, RestType DEF Stages
  <2>2. /\ DOMAIN Starting(dirs).seen = {} /\ Starting(dirs).pc = "visit"
        /\ DOMAIN Resting("rest").seen = {} /\ Resting("rest").pc = "rest"
    BY <1>6, RestType DEF Stages
  <2>3. \A t \in Threads : pruner[t] \in {Starting(dirs), Resting("rest")}
    BY <1>1
  <2>4. pruner \in [Threads -> Prunes]
    BY <1>1, <2>1
  <2> QED
    BY <2>2, <2>3, <2>4 DEF Seen
<1>8. Types
  <2>1. now \in Times /\ mtime \in [Vaults -> Times]
    BY <1>1, StoreAssumption DEF Times
  <2>2. \A p \in Existing : p[1] \in dirs
    BY <1>1, <1>4
  <2> QED
    BY <1>4, <1>5, <1>6, <1>7, <2>1, <2>2 DEF Types
<1>9. Dated
  <2>1. now \in Nat /\ Past \in Nat /\ Past < now
    BY <1>1, StoreAssumption
  <2>2. \A v \in Vaults : mtime[v] <= now
    BY <1>1, <2>1
  <2>3. \A p \in Existing : store[p] <= now /\ p[2] < now
    BY <1>1, <1>2, <1>4, <2>1
  <2> QED
    BY <1>5, <1>7, <2>2, <2>3 DEF Dated
<1> QED
  BY <1>7, <1>8, <1>9 DEF TypeInv, Totals

LEMMA TypeAlways == Spec => []TypeInv
<1>1. TypeInv /\ [Next]_vars => TypeInv'
  BY TypesStep, TotalsStep, DatedStep DEF TypeInv
<1> QED
  BY <1>1, TypeInitially, PTL DEF Spec

\* Type correctness, for any vaults, sizes and limits.
THEOREM TypeCorrect == Spec => []TypeOK
<1>1. TypeInv => TypeOK
  <2> SUFFICES ASSUME TypeInv PROVE TypeOK
    OBVIOUS
  <2>1. Types
    BY DEF TypeInv
  <2>2. Existing \subseteq Paths /\ \A p \in Existing : store[p] \in Times /\ p[1] \in dirs
    BY <2>1, FileFacts DEF Types
  <2>3. \A t \in Threads : Seen(t) \subseteq Paths
    BY <2>1, FileFacts
  <2> QED
    BY <2>1, <2>2, <2>3 DEF TypeOK, Types, Saves, Prunes, Stages
<1> QED
  BY <1>1, TypeAlways, PTL

-----------------------------------------------------------------------------
(* Who prunes *)

Over == {"rest", "raised"}

\* The worker's prune runs only within its save; prune_all not within a save
\* that began after it.
OneSaves ==
    /\ worker.pc # "prune" => pruner["rekey"].pc \in Over
    /\ worker.alone /\ worker.pc # "idle" => pruner["startup"].pc \in Over

LEMMA ThreadNames == "rekey" \in Threads /\ "startup" \in Threads /\ "rekey" # "startup"
BY DEF Threads

LEMMA PrunesOver == \A t \in Threads : PruneStep(t) => pruner[t].pc \notin Over
BY DEF PruneStep, Visit, Stat, PruneCount, ScanDir, Shrink, Over

\* During the worker's prune nothing else of it happens.
LEMMA WhilePruning ==
    ASSUME Next, worker.pc = "prune"
    PROVE  ReturnPath \/ \E t \in Threads : PruneStep(t)
BY DEF Next, WorkerStep, MakeDir, CreateCopy, StampCopy, Overwrite, KeepVault, ReplaceCurrent,
       DeleteVersion

LEMMA ReturnFacts ==
    ASSUME Types, ReturnPath
    PROVE  /\ worker.pc = "prune" /\ UNCHANGED <<now, mtime, dirs, store, pruner>>
           /\ worker'.vault = worker.vault /\ worker'.alone = worker.alone
           /\ worker'.stamp = worker.stamp /\ File' = File
           /\ \/ pruner["rekey"].pc = "rest" /\ worker'.pc = "saved"
              \/ pruner["rekey"].pc = "raised" /\ worker'.pc = "unsaved"
BY DEF ReturnPath, Types, Saves, File

LEMMA OneSavesStep == TypeInv /\ OneSaves /\ [Next]_vars => OneSaves'
<1> SUFFICES ASSUME TypeInv, OneSaves, [Next]_vars PROVE OneSaves'
  OBVIOUS
<1>t. Types /\ worker \in Saves
  BY DEF TypeInv, Types
<1>1. ASSUME NEW v \in Vaults, MakeDir(v) PROVE OneSaves'
  BY <1>1 DEF MakeDir, OneSaves, Over
<1>2. CASE CreateCopy
  <2>1. now \in Times /\ pruner' = pruner
    BY <1>2, <1>t DEF CreateCopy, Types
  <2> QED
    BY <1>2, <1>t, <2>1, CreateFacts DEF OneSaves
<1>3. CASE StampCopy
  BY <1>3, <1>t, StampFacts DEF OneSaves
<1>4. CASE ReturnPath
  BY <1>4, <1>t, ReturnFacts DEF OneSaves, Over
<1>5. CASE Overwrite \/ KeepVault
  <2>1. worker' = Idle /\ pruner' = pruner /\ worker.pc # "prune" /\ Idle.pc = "idle"
    BY <1>5 DEF Overwrite, KeepVault, Idle
  <2> QED
    BY <2>1 DEF OneSaves
<1>6. ASSUME NEW p \in Existing, ReplaceCurrent(p) \/ DeleteVersion(p) PROVE OneSaves'
  BY <1>6 DEF ReplaceCurrent, DeleteVersion, OneSaves
<1>7. ASSUME NEW t \in Threads, PruneStep(t) PROVE OneSaves'
  <2>1. worker' = worker /\ \A u \in Threads \ {t} : pruner'[u] = pruner[u]
    BY <1>7, PruneFrame DEF TypeInv
  <2>2. pruner[t].pc \notin Over
    BY <1>7, PrunesOver
  <2>3. t = "rekey" \/ t = "startup"
    BY DEF Threads
  <2> QED
    BY <2>1, <2>2, <2>3, ThreadNames DEF OneSaves
<1>8. CASE UNCHANGED vars
  BY <1>8 DEF vars, OneSaves
<1> QED
  BY <1>1, <1>2, <1>3, <1>4, <1>5, <1>6, <1>7, <1>8 DEF Next, WorkerStep

-----------------------------------------------------------------------------
(* The total size *)

\* Of a save beside which no other prune runs, the prune knows the size of what
\* it has listed, which is in the end the size of the store.
Measured ==
    LET r == pruner["rekey"] IN
    worker.alone /\ worker.pc = "prune" =>
        /\ r.pc = "scan" => /\ r.left \subseteq dirs
                            /\ Seen("rekey") = {p \in Existing : p[1] \notin r.left}
                            /\ r.total = SizeOfAll(Seen("rekey"))
        /\ r.pc = "shrink" => Seen("rekey") \subseteq Existing /\ r.total = SizeOfAll(Existing)

\* A total is that of the files, whatever else changes.
LEMMA SumPrime ==
    /\ SizeOfAll(Existing)' = SizeOfAll(Existing')
    /\ SizeOfAll(Seen("rekey"))' = SizeOfAll(Seen("rekey")')
BY DEF SizeOfAll, MapThenSumSet, MapThenFoldSet

LEMMA MeasuredStep == TypeInv /\ OneSaves /\ Measured /\ [Next]_vars => Measured'
<1> SUFFICES ASSUME TypeInv, OneSaves, Measured, [Next]_vars,
                    worker'.alone, worker'.pc = "prune"
             PROVE  LET r == pruner'["rekey"] IN
                    /\ r.pc = "scan" => /\ r.left \subseteq dirs'
                                        /\ Seen("rekey")' = {p \in Existing' : p[1] \notin r.left}
                                        /\ r.total = SizeOfAll(Seen("rekey"))'
                    /\ r.pc = "shrink" => /\ Seen("rekey")' \subseteq Existing'
                                          /\ r.total = SizeOfAll(Existing)'
  BY DEF Measured
<1> DEFINE r == pruner["rekey"]
           q == pruner'["rekey"]
<1>t. /\ Types /\ Totals /\ "rekey" \in Threads
      /\ Existing \in SUBSET Paths /\ IsFiniteSet(Existing)
      /\ Seen("rekey") \in SUBSET Paths /\ IsFiniteSet(Seen("rekey"))
  BY FileFacts, PathsFinite, ThreadNames DEF TypeInv
<1>1. CASE StampCopy
  BY <1>1, <1>t, StampFacts
<1>2. CASE UNCHANGED vars
  <2>1. /\ Seen("rekey")' = Seen("rekey") /\ Existing' = Existing /\ pruner' = pruner
        /\ dirs' = dirs /\ worker' = worker
    BY <1>2 DEF vars, Seen, Existing
  <2> QED
    BY <2>1, SumPrime DEF Measured
<1>3. CASE PruneStep("rekey")
  <2>0. worker' = worker /\ worker.alone /\ worker.pc = "prune"
    BY <1>3, <1>t, PruneFrame
  <2>1. CASE Visit("rekey")
    <3>1. q.pc # "shrink" /\ dirs' = dirs /\ store' = store
      BY <1>t, <2>1, VisitFacts DEF Visit
    <3>2. ASSUME q.pc = "scan"
          PROVE  /\ q.left = dirs /\ Seen("rekey")' = {} /\ q.total = 0
      BY <1>t, <2>1, <3>2, VisitFacts DEF Seen
    <3>3. {p \in Existing : p[1] \notin dirs} = {}
      BY <1>t DEF Types
    <3>4. SizeOfAll({}) = 0
      BY SumStep, FS_EmptySet
    <3>5. ASSUME q.pc = "scan" PROVE SizeOfAll(Seen("rekey"))' = 0
      BY <3>2, <3>4, <3>5, SumPrime
    <3> QED
      BY <3>1, <3>2, <3>3, <3>5 DEF Existing
  <2>2. CASE Stat("rekey")
    BY <1>t, <2>2, StatFacts
  <2>3. CASE PruneCount("rekey")
    BY <1>t, <2>3, PruneCountFacts
  <2>4. CASE ScanDir("rekey")
    <3>0. /\ dirs' = dirs /\ store' = store /\ Existing' = Existing
          /\ r.pc = "scan" /\ r.left \subseteq dirs
          /\ Seen("rekey") = {p \in Existing : p[1] \notin r.left}
          /\ r.total = SizeOfAll(Seen("rekey"))
      BY <1>t, <2>0, <2>4, ScanDirFacts DEF ScanDir, Measured, Existing
    <3>1. ASSUME NEW v \in r.left, q.pc = "scan", q.left = r.left \ {v},
                 q.total = r.total + SizeOfAll(FilesIn(v)),
                 Seen("rekey")' = Seen("rekey") \cup FilesIn(v)
          PROVE  /\ q.left \subseteq dirs
                 /\ Seen("rekey")' = {p \in Existing : p[1] \notin q.left}
                 /\ q.total = SizeOfAll(Seen("rekey"))'
      <4>1. FilesIn(v) \in SUBSET Paths /\ IsFiniteSet(FilesIn(v))
        BY <1>t, FileFacts
      <4>2. Seen("rekey") \cap FilesIn(v) = {}
        BY <3>0 DEF FilesIn
      <4>3. SizeOfAll(Seen("rekey") \cup FilesIn(v))
              = SizeOfAll(Seen("rekey")) + SizeOfAll(FilesIn(v))
        BY <1>t, <4>1, <4>2, SumUnion
      <4>4. SizeOfAll(Seen("rekey"))' = SizeOfAll(Seen("rekey") \cup FilesIn(v))
        BY <3>1, SumPrime
      <4>5. Seen("rekey") \cup FilesIn(v) = {p \in Existing : p[1] \notin q.left}
        BY <3>0, <3>1 DEF FilesIn
      <4> QED
        BY <3>0, <3>1, <4>3, <4>4, <4>5
    <3>2. ASSUME r.left = {}, q.pc = "shrink", Seen("rekey")' = Seen("rekey"),
                 q.total = r.total
          PROVE  Seen("rekey")' \subseteq Existing /\ q.total = SizeOfAll(Existing)
      <4>1. Seen("rekey") = Existing
        BY <3>0, <3>2
      <4> QED
        BY <3>0, <3>2, <4>1
    <3>3. SizeOfAll(Existing)' = SizeOfAll(Existing)
      BY <3>0, SumPrime
    <3> QED
      BY <1>t, <2>4, <3>0, <3>1, <3>2, <3>3, ScanDirFacts DEF Seen
  <2>5. CASE Shrink("rekey")
    <3>0. r.pc = "shrink" /\ Seen("rekey") \subseteq Existing /\ r.total = SizeOfAll(Existing)
      BY <1>t, <2>0, <2>5, ShrinkFacts DEF Measured
    <3>1. ASSUME NEW p \in Seen("rekey"), Unlink(p), Seen("rekey")' = Seen("rekey") \ {p},
                 q.total = r.total - Weight(p), q.pc = "shrink"
          PROVE  Seen("rekey")' \subseteq Existing' /\ q.total = SizeOfAll(Existing)'
      <4>1. Existing' = Existing \ {p} /\ p \in Existing
        BY <1>t, <3>1, UnlinkFacts
      <4>2. SizeOfAll(Existing) = Weight(p) + SizeOfAll(Existing \ {p})
        BY <1>t, <4>1, SumRemove
      <4>3. SizeOfAll(Existing)' = SizeOfAll(Existing \ {p})
        BY <4>1, SumPrime
      <4>4. SizeOfAll(Existing \ {p}) \in Nat /\ Weight(p) \in Nat
        BY <1>t, <4>1, SumStep, FS_Subset, WeightType
      <4> QED
        BY <3>0, <3>1, <4>1, <4>2, <4>3, <4>4
    <3>2. ASSUME NEW p \in Seen("rekey"), Seen("rekey")' = Seen("rekey") \ {p},
                 store' = store, q.total = r.total, q.pc = "shrink"
          PROVE  Seen("rekey")' \subseteq Existing' /\ q.total = SizeOfAll(Existing)'
      <4>1. Existing' = Existing
        BY <3>2 DEF Existing
      <4> QED
        BY <3>0, <3>2, <4>1, SumPrime
    <3> QED
      BY <1>t, <2>5, <3>1, <3>2, ShrinkFacts DEF Seen
  <2> QED
    BY <1>3, <2>1, <2>2, <2>3, <2>4, <2>5 DEF PruneStep
<1>4. ASSUME PruneStep("startup") PROVE FALSE
  <2>1. worker' = worker /\ pruner["startup"].pc \notin Over
    BY <1>4, <1>t, PruneFrame, PrunesOver, ThreadNames
  <2> QED
    BY <2>1 DEF OneSaves
<1>5. ASSUME Next, ~StampCopy, \A t \in Threads : ~PruneStep(t) PROVE FALSE
  <2>1. CASE CreateCopy
    BY <1>t, <2>1, CreateFacts DEF Types
  <2>2. CASE ReturnPath
    BY <1>t, <2>2, ReturnFacts
  <2> QED
    BY <1>5, <2>1, <2>2
    DEF Next, WorkerStep, MakeDir, Overwrite, KeepVault, ReplaceCurrent, DeleteVersion, Idle
<1> QED
  BY <1>1, <1>2, <1>3, <1>4, <1>5 DEF Threads

LEMMA MeasuredAlways == Spec => [](TypeInv /\ OneSaves /\ Measured)
<1>1. Init => OneSaves /\ Measured
  <2> SUFFICES ASSUME Init PROVE OneSaves /\ Measured
    OBVIOUS
  <2>1. worker.pc = "idle" /\ pruner["rekey"].pc = "rest"
    BY ThreadNames DEF Init, Idle, Resting
  <2> QED
    BY <2>1 DEF OneSaves, Measured, Over
<1> QED
  BY <1>1, TypeInitially, TypesStep, TotalsStep, DatedStep, OneSavesStep, MeasuredStep, PTL
  DEF Spec, TypeInv

\* Pruning for size deletes nothing from a store that fits, although files may fail
\* to be deleted, unless prune_all runs beside it (_prune_global_size).
THEOREM NothingGoesNeedlessly == Spec => NoNeedlessLoss
<1>1. TypeInv /\ OneSaves /\ Measured /\ [Next]_vars
        => [(worker.alone /\ pruner["rekey"].pc = "shrink" /\ store' # store)
               => SizeOfAll(Existing) > MaxTotalSize]_vars
  <2> SUFFICES ASSUME TypeInv, OneSaves, Measured, Next, worker.alone,
                      pruner["rekey"].pc = "shrink", store' # store
               PROVE  SizeOfAll(Existing) > MaxTotalSize
    BY DEF vars
  <2>t. Types /\ Totals /\ Existing \in SUBSET Paths /\ IsFiniteSet(Existing)
    BY FileFacts, PathsFinite DEF TypeInv
  <2>1. worker.pc = "prune" /\ pruner["startup"].pc \in Over
    BY DEF OneSaves, Over
  <2>2. ~ReturnPath
    BY <2>t, ReturnFacts
  <2>3. PruneStep("rekey")
    BY <2>1, <2>2, WhilePruning, PrunesOver DEF Threads
  <2>4. Shrink("rekey")
    BY <2>3 DEF PruneStep, Visit, Stat, PruneCount, ScanDir
  <2>5. ~Fits(pruner["rekey"].total)
    BY <2>t, <2>4, ShrinkFacts, ThreadNames
  <2>6. pruner["rekey"].total = SizeOfAll(Existing)
    BY <2>1 DEF Measured
  <2>7. SizeOfAll(Existing) \in Nat
    BY <2>t, SumStep
  <2> QED
    BY <2>5, <2>6, <2>7, StoreAssumption DEF Fits
<1> QED
  BY <1>1, MeasuredAlways, PTL DEF Spec, NoNeedlessLoss

\* If every file that is there can be deleted, what is listed at the end is the
\* store, and it fits when the prune returns.
Fitting ==
    worker.alone =>
        /\ worker.pc = "prune" /\ pruner["rekey"].pc = "shrink" => Seen("rekey") = Existing
        /\ worker.pc = "prune" /\ pruner["rekey"].pc = "rest" => Fits(SizeOfAll(Existing))
        /\ worker.pc = "saved" => Fits(SizeOfAll(Existing))

LEMMA FittingStep ==
    ASSUME ~UnlinkMayFail
    PROVE  TypeInv /\ OneSaves /\ Measured /\ Fitting /\ [Next]_vars => Fitting'
<1> SUFFICES ASSUME TypeInv, OneSaves, Measured, Fitting, [Next]_vars, worker'.alone
             PROVE  /\ worker'.pc = "prune" /\ pruner'["rekey"].pc = "shrink"
                          => Seen("rekey")' = Existing'
                    /\ worker'.pc = "prune" /\ pruner'["rekey"].pc = "rest"
                          => Fits(SizeOfAll(Existing'))
                    /\ worker'.pc = "saved" => Fits(SizeOfAll(Existing'))
  BY SumPrime DEF Fitting, Fits
<1> DEFINE r == pruner["rekey"]
           q == pruner'["rekey"]
<1>t. /\ Types /\ Totals /\ "rekey" \in Threads
      /\ Existing \in SUBSET Paths /\ IsFiniteSet(Existing)
  BY FileFacts, PathsFinite, ThreadNames DEF TypeInv
<1>1. CASE StampCopy
  BY <1>1, <1>t, StampFacts
<1>2. CASE UNCHANGED vars
  <2>1. /\ Seen("rekey")' = Seen("rekey") /\ Existing' = Existing /\ pruner' = pruner
        /\ worker' = worker
    BY <1>2 DEF vars, Seen, Existing
  <2> QED
    BY <2>1 DEF Fitting
<1>3. CASE ReturnPath
  <2>1. Existing' = Existing
    BY <1>3 DEF ReturnPath, Existing
  <2> QED
    BY <1>3, <1>t, <2>1, ReturnFacts DEF Fitting
<1>4. CASE PruneStep("rekey")
  <2>0. worker' = worker /\ worker.alone /\ worker.pc = "prune"
    BY <1>4, <1>t, PruneFrame, PrunesOver DEF OneSaves
  <2>1. CASE Visit("rekey")
    BY <1>t, <2>0, <2>1, VisitFacts
  <2>2. CASE Stat("rekey")
    BY <1>t, <2>0, <2>2, StatFacts
  <2>3. CASE PruneCount("rekey")
    BY <1>t, <2>0, <2>3, PruneCountFacts
  <2>4. CASE ScanDir("rekey")
    <3>1. /\ Existing' = Existing /\ r.left \subseteq dirs
          /\ Seen("rekey") = {p \in Existing : p[1] \notin r.left}
      BY <1>t, <2>0, <2>4, ScanDirFacts DEF ScanDir, Measured, Existing
    <3>2. \/ q.pc = "scan"
          \/ r.left = {} /\ q.pc = "shrink" /\ Seen("rekey")' = Seen("rekey")
      BY <1>t, <2>4, <3>1, ScanDirFacts DEF Seen
    <3>3. r.left = {} => Seen("rekey") = Existing
      BY <3>1
    <3> QED
      BY <2>0, <3>1, <3>2, <3>3
  <2>5. CASE Shrink("rekey")
    <3>0. r.pc = "shrink" /\ Seen("rekey") = Existing /\ r.total = SizeOfAll(Existing)
      BY <1>t, <2>0, <2>5, ShrinkFacts DEF Measured, Fitting
    <3>1. ASSUME NEW p \in Seen("rekey"), Unlink(p) \/ p \notin Existing,
                 Seen("rekey")' = Seen("rekey") \ {p}, q.pc = "shrink"
          PROVE  Seen("rekey")' = Existing'
      BY <1>t, <3>0, <3>1, UnlinkFacts
    <3>2. ASSUME Fits(r.total) \/ Seen("rekey") = {}, q.pc = "rest", store' = store
          PROVE  Fits(SizeOfAll(Existing'))
      <4>1. Existing' = Existing
        BY <3>2 DEF Existing
      <4>2. Existing = {} => SizeOfAll(Existing) = 0
        BY <1>t, SumStep
      <4> QED
        BY <3>0, <3>2, <4>1, <4>2, StoreAssumption DEF Fits
    <3> QED
      BY <1>t, <2>0, <2>5, <3>1, <3>2, ShrinkFacts DEF Seen
  <2> QED
    BY <1>4, <2>1, <2>2, <2>3, <2>4, <2>5 DEF PruneStep
<1>5. ASSUME PruneStep("startup"), worker'.pc # "idle" PROVE FALSE
  <2>1. worker' = worker /\ pruner["startup"].pc \notin Over
    BY <1>5, <1>t, PruneFrame, PrunesOver, ThreadNames
  <2> QED
    BY <1>5, <2>1 DEF OneSaves
<1>6. ASSUME Next, ~StampCopy, ~ReturnPath, \A t \in Threads : ~PruneStep(t)
      PROVE  worker'.pc \notin {"prune", "saved"}
  <2>1. CASE CreateCopy
    BY <1>t, <2>1, CreateFacts DEF Types
  <2> QED
    BY <1>6, <2>1
    DEF Next, WorkerStep, MakeDir, Overwrite, KeepVault, ReplaceCurrent, DeleteVersion, Idle
<1> QED
  BY <1>1, <1>2, <1>3, <1>4, <1>5, <1>6 DEF Threads

\* A save that nothing overlaps leaves the store within its size, for any vaults of
\* any sizes that fit by themselves (_prune_global_size).
THEOREM SizeIsKept ==
    ASSUME ~UnlinkMayFail
    PROVE  Spec => []SizeKept
<1>1. Init => Fitting
  BY DEF Init, Idle, Fitting
<1>2. TypeInv /\ Fitting => SizeKept
  BY DEF Fitting, SizeKept, Fits
<1> QED
  BY <1>1, <1>2, MeasuredAlways, FittingStep, PTL DEF Spec

-----------------------------------------------------------------------------
(* The number of versions *)

Few(S) == Cardinality(S) <= MaxPerVault

\* The worker's prune gets the files of its vault down to the limit: first by
\* those it has chosen, then in fact; no other thread adds one meanwhile.
Counted ==
    LET r == pruner["rekey"]
        mine == FilesIn(worker.vault)
    IN /\ worker.pc = "saved" => Few(mine)
       /\ worker.pc = "prune" =>
            /\ r.pc = "visit" => r.left = {worker.vault} \/ (r.left = {} /\ Few(mine))
            /\ r.pc = "stat" => r.left = {} /\ mine \subseteq Seen("rekey")
            /\ r.pc = "count" => r.left = {} /\ Few(mine \ Seen("rekey"))
            /\ r.pc \in {"scan", "shrink", "rest"} => Few(mine)

LEMMA Fewer ==
    ASSUME NEW S, NEW T, IsFiniteSet(T), S \subseteq T, Few(T)
    PROVE  Few(S)
BY FS_Subset, FS_CardinalityType, StoreAssumption DEF Few

LEMMA NoneFew == Few({})
BY FS_EmptySet, StoreAssumption DEF Few

\* What is not chosen for deletion is no more than the limit.
LEMMA ExcessFew ==
    ASSUME NEW S, IsFiniteSet(S), NEW V \in SUBSET S, Cardinality(V) = Excess(Cardinality(S))
    PROVE  Few(S \ V)
<1>1. S \cap V = V
  OBVIOUS
<1>2. Cardinality(S \ V) = Cardinality(S) - Cardinality(V)
  BY <1>1, FS_Difference
<1>3. Cardinality(S) \in Nat
  BY FS_CardinalityType
<1> QED
  BY <1>2, <1>3, StoreAssumption DEF Few, Excess

\* A prune adds no file to any vault.
LEMMA FilesShrink ==
    ASSUME Types, Totals, NEW t \in Threads, PruneStep(t)
    PROVE  \A v : FilesIn(v)' \subseteq FilesIn(v)
<1>1. CASE store' = store
  BY <1>1 DEF FilesIn, Existing
<1>2. CASE \E p \in Seen(t) : Unlink(p)
  BY <1>2, UnlinkFacts
<1> QED
  BY <1>1, <1>2, PruneFrame

LEMMA CountedStep ==
    ASSUME ~UnlinkMayFail
    PROVE  TypeInv /\ OneSaves /\ Counted /\ [Next]_vars => Counted'
<1> SUFFICES ASSUME TypeInv, OneSaves, Counted, [Next]_vars PROVE Counted'
  OBVIOUS
<1> DEFINE r == pruner["rekey"]
           q == pruner'["rekey"]
           mine == FilesIn(worker.vault)
<1>t. /\ Types /\ Totals /\ "rekey" \in Threads /\ worker.vault \in Vaults
      /\ IsFiniteSet(mine) /\ mine \subseteq Existing
  BY FileFacts, ThreadNames DEF TypeInv, Types, Saves
<1>1. CASE StampCopy
  BY <1>1, <1>t, StampFacts DEF Counted
<1>2. CASE UNCHANGED vars
  <2>1. /\ Seen("rekey")' = Seen("rekey") /\ pruner' = pruner /\ worker' = worker
        /\ FilesIn(worker.vault)' = FilesIn(worker.vault)
    BY <1>2 DEF vars, Seen, FilesIn, Existing
  <2> QED
    BY <2>1 DEF Counted
<1>3. CASE ReturnPath
  <2>1. FilesIn(worker.vault)' = FilesIn(worker.vault)
    BY <1>3, <1>t, ReturnFacts DEF FilesIn, Existing
  <2> QED
    BY <1>3, <1>t, <2>1, ReturnFacts DEF Counted
<1>4. CASE PruneStep("rekey")
  <2>0. worker' = worker /\ worker.pc = "prune" /\ mine' \subseteq mine
    BY <1>4, <1>t, PruneFrame, PrunesOver, FilesShrink DEF OneSaves
  <2>f. Few(mine) => Few(mine')
    BY <1>t, <2>0, Fewer
  <2>1. CASE Visit("rekey")
    <3>1. r.pc = "visit" /\ dirs' = dirs /\ store' = store /\ mine' = mine
      BY <1>t, <2>0, <2>1, VisitFacts DEF Visit, FilesIn, Existing
    <3>2. r.left = {worker.vault} \/ (r.left = {} /\ Few(mine))
      BY <2>0, <3>1 DEF Counted
    <3>3. ASSUME NEW v \in r.left, q.pc = "stat", q.left = r.left \ {v},
                 Seen("rekey")' = FilesIn(v)
          PROVE  Counted'
      BY <2>0, <3>1, <3>2, <3>3 DEF Counted
    <3>4. CASE q.pc = "raised"
      BY <2>0, <3>4 DEF Counted
    <3>5. ASSUME NEW v \in r.left, v \notin dirs, q.pc = "visit", q.left = r.left \ {v}
          PROVE  Counted'
      <4>1. v = worker.vault /\ q.left = {}
        BY <3>2, <3>5
      <4>2. mine = {}
        BY <1>t, <3>5, <4>1 DEF Types, FilesIn
      <4> QED
        BY <2>0, <3>1, <3>5, <4>1, <4>2, NoneFew DEF Counted
    <3>6. CASE r.left = {} /\ q.pc = "scan"
      BY <2>0, <3>1, <3>2, <3>6 DEF Counted
    <3> QED
      BY <1>t, <2>1, <3>3, <3>4, <3>5, <3>6, VisitFacts DEF Seen
  <2>2. CASE Stat("rekey")
    <3>1. r.pc = "stat" /\ r.left = {} /\ mine \subseteq Seen("rekey") /\ mine' = mine
      <4>1. r.pc = "stat" /\ store' = store
        BY <2>2 DEF Stat
      <4>2. mine' = mine
        BY <2>0, <4>1 DEF FilesIn, Existing
      <4> QED
        BY <2>0, <4>1, <4>2 DEF Counted
    <3>2. ASSUME NEW V \in SUBSET Seen("rekey"),
                 Cardinality(V) = Excess(Cardinality(Seen("rekey"))),
                 q.pc = "count", q.left = r.left, Seen("rekey")' = V
          PROVE  Counted'
      <4>1. IsFiniteSet(Seen("rekey"))
        BY <1>t, FileFacts
      <4>2. Few(Seen("rekey") \ V) /\ IsFiniteSet(Seen("rekey") \ V)
        BY <3>2, <4>1, ExcessFew, FS_Subset
      <4>3. Few(mine \ V)
        BY <3>1, <4>2, Fewer
      <4> QED
        BY <2>0, <3>1, <3>2, <4>3 DEF Counted
    <3>3. CASE q.pc = "raised"
      BY <2>0, <3>3 DEF Counted
    <3> QED
      BY <1>t, <2>2, <3>2, <3>3, StatFacts DEF Seen
  <2>3. CASE PruneCount("rekey")
    <3>1. r.pc = "count" /\ r.left = {} /\ q.left = {} /\ Few(mine \ Seen("rekey"))
      BY <1>t, <2>0, <2>3, PruneCountFacts DEF Counted
    <3>2. ASSUME NEW p \in Seen("rekey"), Unlink(p) \/ (p \notin Existing /\ store' = store),
                 q.pc = "count", Seen("rekey")' = Seen("rekey") \ {p}
          PROVE  Counted'
      <4>1. mine' \ Seen("rekey")' \subseteq mine \ Seen("rekey")
        <5>1. CASE Unlink(p)
          BY <1>t, <2>0, <3>2, <5>1, UnlinkFacts
        <5>2. CASE p \notin Existing
          BY <1>t, <2>0, <3>2, <5>2
        <5> QED
          BY <3>2, <5>1, <5>2
      <4>2. Few(mine' \ Seen("rekey")')
        BY <1>t, <3>1, <4>1, Fewer, FS_Subset
      <4> QED
        BY <2>0, <3>1, <3>2, <4>2 DEF Counted
    <3>3. CASE Seen("rekey") = {} /\ q.pc = "visit"
      <4>1. Few(mine)
        BY <3>1, <3>3
      <4> QED
        BY <2>0, <2>f, <3>1, <3>3, <4>1 DEF Counted
    <3> QED
      BY <1>t, <2>3, <3>2, <3>3, PruneCountFacts DEF Seen
  <2>4. CASE ScanDir("rekey")
    <3>1. r.pc = "scan" /\ q.pc \in {"scan", "shrink", "rest"}
      BY <1>t, <2>4, ScanDirFacts
    <3> QED
      BY <2>0, <2>f, <3>1 DEF Counted
  <2>5. CASE Shrink("rekey")
    <3>1. r.pc = "shrink" /\ q.pc \in {"shrink", "rest"}
      BY <1>t, <2>5, ShrinkFacts
    <3> QED
      BY <2>0, <2>f, <3>1 DEF Counted
  <2> QED
    BY <1>4, <2>1, <2>2, <2>3, <2>4, <2>5 DEF PruneStep
<1>5. CASE PruneStep("startup")
  <2>0. /\ worker' = worker /\ pruner'["rekey"] = pruner["rekey"] /\ mine' \subseteq mine
        /\ Seen("rekey")' = Seen("rekey")
    BY <1>5, <1>t, PruneFrame, FilesShrink, PruneSeen, ThreadNames
  <2>1. Few(mine) => Few(mine')
    BY <1>t, <2>0, Fewer
  <2>2. IsFiniteSet(mine \ Seen("rekey"))
    BY <1>t, FS_Subset
  <2>3. Few(mine \ Seen("rekey")) => Few(mine' \ Seen("rekey")')
    BY <2>0, <2>2, Fewer
  <2> QED
    BY <2>0, <2>1, <2>3 DEF Counted
<1>6. ASSUME Next, ~StampCopy, ~ReturnPath, \A t \in Threads : ~PruneStep(t)
      PROVE  worker'.pc \notin {"prune", "saved"}
  <2>1. CASE CreateCopy
    BY <1>t, <2>1, CreateFacts DEF Types
  <2>2. CASE \E p \in Existing : ReplaceCurrent(p) \/ DeleteVersion(p)
    BY <2>2 DEF ReplaceCurrent, DeleteVersion
  <2> QED
    BY <1>6, <2>1, <2>2 DEF Next, WorkerStep, MakeDir, Overwrite, KeepVault, Idle
<1> QED
  BY <1>1, <1>2, <1>3, <1>4, <1>5, <1>6 DEF Threads, Counted

\* A save leaves its vault within the limit, for any number of versions there were
\* before, and whatever prune_all deletes meanwhile (_prune_per_vault_by_dir).
THEOREM CountIsKept ==
    ASSUME ~UnlinkMayFail
    PROVE  Spec => []CountKept
<1>1. Init => Counted
  BY DEF Init, Idle, Counted
<1>2. Counted => CountKept
  BY DEF Counted, CountKept, Few
<1> QED
  BY <1>1, <1>2, MeasuredAlways, CountedStep, PTL DEF Spec

-----------------------------------------------------------------------------
(* Which version goes *)

NewTime == mtime[worker.vault]

\* What each prune knows of the version being saved, if it has listed it: a time
\* that is no earlier than its own, and of its vault's other versions either
\* their times or that they are no older.
Ranked(t) ==
    File \in Seen(t) =>
        /\ pruner[t].pc = "stat" => FilesIn(worker.vault) \subseteq Seen(t)
        /\ pruner[t].pc \in {"count", "scan", "shrink"} =>
              /\ NewTime <= pruner[t].seen[File]
              /\ \A q \in FilesIn(worker.vault) \ {File} :
                    \/ q \in Seen(t) /\ pruner[t].seen[q] = store[q]
                    \/ NewTime <= store[q]

\* From its copying on, the version has the time of the vault, or a later one
\* at first; when it is gone, nothing older is left of its vault.
Kept ==
    worker.pc \in {"stamp", "prune", "saved"} =>
        /\ File \in Existing => NewTime <= store[File]
        /\ worker.pc # "stamp" /\ File \in Existing => store[File] = NewTime
        /\ worker.pc # "stamp" /\ File \notin Existing =>
              \A p \in FilesIn(worker.vault) : NewTime <= store[p]
        /\ \A t \in Threads : Ranked(t)

LEMMA TimesAreNumbers ==
    ASSUME Types
    PROVE  /\ NewTime \in Nat
           /\ \A p \in Existing : store[p] \in Nat
           /\ \A t \in Threads : \A p \in Seen(t) : pruner[t].seen[p] \in Nat
<1>1. \A n \in Times : n \in Nat
  BY StoreAssumption DEF Times
<1>2. NewTime \in Times
  BY DEF Types, Saves, NewTime
<1>3. \A p \in Existing : store[p] \in Times
  BY FileFacts
<1>4. \A t \in Threads : \A p \in Seen(t) : pruner[t].seen[p] \in Times
  BY FileFacts
<1> QED
  BY <1>1, <1>2, <1>3, <1>4

\* A step of a prune changes no time of a version.
LEMMA TimesStay ==
    ASSUME Types, Totals, NEW t \in Threads, PruneStep(t)
    PROVE  /\ Existing' \subseteq Existing
           /\ \A p \in Existing' : store'[p] = store[p]
           /\ NewTime' = NewTime /\ File' = File /\ worker' = worker
<1>1. NewTime' = NewTime /\ File' = File /\ worker' = worker
  BY PruneFrame DEF NewTime, File
<1>2. CASE store' = store
  BY <1>1, <1>2 DEF Existing
<1>3. CASE \E p \in Seen(t) : Unlink(p)
  BY <1>1, <1>3, UnlinkFacts
<1> QED
  BY <1>2, <1>3, PruneFrame

\* The oldest goes: when it is the version just saved, nothing older stays.
LEMMA NothingOlderStays ==
    ASSUME Types, NEW t \in Threads, Ranked(t), pruner[t].pc \in {"count", "shrink"},
           File \in Seen(t), IsOldest(pruner[t].seen, File),
           NEW q \in FilesIn(worker.vault), q # File
    PROVE  NewTime <= store[q]
<1>1. q \in Existing
  BY DEF FilesIn
<1>2. NewTime \in Nat /\ store[q] \in Nat /\ pruner[t].seen[File] \in Nat
  BY <1>1, TimesAreNumbers
<1>3. NewTime <= pruner[t].seen[File]
  BY DEF Ranked
<1>4. CASE q \in Seen(t) /\ pruner[t].seen[q] = store[q]
  <2>1. pruner[t].seen[File] <= pruner[t].seen[q]
    BY <1>4 DEF IsOldest, Seen
  <2> QED
    BY <1>2, <1>3, <1>4, <2>1
<1> QED
  BY <1>4 DEF Ranked

\* A prune goes on knowing what Ranked says.
LEMMA RankedStep ==
    ASSUME ~UnlinkMayFail, Types, Totals, NEW t \in Threads, PruneStep(t), Ranked(t),
           File \in Existing => NewTime <= store[File]
    PROVE  Ranked(t)'
<1> DEFINE r == pruner[t]
           q == pruner'[t]
           mine == FilesIn(worker.vault)
           Known(x) == x \in Seen(t) /\ r.seen[x] = store[x]
           KnownNext(x) == x \in Seen(t)' /\ q.seen[x] = store'[x]
<1>s. /\ Existing' \subseteq Existing /\ \A p \in Existing' : store'[p] = store[p]
      /\ NewTime' = NewTime /\ File' = File /\ worker' = worker
      /\ mine' \subseteq mine /\ mine' \subseteq Existing' /\ mine \subseteq Existing
  BY TimesStay, FilesShrink DEF FilesIn
<1>n. NewTime \in Nat /\ \A p \in Existing : store[p] \in Nat
  BY TimesAreNumbers
<1> SUFFICES ASSUME File \in Seen(t)'
             PROVE  /\ q.pc = "stat" => mine' \subseteq Seen(t)'
                    /\ q.pc \in {"count", "scan", "shrink"} =>
                         /\ NewTime <= q.seen[File]
                         /\ \A x \in mine' \ {File} : KnownNext(x) \/ NewTime <= store'[x]
  BY <1>s DEF Ranked
<1>1. CASE Visit(t)
  <2>1. ASSUME NEW v, q.pc = "stat", Seen(t)' = FilesIn(v) PROVE mine' \subseteq Seen(t)'
    <3>1. File \in FilesIn(v) /\ File[1] = worker.vault
      BY <2>1, FileFacts
    <3>2. v = worker.vault
      BY <3>1 DEF FilesIn
    <3> QED
      BY <1>s, <2>1, <3>2
  <2>2. q.pc \in {"stat", "raised", "visit"} \/ (q.pc = "scan" /\ Seen(t)' = {})
    BY <1>1, VisitFacts DEF Seen
  <2>3. q.pc = "stat" => \E v : Seen(t)' = FilesIn(v)
    BY <1>1, VisitFacts DEF Seen
  <2> QED
    BY <2>1, <2>2, <2>3
<1>2. CASE Stat(t)
  <2>1. ASSUME NEW V \in SUBSET Seen(t), Seen(t) \subseteq Existing, AreOldest(V, Seen(t)),
               q.pc = "count", Seen(t)' = V, \A p \in V : q.seen[p] = store[p], r.pc = "stat"
        PROVE  /\ NewTime <= q.seen[File]
               /\ \A x \in mine' \ {File} : KnownNext(x) \/ NewTime <= store'[x]
    <3>1. File \in V /\ File \in Seen(t) /\ File \in Existing
      BY <2>1
    <3>2. NewTime <= store[File] /\ mine \subseteq Seen(t)
      BY <2>1, <3>1 DEF Ranked
    <3>3. ASSUME NEW x \in mine' \ {File} PROVE KnownNext(x) \/ NewTime <= store'[x]
      <4>1. x \in mine /\ x \in Existing' /\ store'[x] = store[x] /\ x \in Seen(t)
        BY <1>s, <3>2, <3>3
      <4>2. CASE x \in V
        BY <2>1, <4>1, <4>2
      <4>3. CASE x \notin V
        <5>1. store[File] <= store[x]
          BY <3>1, <4>1, <4>3, <2>1 DEF AreOldest
        <5>2. NewTime <= store[x]
          BY <1>n, <1>s, <3>1, <3>2, <4>1, <5>1
        <5> QED
          BY <4>1, <5>2
      <4> QED
        BY <4>2, <4>3
    <3> QED
      BY <2>1, <3>1, <3>2, <3>3
  <2> QED
    BY <1>2, <2>1, StatFacts DEF Seen
<1>3. CASE PruneCount(t) \/ Shrink(t)
  <2>1. ASSUME NEW p \in Seen(t), r.pc \in {"count", "shrink"}, q.pc = r.pc,
               Seen(t)' = Seen(t) \ {p}, \A x \in Seen(t) \ {p} : q.seen[x] = r.seen[x],
               Unlink(p) \/ p \notin Existing
        PROVE  /\ NewTime <= q.seen[File]
               /\ \A x \in mine' \ {File} : KnownNext(x) \/ NewTime <= store'[x]
    <3>1. File \in Seen(t) /\ File # p
      BY <2>1
    <3>2. NewTime <= r.seen[File] /\ q.seen[File] = r.seen[File]
      BY <2>1, <3>1 DEF Ranked
    <3>3. p \notin Existing'
      BY <1>s, <2>1, UnlinkFacts
    <3>4. ASSUME NEW x \in mine' \ {File} PROVE KnownNext(x) \/ NewTime <= store'[x]
      <4>1. x \in mine \ {File} /\ x \in Existing' /\ store'[x] = store[x] /\ x # p
        BY <1>s, <3>3, <3>4
      <4>2. Known(x) \/ NewTime <= store[x]
        BY <2>1, <3>1, <4>1 DEF Ranked
      <4> QED
        BY <2>1, <4>1, <4>2
    <3> QED
      BY <3>2, <3>4
  <2>2. CASE q.pc \in {"visit", "rest"}
    BY <2>2
  <2>3. \/ q.pc \in {"visit", "rest"}
        \/ \E p \in Seen(t) :
              /\ r.pc \in {"count", "shrink"} /\ q.pc = r.pc
              /\ Seen(t)' = Seen(t) \ {p} /\ \A x \in Seen(t) \ {p} : q.seen[x] = r.seen[x]
              /\ Unlink(p) \/ p \notin Existing
    <3>1. CASE PruneCount(t)
      BY <3>1, PruneCountFacts DEF Seen
    <3>2. CASE Shrink(t)
      BY <3>2, ShrinkFacts DEF Seen
    <3> QED
      BY <1>3, <3>1, <3>2
  <2> QED
    BY <2>1, <2>2, <2>3
<1>4. CASE ScanDir(t)
  <2>0. store' = store /\ Existing' = Existing /\ mine' = mine /\ r.pc = "scan"
    BY <1>4, <1>s DEF ScanDir, Existing, FilesIn
  <2>1. ASSUME NEW v, q.pc = "scan", Seen(t)' = Seen(t) \cup FilesIn(v),
               \A p \in FilesIn(v) : q.seen[p] = store[p],
               \A p \in Seen(t) \ FilesIn(v) : q.seen[p] = r.seen[p]
        PROVE  /\ NewTime <= q.seen[File]
               /\ \A x \in mine' \ {File} : KnownNext(x) \/ NewTime <= store'[x]
    <3>1. File[1] = worker.vault
      BY FileFacts
    <3>2. CASE v = worker.vault
      <4>1. \A x \in mine' : KnownNext(x)
        BY <2>0, <2>1, <3>2
      <4>2. File \in mine => NewTime <= q.seen[File]
        BY <1>s, <2>1, <3>2
      <4>3. File \notin mine => NewTime <= q.seen[File]
        BY <2>0, <2>1, <3>2 DEF Ranked
      <4> QED
        BY <4>1, <4>2, <4>3
    <3>3. CASE v # worker.vault
      <4>1. File \notin FilesIn(v) /\ \A x \in mine : x \notin FilesIn(v)
        BY <3>1, <3>3 DEF FilesIn
      <4>2. File \in Seen(t) /\ q.seen[File] = r.seen[File]
        BY <2>1, <4>1
      <4>3. NewTime <= r.seen[File] /\ \A x \in mine \ {File} : Known(x) \/ NewTime <= store[x]
        BY <2>0, <4>2 DEF Ranked
      <4>4. \A x \in mine : Known(x) => KnownNext(x)
        BY <2>0, <2>1, <4>1
      <4> QED
        BY <2>0, <4>2, <4>3, <4>4
    <3> QED
      BY <3>2, <3>3
  <2>2. CASE q.pc = "rest"
    BY <2>2
  <2>3. CASE q.pc = "shrink" /\ q.seen = r.seen
    BY <2>0, <2>3 DEF Ranked, Seen
  <2> QED
    BY <1>4, <2>1, <2>2, <2>3, ScanDirFacts DEF Seen
<1> QED
  BY <1>1, <1>2, <1>3, <1>4 DEF PruneStep

LEMMA KeptStep ==
    ASSUME ~UnlinkMayFail
    PROVE  TypeInv /\ Kept /\ [Next]_vars => Kept'
<1> SUFFICES ASSUME TypeInv, Kept, [Next]_vars, worker'.pc \in {"stamp", "prune", "saved"}
             PROVE  /\ File' \in Existing' => NewTime' <= store'[File']
                    /\ worker'.pc # "stamp" /\ File' \in Existing' => store'[File'] = NewTime'
                    /\ worker'.pc # "stamp" /\ File' \notin Existing' =>
                          \A p \in FilesIn(worker.vault)' : NewTime' <= store'[p]
                    /\ \A t \in Threads : Ranked(t)'
  BY DEF Kept
<1>t. Types /\ Totals /\ Dated
  BY DEF TypeInv
<1>n. NewTime \in Nat /\ \A p \in Existing : store[p] \in Nat
  BY <1>t, TimesAreNumbers
<1>1. CASE CreateCopy
  <2>1. /\ UNCHANGED <<now, mtime, dirs, pruner>> /\ now \in Times /\ worker.pc = "create"
        /\ worker.vault \in Vaults
    BY <1>1, <1>t DEF CreateCopy, Types, Saves
  <2>2. /\ worker'.pc = "stamp" /\ worker'.vault = worker.vault /\ File' = File
        /\ store'[File] = now
    BY <1>1, <1>t, <2>1, CreateFacts
  <2>3. NewTime' = NewTime /\ NewTime <= now
    BY <1>t, <2>1, <2>2 DEF NewTime, Dated
  <2>4. \A t \in Threads : Seen(t)' = Seen(t) /\ File \notin Seen(t)
    BY <1>t, <2>1 DEF Seen, Dated
  <2>5. \A t \in Threads : Ranked(t)'
    BY <2>2, <2>4 DEF Ranked
  <2> QED
    BY <2>2, <2>3, <2>5
<1>2. CASE StampCopy
  <2>1. /\ mtime' = mtime /\ worker.pc = "stamp" /\ worker'.vault = worker.vault
        /\ worker'.pc = "prune" /\ File' = File /\ Existing' = Existing
        /\ FilesIn(worker.vault)' = FilesIn(worker.vault)
        /\ File \in Existing /\ store'[File] = mtime[worker.vault]
        /\ \A q \in Existing \ {File} : store'[q] = store[q]
        /\ Seen("rekey")' = {} /\ pruner'["startup"] = pruner["startup"]
        /\ Seen("startup")' = Seen("startup")
    BY <1>2, <1>t, StampFacts DEF StampCopy, Seen
  <2>2. NewTime' = NewTime /\ store'[File'] = NewTime
    BY <2>1 DEF NewTime
  <2>3. Ranked("rekey")'
    BY <2>1 DEF Ranked
  <2>4. Ranked("startup")'
    <3>1. Ranked("startup")
      BY <2>1, ThreadNames DEF Kept
    <3>2. FilesIn(worker.vault) \subseteq Existing
      BY DEF FilesIn
    <3> QED
      BY <2>1, <2>2, <3>1, <3>2 DEF Ranked
  <2> QED
    BY <1>n, <2>1, <2>2, <2>3, <2>4 DEF Threads
<1>3. CASE ReturnPath \/ UNCHANGED vars
  <2>1. /\ UNCHANGED <<mtime, store, pruner>> /\ worker'.vault = worker.vault /\ File' = File
        /\ worker.pc \in {"stamp", "prune", "saved"}
        /\ worker.pc = "stamp" => worker'.pc = "stamp"
    BY <1>3, <1>t, ReturnFacts DEF vars, File
  <2>2. /\ NewTime' = NewTime /\ Existing' = Existing
        /\ FilesIn(worker.vault)' = FilesIn(worker.vault)
        /\ \A t \in Threads : Seen(t)' = Seen(t)
    BY <2>1 DEF NewTime, Existing, FilesIn, Seen
  <2>3. worker'.pc # "stamp" => worker.pc # "stamp"
    BY <1>3, <1>t, ReturnFacts DEF vars
  <2>4. \A t \in Threads : Ranked(t)'
    <3> SUFFICES ASSUME NEW t \in Threads PROVE Ranked(t)'
      OBVIOUS
    <3>1. Ranked(t)
      BY <2>1 DEF Kept
    <3> QED
      BY <2>1, <2>2, <3>1 DEF Ranked
  <2> QED
    BY <2>1, <2>2, <2>3, <2>4 DEF Kept
<1>4. ASSUME NEW t \in Threads, PruneStep(t)
      PROVE  /\ File' \in Existing' => NewTime' <= store'[File']
             /\ worker'.pc # "stamp" /\ File' \in Existing' => store'[File'] = NewTime'
             /\ worker'.pc # "stamp" /\ File' \notin Existing' =>
                   \A p \in FilesIn(worker.vault)' : NewTime' <= store'[p]
             /\ \A u \in Threads : Ranked(u)'
  <2>1. /\ Existing' \subseteq Existing /\ \A p \in Existing' : store'[p] = store[p]
        /\ NewTime' = NewTime /\ File' = File /\ worker' = worker
        /\ FilesIn(worker.vault)' \subseteq FilesIn(worker.vault)
        /\ FilesIn(worker.vault)' \subseteq Existing'
    BY <1>4, <1>t, TimesStay, FilesShrink DEF FilesIn
  <2>2. /\ File \in Existing => NewTime <= store[File]
        /\ worker.pc # "stamp" /\ File \in Existing => store[File] = NewTime
        /\ worker.pc # "stamp" /\ File \notin Existing =>
              \A p \in FilesIn(worker.vault) : NewTime <= store[p]
        /\ \A u \in Threads : Ranked(u)
    BY <2>1 DEF Kept
  <2>3. ASSUME File \in Existing, File \notin Existing', NEW p \in FilesIn(worker.vault)'
        PROVE  NewTime <= store'[p]
    <3>1. PICK x \in Seen(t) : Unlink(x)
      BY <1>4, <1>t, <2>3, PruneFrame DEF Existing
    <3>2. x = File
      BY <1>t, <2>3, <3>1, UnlinkFacts
    <3>3. store' # store
      BY <2>3 DEF Existing
    <3>4. PruneCount(t) \/ Shrink(t)
      BY <1>4, <3>3 DEF PruneStep, Visit, Stat, ScanDir
    <3>5. pruner[t].pc \in {"count", "shrink"} /\ \E y \in Seen(t) :
              IsOldest(pruner[t].seen, y) /\ (Unlink(y) \/ store' = store)
      <4>1. CASE PruneCount(t)
        BY <1>t, <3>3, <4>1, PruneCountFacts
      <4>2. CASE Shrink(t)
        BY <1>t, <3>3, <4>2, ShrinkFacts
      <4> QED
        BY <3>4, <4>1, <4>2
    <3>6. File \in Seen(t) /\ IsOldest(pruner[t].seen, File)
      <4>1. PICK y \in Seen(t) : IsOldest(pruner[t].seen, y) /\ Unlink(y)
        BY <3>3, <3>5
      <4>2. y = File
        BY <1>t, <2>3, <4>1, UnlinkFacts
      <4> QED
        BY <4>1, <4>2
    <3>7. p \in FilesIn(worker.vault) /\ p # File /\ store'[p] = store[p]
      BY <2>1, <2>3
    <3> QED
      BY <1>t, <2>2, <3>5, <3>6, <3>7, NothingOlderStays
  <2>4. Ranked(t)'
    BY <1>4, <1>t, <2>2, RankedStep
  <2>5. ASSUME NEW u \in Threads \ {t} PROVE Ranked(u)'
    <3>1. pruner'[u] = pruner[u] /\ Seen(u)' = Seen(u) /\ Ranked(u)
      BY <1>4, <1>t, <2>2, PruneFrame, PruneSeen
    <3> QED
      BY <2>1, <3>1 DEF Ranked
  <2>6. ASSUME worker'.pc # "stamp", File' \notin Existing', NEW p \in FilesIn(worker.vault)'
        PROVE  NewTime' <= store'[p]
    <3>1. CASE File \in Existing
      BY <2>1, <2>3, <2>6, <3>1
    <3>2. CASE File \notin Existing
      BY <2>1, <2>2, <2>6, <3>2
    <3> QED
      BY <3>1, <3>2
  <2> QED
    BY <2>1, <2>2, <2>4, <2>5, <2>6
<1>5. ASSUME Next, ~CreateCopy, ~StampCopy, ~ReturnPath, \A t \in Threads : ~PruneStep(t)
      PROVE  FALSE
  <2>1. ASSUME NEW p \in Existing, ReplaceCurrent(p) \/ DeleteVersion(p) PROVE FALSE
    BY <2>1 DEF ReplaceCurrent, DeleteVersion
  <2> QED
    BY <1>5, <2>1 DEF Next, WorkerStep, MakeDir, Overwrite, KeepVault, Idle
<1> QED
  BY <1>1, <1>2, <1>3, <1>4, <1>5

\* What save_version has just saved goes at once only when the vault was no newer
\* than every version of it that stays, although two threads prune by times they
\* read earlier (_prune_per_vault_by_dir, _prune_global_size).
THEOREM OldestGoesFirst ==
    ASSUME ~UnlinkMayFail
    PROVE  Spec => []SavedUnlessOlder
<1>1. Init => Kept
  BY DEF Init, Idle, Kept
<1>2. Kept => SavedUnlessOlder
  BY DEF Kept, SavedUnlessOlder, NewTime
<1> QED
  BY <1>1, <1>2, TypeAlways, KeptStep, PTL DEF Spec
=============================================================================

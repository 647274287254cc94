-------------------------- MODULE PlacementProofs --------------------------
(***************************************************************************)
(* Proofs about Placement: what the records promise of a node never        *)
(* exceeds it, nor do its containers where none can lose its record, and a *)
(* job goes to the least loaded node.  The library has no induction a      *)
(* prover here can use; the lemmas on sums and on least elements take a    *)
(* smallest counterexample among the subsets of a finite set instead.      *)
(***************************************************************************)
EXTENDS Placement, FiniteSetTheorems, TLAPS

(***************************************************************************)
(* Sums and least elements                                                 *)
(***************************************************************************)

(* Among subsets of a finite set there is one that contains no other.       *)
LEMMA Smallest ==
  ASSUME NEW S, IsFiniteSet(S), NEW T \in SUBSET SUBSET S, T # {}
  PROVE  \E s \in T : \A t \in T : t \subseteq s => t = s
<1>1. IsWellFoundedOn(StrictSubsetOrdering(S), SUBSET S)
  BY FS_StrictSubsetOrderingWellFounded, FS_FiniteSubsetsOfFinite
<1>2. PICK s \in T : \A t \in T : <<t, s>> \notin StrictSubsetOrdering(S)
  BY <1>1, WFMin
<1> QED BY <1>2 DEF StrictSubsetOrdering

(* The element the fold behind SumFunctionOnSet takes first, its recursion, and*)
(* the function that recursion defines.                                     *)
First(s) == CHOOSE x \in s : TRUE
Adds(f, w, A) ==
  f = [s \in SUBSET A |-> IF s = {} THEN 0 ELSE w[First(s)] + f[s \ {First(s)}]]

Adder(w, A) == CHOOSE f : Adds(f, w, A)

(* A sum is the value of that function at the whole set.                    *)
LEMMA SumIs ==
  ASSUME NEW w, NEW A
  PROVE  SumFunctionOnSet(w, A) = Adder(w, A)[A]
  BY DEF SumFunctionOnSet, FoldFunctionOnSet, MapThenFoldSet, Adder, Adds, First

(* What the recursion says of one set.                                      *)
LEMMA AddsEq ==
  ASSUME NEW f, NEW w, NEW A, Adds(f, w, A), NEW s \in SUBSET A
  PROVE  /\ s = {} => f[s] = 0
         /\ s # {} => /\ First(s) \in s
                      /\ f[s] = w[First(s)] + f[s \ {First(s)}]
<1>1. f[s] = IF s = {} THEN 0 ELSE w[First(s)] + f[s \ {First(s)}]
  BY DEF Adds
<1>2. s # {} => First(s) \in s
  BY DEF First
<1> QED BY <1>1, <1>2

(* Two solutions of the recursion agree where both are defined.             *)
LEMMA AddersAgree ==
  ASSUME NEW w, NEW A, IsFiniteSet(A), NEW B, NEW f, Adds(f, w, A), NEW g, Adds(g, w, B),
         NEW s \in SUBSET A, s \subseteq B
  PROVE  f[s] = g[s]
<1> DEFINE T == {t \in SUBSET A : t \subseteq B /\ f[t] # g[t]}
<1> SUFFICES ASSUME T # {} PROVE FALSE
  OBVIOUS
<1>1. PICK t \in T : \A u \in T : u \subseteq t => u = t
  <2>1. T \in SUBSET SUBSET A
    OBVIOUS
  <2> HIDE DEF T
  <2> QED BY <2>1, Smallest
<1>2. t # {} /\ First(t) \in t
  BY <1>1, AddsEq
<1>3. t \ {First(t)} \notin T
  BY <1>1, <1>2
<1>4. f[t \ {First(t)}] = g[t \ {First(t)}]
  BY <1>1, <1>3
<1>5. f[t] = w[First(t)] + f[t \ {First(t)}] /\ g[t] = w[First(t)] + g[t \ {First(t)}]
  BY <1>1, <1>2, AddsEq
<1> QED BY <1>1, <1>4, <1>5

(* The recursion has a solution on every finite set, so the sum is given by it.*)
LEMMA AdderExists ==
  ASSUME NEW w, NEW A, IsFiniteSet(A)
  PROVE  Adds(Adder(w, A), w, A)
<1> DEFINE T == {t \in SUBSET A : ~Adds(Adder(w, t), w, t)}
<1> SUFFICES ASSUME T # {} PROVE FALSE
  OBVIOUS
<1>1. PICK t \in T : \A u \in T : u \subseteq t => u = t
  <2>1. T \in SUBSET SUBSET A
    OBVIOUS
  <2> HIDE DEF T
  <2> QED BY <2>1, Smallest
<1>2. \A u \in SUBSET t : u # t => Adds(Adder(w, u), w, u) /\ IsFiniteSet(u)
  BY <1>1, FS_Subset
<1> DEFINE rest(s) == s \ {First(s)}
           g == [s \in SUBSET t |-> IF s = {} THEN 0 ELSE w[First(s)] + Adder(w, rest(s))[rest(s)]]
<1>3. ASSUME NEW u \in SUBSET t, u # t PROVE g[u] = Adder(w, u)[u]
  <2>1. Adds(Adder(w, u), w, u)
    BY <1>2, <1>3
  <2>2. CASE u = {}
    BY <2>1, <2>2, AddsEq
  <2>3. CASE u # {}
    <3>1. Adder(w, u)[u] = w[First(u)] + Adder(w, u)[rest(u)] /\ First(u) \in u
      BY <2>1, <2>3, AddsEq
    <3>2. Adds(Adder(w, rest(u)), w, rest(u)) /\ IsFiniteSet(rest(u))
      BY <1>2, <3>1
    <3>3. Adder(w, u)[rest(u)] = Adder(w, rest(u))[rest(u)]
      BY <2>1, <3>2, AddersAgree
    <3> QED BY <2>3, <3>1, <3>3
  <2> QED BY <2>2, <2>3
<1>4. ASSUME NEW s \in SUBSET t, s # {} PROVE g[rest(s)] = Adder(w, rest(s))[rest(s)]
  <2>1. First(s) \in s
    BY <1>4 DEF First
  <2> QED BY <1>3, <2>1
<1>5. \A s \in SUBSET t : g[s] = IF s = {} THEN 0 ELSE w[First(s)] + g[rest(s)]
  BY <1>4
<1>6. Adds(g, w, t)
  <2> DEFINE h == [s \in SUBSET t |-> IF s = {} THEN 0 ELSE w[First(s)] + g[s \ {First(s)}]]
  <2>1. \A s \in SUBSET t : g[s] = h[s]
    BY <1>5
  <2>2. g = h
    BY <2>1
  <2> QED BY <2>2 DEF Adds
<1>7. Adds(Adder(w, t), w, t)
  BY <1>6 DEF Adder
<1> QED BY <1>1, <1>7

(* Nothing asks for nothing.                                                *)
LEMMA SumEmpty == ASSUME NEW w PROVE SumFunctionOnSet(w, {}) = 0
  BY SumIs, AdderExists, AddsEq, FS_EmptySet

(* A sum is its first term and the sum of the others.                       *)
LEMMA SumFirst ==
  ASSUME NEW w, NEW A, IsFiniteSet(A), A # {}
  PROVE  /\ First(A) \in A
         /\ SumFunctionOnSet(w, A) = w[First(A)] + SumFunctionOnSet(w, A \ {First(A)})
<1> DEFINE B == A \ {First(A)}
<1>1. Adds(Adder(w, A), w, A) /\ Adds(Adder(w, B), w, B)
  BY AdderExists, FS_RemoveElement
<1>2. First(A) \in A /\ Adder(w, A)[A] = w[First(A)] + Adder(w, A)[B]
  <2> DEFINE f == Adder(w, A)
  <2>1. Adds(f, w, A) /\ A \in SUBSET A
    BY <1>1
  <2> HIDE DEF f
  <2>2. /\ A # {} => /\ First(A) \in A
                     /\ f[A] = w[First(A)] + f[A \ {First(A)}]
    BY ONLY <2>1, AddsEq
  <2> QED BY <2>2 DEF f, B
<1>3. Adder(w, A)[B] = Adder(w, B)[B]
  BY <1>1, AddersAgree
<1> QED BY <1>2, <1>3, SumIs

(* A sum of natural numbers is one.                                         *)
LEMMA SumType ==
  ASSUME NEW w, NEW A, IsFiniteSet(A), \A x \in A : w[x] \in Nat
  PROVE  SumFunctionOnSet(w, A) \in Nat
<1> DEFINE T == {t \in SUBSET A : SumFunctionOnSet(w, t) \notin Nat}
<1> SUFFICES ASSUME T # {} PROVE FALSE
  OBVIOUS
<1>1. PICK t \in T : \A u \in T : u \subseteq t => u = t
  <2>1. T \in SUBSET SUBSET A
    OBVIOUS
  <2> HIDE DEF T
  <2> QED BY <2>1, Smallest
<1>2. t # {} /\ IsFiniteSet(t)
  <2>1. IsFiniteSet(t)
    BY <1>1, FS_Subset
  <2>2. SumFunctionOnSet(w, t) # 0
    BY <1>1
  <2> QED BY <2>1, <2>2, SumEmpty
<1> DEFINE u == t \ {First(t)}
<1>3. First(t) \in t /\ SumFunctionOnSet(w, t) = w[First(t)] + SumFunctionOnSet(w, u)
  BY <1>2, SumFirst
<1>4. SumFunctionOnSet(w, u) \in Nat
  BY <1>1, <1>3
<1> QED BY <1>1, <1>3, <1>4

(* It does not matter which term is taken out first.                        *)
LEMMA SumRemove ==
  ASSUME NEW w, NEW A, IsFiniteSet(A), \A x \in A : w[x] \in Nat, NEW a \in A
  PROVE  SumFunctionOnSet(w, A) = w[a] + SumFunctionOnSet(w, A \ {a})
<1> DEFINE T == {t \in SUBSET A :
                   \E x \in t : SumFunctionOnSet(w, t) # w[x] + SumFunctionOnSet(w, t \ {x})}
<1> SUFFICES ASSUME T # {} PROVE FALSE
  OBVIOUS
<1>1. PICK t \in T : \A u \in T : u \subseteq t => u = t
  <2>1. T \in SUBSET SUBSET A
    OBVIOUS
  <2> HIDE DEF T
  <2> QED BY <2>1, Smallest
<1>2. PICK x \in t : SumFunctionOnSet(w, t) # w[x] + SumFunctionOnSet(w, t \ {x})
  BY <1>1
<1>3. \A u \in SUBSET A : IsFiniteSet(u) /\ SumFunctionOnSet(w, u) \in Nat
  BY FS_Subset, SumType
<1> DEFINE c == First(t)
<1>4. c \in t /\ SumFunctionOnSet(w, t) = w[c] + SumFunctionOnSet(w, t \ {c})
  BY <1>1, <1>2, <1>3, SumFirst
<1> HIDE DEF c
<1>5. x # c
  BY <1>2, <1>4
<1> DEFINE rest == t \ {c, x}
<1>6. \A u \in SUBSET t : u # t => \A y \in u :
        SumFunctionOnSet(w, u) = w[y] + SumFunctionOnSet(w, u \ {y})
  BY <1>1
<1>7. SumFunctionOnSet(w, t \ {c}) = w[x] + SumFunctionOnSet(w, rest)
  <2>1. (t \ {c}) \ {x} = rest /\ x \in t \ {c} /\ t \ {c} # t
    BY <1>4, <1>5
  <2> QED BY <1>6, <2>1
<1>8. SumFunctionOnSet(w, t \ {x}) = w[c] + SumFunctionOnSet(w, rest)
  <2>1. (t \ {x}) \ {c} = rest /\ c \in t \ {x} /\ t \ {x} # t
    BY <1>4, <1>5
  <2> QED BY <1>6, <2>1
<1>9. w[x] \in Nat /\ w[c] \in Nat /\ SumFunctionOnSet(w, rest) \in Nat
  BY <1>1, <1>3, <1>4
<1> QED BY <1>2, <1>4, <1>7, <1>8, <1>9

(* A finite set with a strict total order has a least element.              *)
LEMMA LeastExists ==
  ASSUME NEW S, IsFiniteSet(S), S # {}, NEW R,
         \A x, y \in S : x = y \/ <<x, y>> \in R \/ <<y, x>> \in R,
         \A x, y, z \in S : <<x, y>> \in R /\ <<y, z>> \in R => <<x, z>> \in R
  PROVE  \E x \in S : \A y \in S \ {x} : <<x, y>> \in R
<1> DEFINE HasLeast(t) == \E x \in t : \A y \in t \ {x} : <<x, y>> \in R
           T == {t \in SUBSET S : t # {} /\ ~HasLeast(t)}
<1> SUFFICES ASSUME T # {} PROVE FALSE
  OBVIOUS
<1>1. PICK t \in T : \A u \in T : u \subseteq t => u = t
  <2>1. T \in SUBSET SUBSET S
    OBVIOUS
  <2> HIDE DEF T
  <2> QED BY <2>1, Smallest
<1>2. PICK a \in t : TRUE
  BY <1>1
<1>3. CASE t \ {a} = {}
  BY <1>1, <1>2, <1>3
<1>4. CASE t \ {a} # {}
  <2>1. t \ {a} \notin T
    <3> HIDE DEF T
    <3> QED BY <1>1, <1>2
  <2>2. PICK b \in t \ {a} : \A y \in (t \ {a}) \ {b} : <<b, y>> \in R
    BY <1>1, <1>4, <2>1
  <2>3. a \in S /\ b \in S /\ t \subseteq S
    BY <1>1, <1>2, <2>2
  <2>4. CASE <<a, b>> \in R
    <3>1. \A y \in t \ {a} : <<a, y>> \in R
      BY <2>2, <2>3, <2>4
    <3> QED BY <1>1, <1>2, <3>1
  <2>5. CASE <<b, a>> \in R
    <3>1. \A y \in t \ {b} : <<b, y>> \in R
      BY <2>2, <2>3, <2>5
    <3> QED BY <1>1, <2>2, <3>1
  <2> QED BY <2>2, <2>3, <2>4, <2>5
<1> QED BY <1>3, <1>4

(***************************************************************************)
(* Place                                                                   *)
(***************************************************************************)
(* What Place compares is a number.                                         *)
Measured(nodes) ==
  \A i \in DOMAIN nodes : /\ nodes[i].running \in Int
                          /\ nodes[i].freeCPU \in Int /\ nodes[i].freeMemory \in Int

(* What the stable sort puts first, as a relation between nodes.            *)
Precedes(nodes, i, k) ==
  \/ Before(nodes[i], nodes[k])
  \/ ~Before(nodes[k], nodes[i]) /\ i < k

(* Place returns the candidate that precedes all the others, if there is    *)
(* any candidate.                                                           *)
LEMMA PlaceFirst ==
  ASSUME NEW req, NEW nodes, IsFiniteSet(DOMAIN nodes), DOMAIN nodes \subseteq Nat \ {0},
         Measured(nodes), Place(req, nodes) # NoPlacement
  PROVE  /\ Place(req, nodes) \in Candidates(req, nodes)
         /\ \A k \in Candidates(req, nodes) \ {Place(req, nodes)} :
              Precedes(nodes, Place(req, nodes), k)
<1> DEFINE C == Candidates(req, nodes)
           R == {p \in C \X C : Precedes(nodes, p[1], p[2])}
<1>1. C \subseteq DOMAIN nodes /\ IsFiniteSet(C)
  BY FS_Subset DEF Candidates
<1>2. C # {}
  BY DEF Place
<1> HIDE DEF C
<1>3. \A x, y \in C : <<x, y>> \in R <=> Precedes(nodes, x, y)
  OBVIOUS
<1> HIDE DEF R
<1>4. \A x, y \in C : x = y \/ Precedes(nodes, x, y) \/ Precedes(nodes, y, x)
  BY <1>1 DEF Precedes, Before, Measured
<1>5. \A x, y, z \in C : Precedes(nodes, x, y) /\ Precedes(nodes, y, z) => Precedes(nodes, x, z)
  BY <1>1 DEF Precedes, Before, Measured
<1>6. \E x \in C : \A y \in C \ {x} : Precedes(nodes, x, y)
  <2>1. \E x \in C : \A y \in C \ {x} : <<x, y>> \in R
    BY <1>1, <1>2, <1>3, <1>4, <1>5, LeastExists
  <2> QED BY <2>1, <1>3
<1>7. Place(req, nodes) = CHOOSE i \in C : \A k \in C \ {i} : Precedes(nodes, i, k)
  BY <1>2 DEF C, Place, Precedes
<1> QED BY <1>6, <1>7 DEF C

(***************************************************************************)
(* The constants, the sums and the reports                                 *)
(***************************************************************************)
(* What the assumption on the constants says of one job and of one node.    *)
LEMMA Given ==
  /\ IsFiniteSet(Jobs) /\ IsFiniteSet(Nodes) /\ Nodes \subseteq Nat \ {0}
  /\ \A j \in Jobs : Request[j] \in Requirement
  /\ \A n \in Nodes : Machines[n] \in Machine /\ Others[n] \in 0..Machines[n].memory
<1>1. Len(Machines) \in Nat /\ Nodes = 1..Len(Machines)
  BY PlacementAssumption DEF Nodes
<1>2. IsFiniteSet(Nodes)
  BY <1>1, FS_Interval
<1>3. \A n \in Nodes : Machines[n] \in Machine
  BY <1>1, PlacementAssumption
<1> QED BY <1>1, <1>2, <1>3, PlacementAssumption

(* A sum over jobs is a number, and one job more or less counts for what it *)
(* asks for.                                                                *)
LEMMA SumsGiven ==
  ASSUME NEW J \in SUBSET Jobs
  PROVE  /\ CPU[J] \in Nat /\ Memory[J] \in Nat /\ Cardinality(J) \in Nat
         /\ \A j \in J : /\ CPU[J] = Request[j].cpu + CPU[J \ {j}]
                         /\ Memory[J] = Request[j].memory + Memory[J \ {j}]
<1> DEFINE c == [j \in Jobs |-> Request[j].cpu]
           m == [j \in Jobs |-> Request[j].memory]
<1>1. IsFiniteSet(J)
  BY Given, FS_Subset
<1>2. \A x \in J : c[x] \in Nat /\ m[x] \in Nat /\ c[x] = Request[x].cpu /\ m[x] = Request[x].memory
  BY Given DEF Requirement
<1>3. \A K \in SUBSET J : CPU[K] = SumFunctionOnSet(c, K) /\ Memory[K] = SumFunctionOnSet(m, K)
  BY DEF CPU, Memory
<1> HIDE DEF c, m
<1>4. CPU[J] \in Nat /\ Memory[J] \in Nat
  BY <1>1, <1>2, <1>3, SumType
<1>5. ASSUME NEW j \in J
      PROVE  /\ CPU[J] = Request[j].cpu + CPU[J \ {j}]
             /\ Memory[J] = Request[j].memory + Memory[J \ {j}]
  <2>1. /\ SumFunctionOnSet(c, J) = c[j] + SumFunctionOnSet(c, J \ {j})
        /\ SumFunctionOnSet(m, J) = m[j] + SumFunctionOnSet(m, J \ {j})
    BY <1>1, <1>2, SumRemove
  <2> QED BY <1>2, <1>3, <2>1
<1>6. Cardinality(J) \in Nat
  BY <1>1, FS_CardinalityType
<1> QED BY <1>4, <1>5, <1>6

(* The larger and the smaller of two numbers.                               *)
LEMMA TwoNumbers ==
  ASSUME NEW a \in Int, NEW b \in Int
  PROVE  /\ Max({a, b}) = IF a <= b THEN b ELSE a
         /\ Min({a, b}) = IF a <= b THEN a ELSE b
  BY DEF Max, Min

(* So both stay within bounds.                                              *)
LEMMA TwoBounded ==
  ASSUME NEW m \in Nat, NEW a \in 0..m, NEW b \in 0..m
  PROVE  Min({a, b}) \in 0..m
<1>1. a \in Int /\ b \in Int
  OBVIOUS
<1> QED BY <1>1, TwoNumbers

(* The larger of two natural numbers is one.                                *)
LEMMA LargerOfTwo ==
  ASSUME NEW a \in Nat, NEW b \in Nat
  PROVE  Max({a, b}) \in Nat
<1>1. a \in Int /\ b \in Int
  OBVIOUS
<1> QED BY <1>1, TwoNumbers

(* A report that offers Docker has the totals of its machine, and no more   *)
(* of anything free.                                                        *)
Honest(n, r) ==
  /\ r.online /\ r.entry /\ r.backends = {"docker"}
  /\ r.totalCPU = Machines[n].cpu /\ r.totalMemory = Machines[n].memory
  /\ r.freeCPU \in 0..Machines[n].cpu /\ r.freeMemory \in 0..Machines[n].memory
  /\ r.running \in Nat

(* What a report, on its way or in the registry, can be.                    *)
Reported(n, r) == r \in {Unknown, Stale} \/ r = Unavailable \/ Honest(n, r)

(* What the records, in memory or in the state file, can be.                *)
Records ==
  [Jobs -> [status : {"pending", "provisioning", "running", "done"},
            node : Nodes \cup {NoPlacement}]]

(* The type invariant; a report is one the agent can have made.             *)
TypeInv ==
  /\ record \in Records /\ disk \in Records
  /\ box \in [Nodes -> [Jobs -> {"none", "up", "exited"}]]
  /\ DOMAIN beat = Nodes /\ DOMAIN registry = Nodes
  /\ \A n \in Nodes : Reported(n, beat[n]) /\ Reported(n, registry[n])

(* Capacity measures something that can be reported.                        *)
LEMMA CapacityReport ==
  ASSUME NEW n \in Nodes
  PROVE  Honest(n, Report(Capacity(n), {"docker"}, Machines[n].cpu, Machines[n].memory))
<1> DEFINE ids == managedContainerIDs(n)
<1>1. CPU[ids] \in Nat /\ Memory[ids] \in Nat /\ Cardinality(ids) \in Nat
  BY SumsGiven DEF managedContainerIDs
<1>2. Machines[n].cpu \in Nat /\ Machines[n].memory \in Nat /\ Others[n] \in 0..Machines[n].memory
  BY Given DEF Machine
<1> HIDE DEF ids
<1>3. Max({0, Machines[n].cpu - CPU[ids]}) \in 0..Machines[n].cpu
  BY <1>1, <1>2, TwoNumbers
<1>4. Max({0, Machines[n].memory - Memory[ids]}) \in 0..Machines[n].memory
  BY <1>1, <1>2, TwoNumbers
<1>5. Min({Machines[n].memory - Others[n], Max({0, Machines[n].memory - Memory[ids]})})
        \in 0..Machines[n].memory
  <2> DEFINE free == Max({0, Machines[n].memory - Memory[ids]})
             rest == Machines[n].memory - Others[n]
  <2>1. free \in 0..Machines[n].memory /\ rest \in 0..Machines[n].memory
    BY <1>2, <1>4
  <2> HIDE DEF free, rest
  <2>2. Min({rest, free}) \in 0..Machines[n].memory
    BY <1>2, <2>1, TwoBounded
  <2> QED BY <2>2 DEF free, rest
<1> QED BY <1>1, <1>3, <1>5 DEF Honest, Report, Capacity, memoryMB, ids

(***************************************************************************)
(* What place sees and chooses                                             *)
(***************************************************************************)
(* What a node's reservations leave of it.                                  *)
Within(free, total, used) ==
  IF total > 0 THEN Min({free, Max({0, total - used})}) ELSE free

(* There is room within what the reservations leave when there is by the report*)
(* and beside the reservations.                                             *)
LEMMA WithinRoom ==
  ASSUME NEW total \in Nat, NEW free \in 0..total, NEW used \in Nat
  PROVE  /\ Within(free, total, used) \in Nat
         /\ \A ask \in Nat : ask > 0 =>
              (Within(free, total, used) >= ask <=> free >= ask /\ used + ask <= total)
<1>1. CASE total > 0
  <2> DEFINE left == Max({0, total - used})
  <2>1. left = IF 0 <= total - used THEN total - used ELSE 0
    BY TwoNumbers
  <2> HIDE DEF left
  <2>2. left \in Nat
    BY <2>1
  <2>3. Min({free, left}) = IF free <= left THEN free ELSE left
    BY <2>2, TwoNumbers
  <2>4. Within(free, total, used) = IF free <= left THEN free ELSE left
    BY <1>1, <2>3 DEF Within, left
  <2> QED BY <2>1, <2>2, <2>4
<1>2. CASE total = 0
  BY <1>2 DEF Within
<1> QED BY <1>1, <1>2

(* The numbers place compares, for a node that has reported.                *)
LEMMA SeenNumbers ==
  ASSUME NEW n \in Nodes, registry[n].online
  PROVE  /\ seen(n).online /\ seen(n).backends = registry[n].backends
         /\ seen(n).os = Machines[n].os /\ seen(n).arch = Machines[n].arch
         /\ seen(n).caps = Machines[n].caps
         /\ seen(n).freeCPU =
              Within(registry[n].freeCPU, registry[n].totalCPU, CPU[reservations(n)])
         /\ seen(n).freeMemory =
              Within(registry[n].freeMemory, registry[n].totalMemory, Memory[reservations(n)])
         /\ seen(n).running = Load(n)
  BY DEF seen, Within, Load

(* The sums over a node's reservations are numbers.                         *)
LEMMA Reserved ==
  ASSUME NEW n \in Nodes
  PROVE  /\ CPU[reservations(n)] \in Nat /\ Memory[reservations(n)] \in Nat
         /\ Cardinality(reservations(n)) \in Nat
  BY SumsGiven DEF reservations, Holding

(* So is its load, once it has reported.                                    *)
LEMMA LoadNumber ==
  ASSUME NEW n \in Nodes, registry[n].running \in Nat
  PROVE  Load(n) \in Nat
<1> DEFINE c == Cardinality(reservations(n))
<1>1. c \in Nat
  BY Reserved
<1> HIDE DEF c
<1>2. Max({registry[n].running, c}) \in Nat
  BY <1>1, LargerOfTwo
<1> QED BY <1>2 DEF Load, c

(* Whatever a node has reported, or not, place compares numbers.            *)
LEMMA SeenMeasured ==
  ASSUME TypeInv
  PROVE  Measured([n \in Nodes |-> seen(n)])
<1> SUFFICES ASSUME NEW n \in Nodes
             PROVE  /\ seen(n).running \in Int /\ seen(n).freeCPU \in Int
                    /\ seen(n).freeMemory \in Int
  BY DEF Measured
<1>1. CASE registry[n] \in {Unknown, Stale}
  <2>1. ~registry[n].online
    BY <1>1 DEF Unknown, Stale
  <2>2. seen(n).running = 0 /\ seen(n).freeCPU = 0 /\ seen(n).freeMemory = 0
    BY <2>1 DEF seen
  <2> QED BY <2>2
<1>2. CASE registry[n] = Unavailable
  <2>1. /\ registry[n].online /\ registry[n].freeCPU = 0 /\ registry[n].freeMemory = 0
        /\ registry[n].totalCPU = 0 /\ registry[n].totalMemory = 0 /\ registry[n].running = 0
    BY <1>2 DEF Unavailable, Report
  <2>2. seen(n).freeCPU \in Int /\ seen(n).freeMemory \in Int
    <3>1. seen(n).freeCPU = Within(0, 0, CPU[reservations(n)])
      BY <2>1, SeenNumbers
    <3>2. seen(n).freeMemory = Within(0, 0, Memory[reservations(n)])
      BY <2>1, SeenNumbers
    <3> QED BY <3>1, <3>2 DEF Within
  <2>3. Load(n) \in Int
    BY <2>1, LoadNumber
  <2> QED BY <2>1, <2>2, <2>3, SeenNumbers
<1>3. CASE Honest(n, registry[n])
  <2>1. Machines[n].cpu \in Nat /\ Machines[n].memory \in Nat
    BY Given DEF Machine
  <2>2. seen(n).freeCPU \in Nat
    <3>1. /\ seen(n).freeCPU = Within(registry[n].freeCPU, Machines[n].cpu, CPU[reservations(n)])
          /\ registry[n].freeCPU \in 0..Machines[n].cpu
      BY <1>3, SeenNumbers DEF Honest
    <3> QED BY <2>1, <3>1, Reserved, WithinRoom
  <2>3. seen(n).freeMemory \in Nat
    <3>1. /\ seen(n).freeMemory = Within(registry[n].freeMemory, Machines[n].memory, Memory[reservations(n)])
          /\ registry[n].freeMemory \in 0..Machines[n].memory
      BY <1>3, SeenNumbers DEF Honest
    <3> QED BY <2>1, <3>1, Reserved, WithinRoom
  <2>4. seen(n).running \in Int
    BY <1>3, LoadNumber, SeenNumbers DEF Honest
  <2> QED BY <2>2, <2>3, <2>4
<1> QED BY <1>1, <1>2, <1>3 DEF TypeInv, Reported

(* The only backend a node offers is Docker, for jobs in containers.        *)
LEMMA DockerOnly ==
  ASSUME NEW isolation \in DOMAIN Preferred
  PROVE  /\ selectBackend(isolation, {}) = "none"
         /\ selectBackend(isolation, {"docker"}) # "none" <=> isolation = "container"
<1>1. DOMAIN Preferred = {"container", "vm", "native"}
  BY DEF Preferred
<1>2. selectBackend(isolation, {}) = "none"
  BY DEF selectBackend
<1>3. CASE isolation = "container"
  <2>1. Preferred[isolation] = <<"docker">>
    BY <1>3 DEF Preferred
  <2>2. {i \in DOMAIN Preferred[isolation] : Preferred[isolation][i] \in {"docker"}} = {1}
    BY <2>1
  <2> QED BY <1>2, <1>3, <2>1, <2>2 DEF selectBackend
<1>4. CASE isolation = "vm"
  <2>1. Preferred[isolation] = <<"kvm", "hyperv">>
    BY <1>4 DEF Preferred
  <2>2. {i \in DOMAIN Preferred[isolation] : Preferred[isolation][i] \in {"docker"}} = {}
    BY <2>1
  <2> QED BY <1>2, <1>4, <2>2 DEF selectBackend
<1>5. CASE isolation = "native"
  <2>1. Preferred[isolation] = <<"native">>
    BY <1>5 DEF Preferred
  <2>2. {i \in DOMAIN Preferred[isolation] : Preferred[isolation][i] \in {"docker"}} = {}
    BY <2>1
  <2> QED BY <1>2, <1>5, <2>2 DEF selectBackend
<1> QED BY <1>1, <1>3, <1>4, <1>5

(* The nodes place can choose for job j: those of its platform that offer   *)
(* Docker and have room for it, by their report and by the records.         *)
LEMMA SeenCandidates ==
  ASSUME TypeInv, NEW j \in Jobs, NEW n \in Nodes
  PROVE  n \in Candidates(Request[j], [m \in Nodes |-> seen(m)]) <=>
           /\ Honest(n, registry[n]) /\ Suits(Request[j], Machines[n])
           /\ Request[j].isolation = "container"
           /\ Request[j].cpu > 0 =>
                /\ registry[n].freeCPU >= Request[j].cpu
                /\ CPU[reservations(n)] + Request[j].cpu <= Machines[n].cpu
           /\ Request[j].memory > 0 =>
                /\ registry[n].freeMemory >= Request[j].memory
                /\ Memory[reservations(n)] + Request[j].memory <= Machines[n].memory
<1> DEFINE req == Request[j]
<1>1. /\ req.isolation \in DOMAIN Preferred /\ req.cpu \in Nat /\ req.memory \in Nat
      /\ Machines[n].cpu \in Nat /\ Machines[n].memory \in Nat
  BY Given DEF Requirement, Machine
<1>2. n \in Candidates(req, [m \in Nodes |-> seen(m)]) <=>
        eligible(req, seen(n)) /\ selectBackend(req.isolation, seen(n).backends) # "none"
  BY DEF Candidates
<1>3. CASE registry[n] \in {Unknown, Stale}
  <2>1. ~registry[n].online
    BY <1>3 DEF Unknown, Stale
  <2>2. ~seen(n).online
    BY <2>1 DEF seen
  <2> QED BY <1>2, <2>1, <2>2 DEF eligible, Honest
<1>4. CASE registry[n] = Unavailable
  <2>1. seen(n).backends = {} /\ ~Honest(n, registry[n])
    BY <1>4, SeenNumbers DEF Unavailable, Report, Honest
  <2> QED BY <1>1, <1>2, <2>1, DockerOnly
<1>5. CASE Honest(n, registry[n])
  <2>1. selectBackend(req.isolation, seen(n).backends) # "none" <=> req.isolation = "container"
    <3>1. seen(n).backends = {"docker"}
      BY <1>5, SeenNumbers DEF Honest
    <3> QED BY <1>1, <3>1, DockerOnly
  <2>2. seen(n).online /\ (Suits(req, seen(n)) <=> Suits(req, Machines[n]))
    BY <1>5, SeenNumbers DEF Honest, Suits
  <2>3. req.cpu > 0 => (seen(n).freeCPU >= req.cpu <=>
          registry[n].freeCPU >= req.cpu /\ CPU[reservations(n)] + req.cpu <= Machines[n].cpu)
    <3>1. seen(n).freeCPU = Within(registry[n].freeCPU, Machines[n].cpu, CPU[reservations(n)])
      BY <1>5, SeenNumbers DEF Honest
    <3>2. registry[n].freeCPU \in 0..Machines[n].cpu
      BY <1>5 DEF Honest
    <3>3. \A ask \in Nat : ask > 0 =>
            (Within(registry[n].freeCPU, Machines[n].cpu, CPU[reservations(n)]) >= ask <=>
               registry[n].freeCPU >= ask /\ CPU[reservations(n)] + ask <= Machines[n].cpu)
      BY <1>1, <3>2, Reserved, WithinRoom
    <3> QED BY <1>1, <3>1, <3>3
  <2>4. req.memory > 0 => (seen(n).freeMemory >= req.memory <=>
          /\ registry[n].freeMemory >= req.memory
          /\ Memory[reservations(n)] + req.memory <= Machines[n].memory)
    <3>1. seen(n).freeMemory =
            Within(registry[n].freeMemory, Machines[n].memory, Memory[reservations(n)])
      BY <1>5, SeenNumbers DEF Honest
    <3>2. registry[n].freeMemory \in 0..Machines[n].memory
      BY <1>5 DEF Honest
    <3>3. \A ask \in Nat : ask > 0 =>
            (Within(registry[n].freeMemory, Machines[n].memory, Memory[reservations(n)]) >= ask <=>
               registry[n].freeMemory >= ask /\ Memory[reservations(n)] + ask <= Machines[n].memory)
      BY <1>1, <3>2, Reserved, WithinRoom
    <3> QED BY <1>1, <3>1, <3>3
  <2> QED BY <1>2, <1>5, <2>1, <2>2, <2>3, <2>4 DEF eligible
<1> QED BY <1>3, <1>4, <1>5 DEF TypeInv, Reported

(* place chooses a candidate, and no candidate has a smaller load.          *)
LEMMA Chosen ==
  ASSUME TypeInv, NEW j \in Jobs, Choice(j) # NoPlacement
  PROVE  /\ Choice(j) \in Nodes
         /\ Choice(j) \in Candidates(Request[j], [m \in Nodes |-> seen(m)])
         /\ \A k \in Candidates(Request[j], [m \in Nodes |-> seen(m)]) :
              seen(Choice(j)).running <= seen(k).running
<1> DEFINE nodes == [m \in Nodes |-> seen(m)]
           C == Candidates(Request[j], nodes)
<1>1. Measured(nodes) /\ DOMAIN nodes = Nodes
  BY SeenMeasured
<1>2. Choice(j) = Place(Request[j], nodes)
  BY DEF Choice
<1>3. C \subseteq Nodes
  BY DEF Candidates
<1> HIDE DEF C, nodes
<1>4. Choice(j) \in C /\ \A k \in C \ {Choice(j)} : Precedes(nodes, Choice(j), k)
  BY <1>1, <1>2, Given, PlaceFirst DEF C
<1>5. \A m \in Nodes : nodes[m] = seen(m) /\ seen(m).running \in Int
  BY <1>1 DEF nodes, Measured
<1>6. \A k \in C : seen(Choice(j)).running <= seen(k).running
  BY <1>3, <1>4, <1>5 DEF Precedes, Before
<1> QED BY <1>3, <1>4, <1>6 DEF C, nodes

(***************************************************************************)
(* The records                                                             *)
(***************************************************************************)
(* The records that hold places on a node ask for no more than it has.      *)
FitStore(s) ==
  \A n \in Nodes : /\ CPU[Holding(s, n)] <= Machines[n].cpu
                   /\ Memory[Holding(s, n)] <= Machines[n].memory

(* A place that is given back leaves the others.                            *)
LEMMA Release ==
  ASSUME NEW s, FitStore(s), NEW t, NEW j,
         \A n \in Nodes : Holding(t, n) \in {Holding(s, n), Holding(s, n) \ {j}}
  PROVE  FitStore(t)
<1> SUFFICES ASSUME NEW n \in Nodes
             PROVE  /\ CPU[Holding(t, n)] <= Machines[n].cpu
                    /\ Memory[Holding(t, n)] <= Machines[n].memory
  BY DEF FitStore
<1> DEFINE R == Holding(s, n)
<1>1. R \in SUBSET Jobs /\ R \ {j} \in SUBSET Jobs /\ Holding(t, n) \in {R, R \ {j}}
  BY DEF Holding
<1>2. CPU[R] <= Machines[n].cpu /\ Memory[R] <= Machines[n].memory
  BY DEF FitStore
<1>3. Machines[n].cpu \in Nat /\ Machines[n].memory \in Nat
  BY Given DEF Machine
<1> HIDE DEF R
<1>4. CASE Holding(t, n) = R \/ j \notin R
  <2>1. Holding(t, n) = R
    BY <1>1, <1>4
  <2> QED BY <1>2, <2>1
<1>5. CASE Holding(t, n) = R \ {j} /\ j \in R
  <2>1. /\ CPU[R] = Request[j].cpu + CPU[R \ {j}]
        /\ Memory[R] = Request[j].memory + Memory[R \ {j}]
    BY <1>1, <1>5, SumsGiven
  <2>2. CPU[R \ {j}] \in Nat /\ Memory[R \ {j}] \in Nat
    BY <1>1, SumsGiven
  <2>3. Request[j].cpu \in Nat /\ Request[j].memory \in Nat
    BY <1>1, <1>5, Given DEF Requirement
  <2> QED BY <1>2, <1>3, <1>5, <2>1, <2>2, <2>3
<1> QED BY <1>1, <1>4, <1>5

(* place finds room beside the places that are held.                        *)
LEMMA PlaceFits ==
  ASSUME TypeInv, FitStore(record), NEW j \in Jobs, place(j)
  PROVE  FitStore(record')
<1> SUFFICES ASSUME NEW n \in Nodes
             PROVE  /\ CPU[Holding(record', n)] <= Machines[n].cpu
                    /\ Memory[Holding(record', n)] <= Machines[n].memory
  BY DEF FitStore
<1> DEFINE R == reservations(n)
<1>1. CPU[R] <= Machines[n].cpu /\ Memory[R] <= Machines[n].memory
  BY DEF FitStore, reservations
<1>2. j \notin R /\ R \in SUBSET Jobs
  BY DEF place, Placeable, reservations, Holding, Active
<1>3. record' = [record EXCEPT ![j] = [status |-> "provisioning", node |-> Choice(j)]]
  BY DEF place
<1>4. CASE n # Choice(j)
  <2>1. Holding(record', n) = R
    BY <1>2, <1>3, <1>4 DEF reservations, Holding, TypeInv, Records
  <2> QED BY <1>1, <2>1
<1>5. CASE n = Choice(j)
  <2>1. Holding(record', n) = R \cup {j}
    BY <1>3, <1>5 DEF reservations, Holding, Active, TypeInv, Records
  <2>2. n \in Candidates(Request[j], [m \in Nodes |-> seen(m)])
    BY <1>5, Chosen DEF place, Placeable
  <2>3. /\ Request[j].cpu > 0 => CPU[R] + Request[j].cpu <= Machines[n].cpu
        /\ Request[j].memory > 0 => Memory[R] + Request[j].memory <= Machines[n].memory
    BY <2>2, SeenCandidates
  <2>4. /\ Request[j].cpu \in Nat /\ Request[j].memory \in Nat
        /\ Machines[n].cpu \in Nat /\ Machines[n].memory \in Nat
    BY Given DEF Requirement, Machine
  <2> HIDE DEF R
  <2>5. (R \cup {j}) \ {j} = R /\ R \cup {j} \in SUBSET Jobs
    BY <1>2
  <2>6. /\ CPU[R \cup {j}] = Request[j].cpu + CPU[R]
        /\ Memory[R \cup {j}] = Request[j].memory + Memory[R]
    BY <2>5, SumsGiven
  <2>7. CPU[R] \in Nat /\ Memory[R] \in Nat
    BY <1>2, SumsGiven
  <2> QED BY <1>1, <2>1, <2>3, <2>4, <2>6, <2>7
<1> QED BY <1>4, <1>5

(* The attempt that waits for its container has a record that says so.      *)
BusyInv == busy \in SUBSET Jobs /\ \A j \in busy : record[j].status = "provisioning"

(* What a step that is no placement and no restart makes of the records.    *)
Lighter(j) ==
  \/ record' = [record EXCEPT ![j] = Pending]
  \/ record' = [record EXCEPT ![j].status = "done"]
  \/ record[j].status \in Active /\ record' = [record EXCEPT ![j].status = "running"]

(* A step leaves the records, places a job, is a restart, or changes one    *)
(* record without giving it a place; the state file stays as it is or gets  *)
(* what memory has.                                                         *)
LEMMA RecordSteps ==
  ASSUME BusyInv, [Next]_vars
  PROVE  /\ \/ record' = record \/ \E j \in Jobs : place(j) \/ Lighter(j)
            \/ restart
         /\ disk' = disk \/ disk' = record'
<1> DEFINE Goal == /\ \/ record' = record \/ \E j \in Jobs : place(j) \/ Lighter(j)
                      \/ restart
                   /\ disk' = disk \/ disk' = record'
<1>1. CASE UNCHANGED vars
  BY <1>1 DEF vars
<1>2. CASE \E n \in Nodes : sendHeartbeat(n) \/ heartbeat(n) \/ silence(n)
  BY <1>2 DEF sendHeartbeat, heartbeat, silence
<1>3. CASE \E n \in Nodes, j \in Jobs : lateCreate(n, j) \/ exit(n, j) \/ janitor(n, j)
  BY <1>3 DEF lateCreate, exit, janitor
<1>4. CASE restart
  BY <1>4 DEF restart
<1>5. ASSUME NEW j \in Jobs, place(j) PROVE Goal
  BY <1>5 DEF place
<1>6. ASSUME NEW j \in Jobs, createInstance(j) PROVE Goal
  BY <1>6 DEF createInstance, saveLocked, Lighter, BusyInv, Active
<1>7. ASSUME NEW j \in Jobs, createFails(j) PROVE Goal
  BY <1>7 DEF createFails, saveLocked, Lighter
<1>8. ASSUME NEW j \in Jobs, handleCompleted(j) PROVE Goal
  BY <1>8 DEF handleCompleted, release, saveLocked, Lighter
<1>9. ASSUME NEW j \in Jobs, cleanupRecord(j) PROVE Goal
  BY <1>9 DEF cleanupRecord, release, saveLocked, Lighter
<1>10. ASSUME NEW j \in Jobs, recoverProvisioning(j) PROVE Goal
  BY <1>10 DEF recoverProvisioning, saveLocked, Lighter
<1> QED BY <1>1, <1>2, <1>3, <1>4, <1>5, <1>6, <1>7, <1>8, <1>9, <1>10 DEF Next

(* Such a change gives back a place or none.                                *)
LEMMA LighterFits ==
  ASSUME TypeInv, FitStore(record), NEW j \in Jobs, Lighter(j)
  PROVE  FitStore(record')
<1> SUFFICES \A n \in Nodes : Holding(record', n) \in {Holding(record, n), Holding(record, n) \ {j}}
  BY Release
<1> TAKE n \in Nodes
<1>1. CASE record' = [record EXCEPT ![j] = Pending]
  BY <1>1 DEF Holding, Pending, Active, TypeInv, Records
<1>2. CASE record' = [record EXCEPT ![j].status = "done"]
  BY <1>2 DEF Holding, Active, TypeInv, Records
<1>3. CASE record[j].status \in Active /\ record' = [record EXCEPT ![j].status = "running"]
  BY <1>3 DEF Holding, Active, TypeInv, Records
<1> QED BY <1>1, <1>2, <1>3 DEF Lighter

(***************************************************************************)
(* The invariant                                                           *)
(***************************************************************************)
PlacementInv == TypeInv /\ BusyInv /\ FitStore(record) /\ FitStore(disk)

(* It holds when the controller starts with no records.                     *)
LEMMA InitInv == Init => PlacementInv
<1> SUFFICES ASSUME Init PROVE PlacementInv
  OBVIOUS
<1>1. TypeInv
  BY DEF Init, TypeInv, Records, Pending, Reported
<1>2. BusyInv
  BY DEF Init, BusyInv
<1>3. ASSUME NEW n \in Nodes
      PROVE  /\ CPU[Holding(record, n)] <= Machines[n].cpu
             /\ Memory[Holding(record, n)] <= Machines[n].memory
  <2>1. Holding(record, n) = {}
    BY DEF Init, Holding, Pending, Active
  <2>2. CPU[{}] = 0 /\ Memory[{}] = 0
    BY SumEmpty DEF CPU, Memory
  <2> QED BY <2>1, <2>2, Given DEF Machine
<1>4. FitStore(record) /\ disk = record
  BY <1>3 DEF FitStore, Init
<1> QED BY <1>1, <1>2, <1>4 DEF PlacementInv

(* Every step keeps the types of the records.                               *)
LEMMA RecordsStep ==
  ASSUME TypeInv, BusyInv, [Next]_vars
  PROVE  record' \in Records /\ disk' \in Records
<1>1. record \in Records /\ disk \in Records
  BY DEF TypeInv
<1>2. ASSUME NEW j \in Jobs, place(j) PROVE record' \in Records
  <2>1. Choice(j) \in Nodes
    BY <1>2, Chosen DEF place, Placeable
  <2> QED BY <1>1, <1>2, <2>1 DEF place, Records
<1>3. ASSUME NEW j \in Jobs, Lighter(j) PROVE record' \in Records
  <2>1. ASSUME record' = [record EXCEPT ![j] = Pending] PROVE record' \in Records
    BY <1>1, <2>1 DEF Pending, Records
  <2>2. ASSUME NEW x \in {"done", "running"}, record' = [record EXCEPT ![j].status = x]
        PROVE  record' \in Records
    BY <1>1, <2>2 DEF Records
  <2> QED BY <1>3, <2>1, <2>2 DEF Lighter
<1>4. CASE restart
  BY <1>1, <1>4 DEF restart
<1> QED BY <1>1, <1>2, <1>3, <1>4, RecordSteps

(* Every step keeps the types.                                              *)
LEMMA TypeStep == TypeInv /\ BusyInv /\ [Next]_vars => TypeInv'
<1> SUFFICES ASSUME TypeInv, BusyInv, [Next]_vars PROVE TypeInv'
  OBVIOUS
<1> DEFINE Boxes == [Nodes -> [Jobs -> {"none", "up", "exited"}]]
           Reports == /\ DOMAIN beat = Nodes /\ DOMAIN registry = Nodes
                      /\ \A n \in Nodes : Reported(n, beat[n]) /\ Reported(n, registry[n])
<1>1. box \in Boxes /\ Reports
  BY DEF TypeInv
<1>2. ASSUME NEW n \in Nodes, sendHeartbeat(n) PROVE box' \in Boxes /\ Reports'
  <2>1. PICK r : beat' = [beat EXCEPT ![n] = r] /\ Reported(n, r)
    BY <1>2, CapacityReport DEF sendHeartbeat, Reported
  <2> QED BY <1>1, <1>2, <2>1 DEF sendHeartbeat
<1>3. ASSUME NEW n \in Nodes, heartbeat(n) PROVE box' \in Boxes /\ Reports'
  BY <1>1, <1>3 DEF heartbeat, Reported
<1>4. ASSUME NEW n \in Nodes, silence(n) PROVE box' \in Boxes /\ Reports'
  BY <1>1, <1>4 DEF silence, Reported
<1>5. ASSUME restart PROVE box' \in Boxes /\ Reports'
  BY <1>1, <1>5 DEF restart, Reported
<1>6. ASSUME NEW n \in Nodes, NEW j \in Jobs, lateCreate(n, j) \/ exit(n, j) \/ janitor(n, j)
      PROVE  box' \in Boxes /\ UNCHANGED <<beat, registry>>
  BY <1>1, <1>6 DEF lateCreate, exit, janitor, destroyed
<1>7. ASSUME NEW j \in Jobs, place(j) \/ createInstance(j) \/ createFails(j)
      PROVE  box' \in Boxes /\ UNCHANGED <<beat, registry>>
  <2>1. ASSUME createFails(j) PROVE box' \in Boxes
    <3>1. \E x \in {"none", "up"} :
            box' = box \/ box' = [box EXCEPT ![record[j].node][j] = x]
      BY <2>1 DEF createFails, destroyed
    <3> QED BY <1>1, <3>1
  <2>2. ASSUME place(j) \/ createInstance(j) PROVE box' \in Boxes
    BY <1>1, <2>2 DEF place, createInstance
  <2>3. UNCHANGED <<beat, registry>>
    BY <1>7 DEF place, createInstance, createFails
  <2> QED BY <1>7, <2>1, <2>2, <2>3
<1>8. ASSUME NEW j \in Jobs, handleCompleted(j) \/ cleanupRecord(j) \/ recoverProvisioning(j)
      PROVE  box' \in Boxes /\ UNCHANGED <<beat, registry>>
  BY <1>1, <1>8
  DEF handleCompleted, cleanupRecord, recoverProvisioning, release, destroyed, destroyFails
<1>9. ASSUME UNCHANGED vars PROVE box' \in Boxes /\ Reports'
  BY <1>1, <1>9 DEF vars
<1>10. ASSUME UNCHANGED <<beat, registry>> PROVE Reports'
  BY <1>1, <1>10
<1>11. box' \in Boxes /\ Reports'
  <2> HIDE DEF Boxes, Reports
  <2> QED BY <1>2, <1>3, <1>4, <1>5, <1>6, <1>7, <1>8, <1>9, <1>10 DEF Next
<1> QED BY <1>11, RecordsStep DEF TypeInv

(* Every step keeps the record of the attempt under way.                    *)
LEMMA BusyStep == TypeInv /\ BusyInv /\ [Next]_vars => BusyInv'
<1> SUFFICES ASSUME TypeInv, BusyInv, [Next]_vars PROVE BusyInv'
  OBVIOUS
<1>1. CASE busy' = {}
  BY <1>1 DEF BusyInv
<1>2. CASE UNCHANGED <<busy, record>>
  BY <1>2 DEF BusyInv
<1>3. ASSUME NEW j \in Jobs, place(j) PROVE BusyInv'
  BY <1>3 DEF place, BusyInv, TypeInv, Records
<1>4. \/ busy' = {} \/ UNCHANGED <<busy, record>> \/ \E j \in Jobs : place(j)
  BY DEF Next, vars, sendHeartbeat, heartbeat, silence, lateCreate, exit, janitor,
         createInstance, createFails, handleCompleted, cleanupRecord, recoverProvisioning, restart
<1> QED BY <1>1, <1>2, <1>3, <1>4

(* Every step keeps the places within the nodes.                            *)
LEMMA FitStep == PlacementInv /\ [Next]_vars => FitStore(record') /\ FitStore(disk')
<1> SUFFICES ASSUME PlacementInv, [Next]_vars PROVE FitStore(record') /\ FitStore(disk')
  OBVIOUS
<1>1. TypeInv /\ BusyInv /\ FitStore(record) /\ FitStore(disk)
  BY DEF PlacementInv
<1>2. CASE restart
  BY <1>1, <1>2 DEF restart
<1>3. FitStore(record')
  BY <1>1, <1>2, RecordSteps, PlaceFits, LighterFits
<1> QED BY <1>1, <1>3, RecordSteps

(* The invariant holds of every behaviour.                                  *)
LEMMA InvHolds == Spec => []PlacementInv
<1>1. PlacementInv /\ [Next]_vars => PlacementInv'
  BY TypeStep, BusyStep, FitStep DEF PlacementInv, FitStore, Holding
<1> QED BY InitInv, <1>1, PTL DEF Spec

(* For any jobs, machines, failures and restarts, and however old the       *)
(* reports are, the records never promise more of a node than it has,       *)
(* neither in memory nor in the state file a restart would load.            *)
THEOREM PromisesKept == Spec => []PromisesFit
<1>1. PlacementInv => PromisesFit
  BY DEF PlacementInv, PromisesFit, FitStore
<1> QED BY <1>1, InvHolds, PTL

(***************************************************************************)
(* Containers and their records                                            *)
(***************************************************************************)
(* The failures that leave no container without a record: no restart, no    *)
(* create request that is run after its caller gave up, and not both a      *)
(* create and a destroy that fail.                                          *)
NoOrphans ==
  /\ "restart" \notin Faults /\ "late" \notin Faults
  /\ "create" \notin Faults \/ "destroy" \notin Faults

(* A container has a record in running on its node: it is made for a        *)
(* record, and the record is released after it is gone.                     *)
BoxInv ==
  /\ late = {}
  /\ \A n \in Nodes, j \in Jobs :
       box[n][j] # "none" => record[j].node = n /\ record[j].status = "running"

(* The registry has an entry for every node that holds a place, so that no  *)
(* destroy is skipped.                                                      *)
KnownInv ==
  \A j \in Jobs : record[j].status \in Active =>
    record[j].node \in Nodes /\ registry[record[j].node].entry

(* Entries stay: only a restart loses one.                                  *)
LEMMA EntryStays ==
  ASSUME TypeInv, [Next]_vars, ~restart, NEW n \in Nodes, registry[n].entry
  PROVE  registry'[n].entry
<1>1. ASSUME NEW m \in Nodes, heartbeat(m) PROVE registry'[n].entry
  <2>1. beat[m] # Unknown /\ Reported(m, beat[m])
    BY <1>1 DEF heartbeat, TypeInv
  <2>2. Stale.entry /\ Unavailable.entry
    BY DEF Stale, Unavailable, Report
  <2>3. beat[m].entry
    BY <2>1, <2>2 DEF Reported, Honest
  <2> QED BY <1>1, <2>3 DEF heartbeat, TypeInv
<1>2. ASSUME NEW m \in Nodes, silence(m) PROVE registry'[n].entry
  BY <1>2 DEF silence, TypeInv, Stale
<1>3. \/ registry' = registry \/ \E m \in Nodes : heartbeat(m) \/ silence(m)
  BY DEF Next, vars, sendHeartbeat, lateCreate, exit, janitor, place,
         createInstance, createFails, handleCompleted, cleanupRecord, recoverProvisioning
<1> QED BY <1>1, <1>2, <1>3

(* Every step but a restart keeps the entries of the nodes with places.     *)
LEMMA KnownStep ==
  ASSUME TypeInv, BusyInv, KnownInv, [Next]_vars, ~restart
  PROVE  KnownInv'
<1> SUFFICES ASSUME NEW j \in Jobs, record'[j].status \in Active
             PROVE  record'[j].node \in Nodes /\ registry'[record'[j].node].entry
  BY DEF KnownInv
<1>1. ASSUME record'[j].node = record[j].node, record[j].status \in Active
      PROVE  record'[j].node \in Nodes /\ registry'[record'[j].node].entry
  BY <1>1, EntryStays DEF KnownInv
<1>2. CASE record' = record
  BY <1>1, <1>2
<1>3. ASSUME NEW k \in Jobs, Lighter(k)
      PROVE  record'[j].node = record[j].node /\ record[j].status \in Active
  BY <1>3 DEF Lighter, Pending, Active, TypeInv, Records
<1>4. ASSUME NEW k \in Jobs, place(k)
      PROVE  record'[j].node \in Nodes /\ registry'[record'[j].node].entry
  <2>1. CASE k # j
    <3>1. record'[j] = record[j]
      BY <1>4, <2>1 DEF place, TypeInv, Records
    <3> QED BY <1>1, <3>1
  <2>2. CASE k = j
    <3>1. Choice(j) \in Nodes /\ Choice(j) \in Candidates(Request[j], [m \in Nodes |-> seen(m)])
      BY <1>4, <2>2, Chosen DEF place, Placeable
    <3>2. registry[Choice(j)].entry
      BY <3>1, SeenCandidates DEF Honest
    <3>3. record'[j].node = Choice(j) /\ registry' = registry
      BY <1>4, <2>2 DEF place, TypeInv, Records
    <3> QED BY <3>1, <3>2, <3>3
  <2> QED BY <2>1, <2>2
<1> QED BY <1>1, <1>2, <1>3, <1>4, RecordSteps

(* A step that changes no other record and removes the job's container, or  *)
(* finds none, keeps containers with their records.                         *)
LEMMA Removed ==
  ASSUME TypeInv, BoxInv, late' = late, NEW j \in Jobs,
         \A k \in Jobs \ {j} : record'[k] = record[k],
         \/ destroyed(record[j].node, j)
         \/ box' = box /\ record[j].status # "running"
  PROVE  BoxInv'
<1>1. ASSUME NEW n \in Nodes PROVE box'[n][j] = "none"
  BY <1>1 DEF BoxInv, TypeInv, destroyed
<1>2. ASSUME NEW n \in Nodes, NEW k \in Jobs \ {j} PROVE box'[n][k] = box[n][k]
  BY <1>2 DEF TypeInv, destroyed
<1>3. ASSUME NEW n \in Nodes, NEW k \in Jobs, box'[n][k] # "none"
      PROVE  record'[k].node = n /\ record'[k].status = "running"
  BY <1>1, <1>2, <1>3 DEF BoxInv
<1> QED BY <1>3 DEF BoxInv

(* Only kinds of failures the instance includes happen.                     *)
LEMMA SavedFaults ==
  ASSUME NEW new, NEW K, saveLocked(new, K)
  PROVE  K \subseteq Faults /\ record' = new
  BY DEF saveLocked, Fault

(* Without the failures that make orphans, every step keeps containers with *)
(* their records.                                                           *)
LEMMA BoxStep ==
  ASSUME NoOrphans, TypeInv, BusyInv, KnownInv, BoxInv, [Next]_vars
  PROVE  BoxInv' /\ ~restart
<1>1. ~restart
  BY DEF restart, Fault, NoOrphans
<1>2. ASSUME UNCHANGED <<box, late, record>> PROVE BoxInv'
  BY <1>2 DEF BoxInv
<1>3. ASSUME NEW j \in Jobs, NEW n \in Nodes, lateCreate(n, j) \/ exit(n, j) \/ janitor(n, j)
      PROVE  BoxInv'
  <2>1. UNCHANGED <<late, record>>
    BY <1>3 DEF lateCreate, exit, janitor, BoxInv
  <2>2. PICK x \in {"none", "exited"} :
          box' = [box EXCEPT ![n][j] = x] /\ box[n][j] # "none"
    BY <1>3 DEF lateCreate, exit, janitor, destroyed, BoxInv
  <2>3. \A m \in Nodes, k \in Jobs : box'[m][k] # "none" => box[m][k] # "none"
    BY <2>2 DEF TypeInv
  <2> QED BY <2>1, <2>3 DEF BoxInv
<1>4. ASSUME NEW j \in Jobs, place(j) PROVE BoxInv'
  <2>1. \A k \in Jobs \ {j} : record'[k] = record[k]
    BY <1>4 DEF place, TypeInv, Records
  <2> QED BY <1>4, <2>1, Removed DEF place, Placeable
<1>5. ASSUME NEW j \in Jobs, createInstance(j) PROVE BoxInv'
  <2>1. record' = [record EXCEPT ![j].status = "running"]
    BY <1>5 DEF createInstance, saveLocked
  <2>2. \A n \in Nodes, k \in Jobs :
          box'[n][k] # "none" => box[n][k] # "none" \/ (n = record[j].node /\ k = j)
    BY <1>5 DEF createInstance, TypeInv
  <2>3. late' = late
    BY <1>5 DEF createInstance
  <2>4. \A k \in Jobs : record'[k].node = record[k].node
    BY <2>1 DEF TypeInv, Records
  <2>5. \A k \in Jobs : record[k].status = "running" => record'[k].status = "running"
    BY <2>1 DEF TypeInv, Records
  <2>6. record'[j].status = "running"
    BY <2>1 DEF TypeInv, Records
  <2> QED BY <2>2, <2>3, <2>4, <2>5, <2>6 DEF BoxInv
<1>6. ASSUME NEW j \in Jobs, createFails(j) PROVE BoxInv'
  <2> DEFINE n == record[j].node
             new == [record EXCEPT ![j] = Pending]
  <2>1. record[j].status = "provisioning" /\ n \in Nodes
    BY <1>6 DEF createFails, BusyInv, KnownInv, Active
  <2>2. box[n][j] = "none"
    BY <2>1 DEF BoxInv
  <2>3. PICK K \in Failures :
          /\ K = {} => box[n][j] # "none"
          /\ late' = IF K = {"late"} THEN late \cup {<<n, j>>} ELSE late
          /\ \/ destroyed(n, j) /\ saveLocked(new, K)
             \/ saveLocked(new, K \cup {"destroy"})
    BY <1>6 DEF createFails
  <2> HIDE DEF new
  <2>4. K = {"create"}
    BY <2>2, <2>3, SavedFaults DEF Failures, NoOrphans
  <2>5. late' = late /\ destroyed(n, j) /\ record' = new
    BY <2>3, <2>4, SavedFaults DEF NoOrphans
  <2>6. \A k \in Jobs \ {j} : record'[k] = record[k]
    BY <2>5 DEF new, TypeInv, Records
  <2> QED BY <2>5, <2>6, Removed
<1>7. ASSUME NEW j \in Jobs, record[j].status \in Active, release(j), late' = late PROVE BoxInv'
  <2>1. destroyed(record[j].node, j)
    BY <1>7 DEF release, rawNode, KnownInv
  <2>2. \A k \in Jobs \ {j} : record'[k] = record[k]
    BY <1>7 DEF release, saveLocked, TypeInv, Records
  <2> QED BY <1>7, <2>1, <2>2, Removed
<1>8. ASSUME NEW j \in Jobs, handleCompleted(j) PROVE BoxInv'
  <2>1. late' = late
    BY <1>8 DEF handleCompleted
  <2>2. CASE record[j].status = "pending" /\ box' = box /\ saveLocked([record EXCEPT ![j].status = "done"], {})
    <3>1. \A k \in Jobs \ {j} : record'[k] = record[k]
      BY <2>2 DEF saveLocked, TypeInv, Records
    <3> QED BY <2>1, <2>2, <3>1, Removed
  <2>3. CASE /\ destroyFails(record[j].node, j)
             /\ saveLocked([record EXCEPT ![j].status = "running"], {"destroy"})
    <3>1. record' = [record EXCEPT ![j].status = "running"]
      BY <2>3 DEF saveLocked
    <3>2. CASE destroyed(record[j].node, j)
      <4>1. \A k \in Jobs \ {j} : record'[k] = record[k]
        BY <3>1 DEF TypeInv, Records
      <4> QED BY <2>1, <3>2, <4>1, Removed
    <3>3. CASE box' = box
      <4>1. \A k \in Jobs : /\ record'[k].node = record[k].node
                            /\ record[k].status = "running" => record'[k].status = "running"
        BY <3>1 DEF TypeInv, Records
      <4> QED BY <2>1, <3>3, <4>1 DEF BoxInv
    <3> QED BY <2>3, <3>2, <3>3 DEF destroyFails
  <2> QED BY <1>7, <1>8, <2>1, <2>2, <2>3 DEF handleCompleted
<1>9. ASSUME NEW j \in Jobs, cleanupRecord(j) PROVE BoxInv'
  <2>1. late' = late /\ record[j].status \in Active
    BY <1>9 DEF cleanupRecord, Active
  <2>2. CASE destroyFails(record[j].node, j) /\ record' = record
    BY <2>1, <2>2, Removed DEF destroyFails, BoxInv
  <2> QED BY <1>7, <1>9, <2>1, <2>2 DEF cleanupRecord
<1>10. ASSUME NEW j \in Jobs, recoverProvisioning(j) PROVE BoxInv'
  <2>1. late' = late /\ record[j].status = "provisioning"
    BY <1>10 DEF recoverProvisioning
  <2>2. box' = box \/ destroyed(record[j].node, j)
    BY <1>10 DEF recoverProvisioning, destroyFails
  <2>3. record' = [record EXCEPT ![j] = Pending]
    BY <1>10 DEF recoverProvisioning, saveLocked
  <2>4. \A k \in Jobs \ {j} : record'[k] = record[k]
    BY <2>3 DEF TypeInv, Records
  <2> QED BY <2>1, <2>2, <2>4, Removed
<1>11. ASSUME NEW n \in Nodes, sendHeartbeat(n) \/ heartbeat(n) \/ silence(n) PROVE BoxInv'
  BY <1>2, <1>11 DEF sendHeartbeat, heartbeat, silence
<1>12. ASSUME UNCHANGED vars PROVE BoxInv'
  BY <1>2, <1>12 DEF vars
<1> QED BY <1>1, <1>3, <1>4, <1>5, <1>6, <1>8, <1>9, <1>10, <1>11, <1>12 DEF Next

(* On nodes whose memory is left to the containers, and with failures that  *)
(* leave no container without a record, nothing is overcommitted.  Each     *)
(* condition is needed.  Memory that other programs use counts against what *)
(* a node reports free and not against its total, so that two placements    *)
(* between heartbeats can both take what is free; and so it is with the     *)
(* share of a container that has lost its record.                           *)
THEOREM NothingOvercommitted ==
  ASSUME NoOrphans, \A n \in Nodes : Others[n] = 0
  PROVE  Spec => []NoOvercommit
<1> DEFINE Inv == PlacementInv /\ KnownInv /\ BoxInv
<1>1. Init => KnownInv /\ BoxInv
  BY DEF Init, KnownInv, BoxInv, Pending, Active
<1>2. PlacementInv /\ KnownInv /\ BoxInv /\ [Next]_vars => KnownInv' /\ BoxInv'
  BY BoxStep, KnownStep DEF PlacementInv
<1>3. PlacementInv /\ BoxInv => NoOvercommit
  <2> SUFFICES ASSUME PlacementInv, BoxInv, NEW n \in Nodes
               PROVE  LET J == managed(n) \cup reservations(n) IN
                      CPU[J] <= Machines[n].cpu /\ Memory[J] + Others[n] <= Machines[n].memory
    BY DEF NoOvercommit
  <2>1. managed(n) \cup reservations(n) = reservations(n) /\ reservations(n) \in SUBSET Jobs
    BY DEF BoxInv, managed, reservations, Holding, Active
  <2>2. CPU[reservations(n)] <= Machines[n].cpu /\ Memory[reservations(n)] <= Machines[n].memory
    BY DEF PlacementInv, FitStore, reservations
  <2>3. Memory[reservations(n)] \in Nat /\ Others[n] = 0
    BY <2>1, SumsGiven
  <2> QED BY <2>1, <2>2, <2>3
<1> QED BY <1>1, <1>2, <1>3, InvHolds, PTL DEF Spec

(* For any jobs, machines, failures and restarts, place chooses a node with *)
(* the fewest jobs among those that suit the job, offer Docker and have     *)
(* room for it by their reports and by the records.                         *)
THEOREM FewestJobsFirst == Spec => LeastLoaded
<1> DEFINE Step == \A j \in Jobs :
                     ~restart /\ record[j].status = "pending" /\ record'[j].status = "provisioning" =>
                     \A n \in Nodes :
                       /\ registry[n].online /\ Suits(Request[j], Machines[n])
                       /\ "docker" \in registry[n].backends /\ HasRoom(n, Request[j])
                       => Load(record'[j].node) <= Load(n)
<1>1. PlacementInv /\ [Next]_vars => [Step]_vars
  <2> SUFFICES ASSUME TypeInv, BusyInv, [Next]_vars, ~restart, NEW j \in Jobs, NEW n \in Nodes,
                      record[j].status = "pending", record'[j].status = "provisioning",
                      registry[n].online, Suits(Request[j], Machines[n]),
                      "docker" \in registry[n].backends, HasRoom(n, Request[j])
               PROVE  Load(record'[j].node) <= Load(n)
    BY DEF PlacementInv
  <2>1. place(j) /\ record'[j].node = Choice(j)
    <3>1. ASSUME NEW k \in Jobs, Lighter(k) PROVE FALSE
      <4>1. record \in Records
        BY DEF TypeInv
      <4>2. record' # record /\ (k = j => record'[j].status # "provisioning")
        BY <3>1, <4>1 DEF Lighter, Pending, Records
      <4>3. k # j => record'[j] = record[j]
        BY <3>1, <4>1 DEF Lighter, Records
      <4> QED BY <4>2, <4>3
    <3>2. PICK k \in Jobs : place(k)
      BY <3>1, RecordSteps
    <3>3. j = k
      BY <3>2 DEF place
    <3> QED BY <3>2, <3>3 DEF place, TypeInv, Records
  <2> DEFINE C == Candidates(Request[j], [m \in Nodes |-> seen(m)])
             m == Choice(j)
  <2>2. m \in Nodes /\ m \in C /\ \A k \in C : seen(m).running <= seen(k).running
    BY <2>1, Chosen DEF place, Placeable
  <2>3. Request[j].isolation = "container" /\ Honest(m, registry[m])
    BY <2>2, SeenCandidates
  <2>4. Honest(n, registry[n])
    <3>1. Reported(n, registry[n])
      BY DEF TypeInv
    <3>2. registry[n] \notin {Unknown, Stale}
      BY DEF Unknown, Stale
    <3>3. registry[n] # Unavailable
      BY DEF Unavailable, Report
    <3> QED BY <3>1, <3>2, <3>3 DEF Reported
  <2>5. n \in C
    BY <2>3, <2>4, SeenCandidates DEF HasRoom
  <2>6. seen(m).running = Load(m) /\ seen(n).running = Load(n)
    BY <2>2, <2>3, SeenNumbers DEF Honest
  <2> QED BY <2>1, <2>2, <2>5, <2>6
<1> QED BY <1>1, InvHolds, PTL DEF Spec, LeastLoaded

=============================================================================

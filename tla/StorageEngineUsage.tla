------------------------- MODULE StorageEngineUsage -------------------------
(***************************************************************************)
(* How far total_memory_usage_ may drift from the bytes the dictionary     *)
(* really occupies: lemmas about sums over finite sets and about size_t    *)
(* arithmetic, then the accounting of every step of StorageEngine.         *)
(***************************************************************************)
EXTENDS StorageEngineProofs, FiniteSetTheorems, WellFoundedInduction

(* Zenon is the prover of the leaves that name no other one.               *)
USE Zenon

-----------------------------------------------------------------------------
(* Sums over finite sets and remainders.                                   *)

(* How MapThenSumSet of the community modules goes through a set, and the  *)
(* recursive function it defines to add up f over the subsets of S.        *)
Chosen(s) == CHOOSE x \in s : TRUE
Sums(h, f, S) ==
  h = [s \in SUBSET S |-> IF s = {} THEN 0 ELSE f[Chosen(s)] + h[s \ {Chosen(s)}]]

(* The sum of f over S, the form in which the footprint of the dictionary  *)
(* is computed.                                                            *)
SumOf(f, S) == MapThenSumSet(LAMBDA k : f[k], S)

(* A non-empty set of natural numbers has a least element.                 *)
LEMMA Smallest ==
  ASSUME NEW T \in SUBSET Nat, T # {}
  PROVE  \E n \in T : \A m \in T : n <= m
<1>1. IsWellFoundedOn(OpToRel(<, Nat), Nat)
  BY NatLessThanWellFounded
<1>2. PICK x \in T : \A y \in T : ~ (<<y, x>> \in OpToRel(<, Nat))
  BY <1>1, WFMin
<1>3. \A y \in T : ~(y < x)
  BY <1>2 DEF OpToRel
<1> QED
  BY <1>3, SMT

(* A non-empty set of finite sets has a member of least cardinality: what  *)
(* fails of some finite set fails of one, but of none of its subsets       *)
(* without one element.                                                    *)
LEMMA SmallestSet ==
  ASSUME NEW B, B # {}, \A s \in B : IsFiniteSet(s)
  PROVE  \E s \in B : \A x \in s : s \ {x} \notin B
<1> DEFINE N == {n \in Nat : \E s \in B : Cardinality(s) = n}
<1>1. \A s \in B : Cardinality(s) \in Nat
  BY FS_CardinalityType
<1>2. N \in SUBSET Nat /\ N # {}
  BY <1>1
<1>3. PICK n \in N : \A m \in N : n <= m
  <2> HIDE DEF N
  <2> QED BY <1>2, Smallest
<1>4. PICK s \in B : Cardinality(s) = n
  BY <1>3
<1>5. ASSUME NEW x \in s, s \ {x} \in B
      PROVE  FALSE
  <2>1. Cardinality(s \ {x}) = Cardinality(s) - 1
    BY FS_RemoveElement
  <2>2. Cardinality(s \ {x}) \in N
    BY <1>1, <1>5
  <2>3. n <= Cardinality(s \ {x}) /\ n \in Nat
    BY <1>3, <2>2
  <2> QED
    BY <1>4, <2>1, <2>3, SMT
<1> QED
  BY <1>4, <1>5

(* The element that the sum takes next is one of the set.                  *)
LEMMA ChosenIn ==
  ASSUME NEW s, s # {}
  PROVE  Chosen(s) \in s
  BY DEF Chosen

(* Two recursive sums agree wherever both are defined.                     *)
LEMMA SumsAgree ==
  ASSUME NEW f, NEW S, NEW T, NEW g, NEW h, Sums(g, f, S), Sums(h, f, T),
         IsFiniteSet(S)
  PROVE  \A s \in SUBSET S : s \in SUBSET T => g[s] = h[s]
<1> DEFINE B == {s \in SUBSET S : s \in SUBSET T /\ g[s] # h[s]}
<1> SUFFICES ASSUME B # {}
             PROVE  FALSE
  OBVIOUS
<1>1. \A s \in B : IsFiniteSet(s)
  BY FS_Subset
<1>2. PICK s \in B : \A x \in s : s \ {x} \notin B
  <2> HIDE DEF B
  <2> QED BY <1>1, SmallestSet
<1>3. s \in SUBSET S /\ s \in SUBSET T /\ g[s] # h[s]
  BY <1>2
<1>4. g[s] = IF s = {} THEN 0 ELSE f[Chosen(s)] + g[s \ {Chosen(s)}]
  BY <1>3 DEF Sums
<1>5. h[s] = IF s = {} THEN 0 ELSE f[Chosen(s)] + h[s \ {Chosen(s)}]
  BY <1>3 DEF Sums
<1>6. CASE s = {}
  BY <1>3, <1>4, <1>5, <1>6
<1>7. CASE s # {}
  <2>1. s \ {Chosen(s)} \notin B
    BY <1>2, <1>7, ChosenIn
  <2>2. g[s \ {Chosen(s)}] = h[s \ {Chosen(s)}]
    BY <1>3, <2>1
  <2> QED
    BY <1>3, <1>4, <1>5, <1>7, <2>2
<1> QED
  BY <1>6, <1>7

(* The recursive sum over a set is put together from those over its        *)
(* subsets without one element.                                            *)
LEMMA SumsGrow ==
  ASSUME NEW f, NEW T, IsFiniteSet(T), \A x \in T : \E h : Sums(h, f, T \ {x})
  PROVE  \E h : Sums(h, f, T)
<1>1. ASSUME NEW s \in SUBSET T, NEW x \in T, x \notin s
      PROVE  \E h : Sums(h, f, s)
  <2>1. PICK g : Sums(g, f, T \ {x})
    OBVIOUS
  <2>2. Sums([u \in SUBSET s |-> g[u]], f, s)
    <3>1. ASSUME NEW u \in SUBSET s
          PROVE  g[u] = IF u = {} THEN 0 ELSE f[Chosen(u)] + g[u \ {Chosen(u)}]
      BY <2>1, <1>1 DEF Sums
    <3>2. ASSUME NEW u \in SUBSET s
          PROVE  u \ {Chosen(u)} \in SUBSET s
      OBVIOUS
    <3> QED
      BY <3>1, <3>2 DEF Sums
  <2> QED
    BY <2>2
<1>2. PICK G : G = [s \in SUBSET T |-> CHOOSE h : Sums(h, f, s)]
  OBVIOUS
<1>3. ASSUME NEW s \in SUBSET T, NEW x \in T, x \notin s
      PROVE  Sums(G[s], f, s)
  BY <1>1, <1>2, <1>3
<1>4. PICK H : H = [s \in SUBSET T |->
                      IF s = {} THEN 0
                      ELSE f[Chosen(s)] + G[s \ {Chosen(s)}][s \ {Chosen(s)}]]
  OBVIOUS
<1>5. ASSUME NEW s \in SUBSET T
      PROVE  /\ s = {} => H[s] = 0
             /\ s # {} => H[s] = f[Chosen(s)] + G[s \ {Chosen(s)}][s \ {Chosen(s)}]
  BY <1>4
<1>6. ASSUME NEW s \in SUBSET T, s # T
      PROVE  H[s] = G[s][s]
  <2>1. Sums(G[s], f, s)
    BY <1>3, <1>6
  <2>2. G[s][s] = IF s = {} THEN 0 ELSE f[Chosen(s)] + G[s][s \ {Chosen(s)}]
    BY <2>1 DEF Sums
  <2>3. CASE s = {}
    BY <1>5, <2>2, <2>3
  <2>4. CASE s # {}
    <3>0. PICK r : r = s \ {Chosen(s)}
      OBVIOUS
    <3>1. r \in SUBSET T /\ Chosen(s) \in s /\ Chosen(s) \notin r /\ Chosen(s) \in T
      BY <2>4, <3>0, ChosenIn
    <3>2. Sums(G[r], f, r)
      BY <1>3, <3>1
    <3>3. IsFiniteSet(r) /\ r \in SUBSET r /\ r \in SUBSET s
      BY <3>0, <3>1, FS_Subset
    <3>4. G[r][r] = G[s][r]
      BY <2>1, <3>2, <3>3, SumsAgree, SMT
    <3> QED
      BY <1>5, <2>2, <2>4, <3>0, <3>4
  <2> QED
    BY <2>3, <2>4
<1>7. ASSUME NEW s \in SUBSET T
      PROVE  H[s] = IF s = {} THEN 0 ELSE f[Chosen(s)] + H[s \ {Chosen(s)}]
  <2>1. CASE s = {}
    BY <1>5, <2>1
  <2>2. CASE s # {}
    <3>0. PICK r : r = s \ {Chosen(s)}
      OBVIOUS
    <3>1. r \in SUBSET T /\ r # T
      BY <2>2, <3>0, ChosenIn
    <3>2. H[r] = G[r][r]
      BY <1>6, <3>1
    <3> QED
      BY <1>5, <2>2, <3>0, <3>2
  <2> QED
    BY <2>1, <2>2
<1>8. H = [s \in SUBSET T |-> H[s]]
  BY <1>4, SMT
<1>9. H = [s \in SUBSET T |-> IF s = {} THEN 0 ELSE f[Chosen(s)] + H[s \ {Chosen(s)}]]
  BY <1>7, <1>8
<1> QED
  BY <1>9 DEF Sums

(* The recursive sum over a finite set exists.                             *)
LEMMA SumsExist ==
  ASSUME NEW f, NEW S, IsFiniteSet(S)
  PROVE  \E h : Sums(h, f, S)
<1> DEFINE B == {s \in SUBSET S : ~\E h : Sums(h, f, s)}
<1> SUFFICES ASSUME B # {}
             PROVE  FALSE
  OBVIOUS
<1>1. \A s \in B : IsFiniteSet(s)
  BY FS_Subset
<1>2. PICK T \in B : \A x \in T : T \ {x} \notin B
  <2> HIDE DEF B
  <2> QED BY <1>1, SmallestSet
<1>3. IsFiniteSet(T) /\ \A x \in T : \E h : Sums(h, f, T \ {x})
  BY <1>1, <1>2
<1> QED
  BY <1>2, <1>3, SumsGrow

(* What MapThenSumSet computes: nothing for the empty set, ...             *)
LEMMA SumEmpty ==
  ASSUME NEW f
  PROVE  SumOf(f, {}) = 0
<1>1. PICK h : Sums(h, f, {})
  BY SumsExist, FS_EmptySet
<1>2. Sums(CHOOSE g : Sums(g, f, {}), f, {})
  BY <1>1
<1>3. SumOf(f, {}) = (CHOOSE g : Sums(g, f, {}))[{}]
  BY DEF SumOf, MapThenSumSet, MapThenFoldSet, Sums, Chosen
<1> QED
  BY <1>2, <1>3 DEF Sums

(* ... and the chosen element's share more than for the other elements.    *)
LEMMA SumUnfold ==
  ASSUME NEW f, NEW S, IsFiniteSet(S), S # {}
  PROVE  SumOf(f, S) = f[Chosen(S)] + SumOf(f, S \ {Chosen(S)})
<1>0. PICK R : R = S \ {Chosen(S)}
  OBVIOUS
<1>1. IsFiniteSet(R) /\ R \in SUBSET S /\ R \in SUBSET R /\ S \in SUBSET S
  BY <1>0, FS_Subset
<1>2. PICK g, h : g = (CHOOSE y : Sums(y, f, S)) /\ h = (CHOOSE y : Sums(y, f, R))
  OBVIOUS
<1>3. Sums(g, f, S)
  BY <1>2, SumsExist
<1>4. Sums(h, f, R)
  BY <1>1, <1>2, SumsExist
<1>5. SumOf(f, S) = g[S]
  BY <1>2 DEF SumOf, MapThenSumSet, MapThenFoldSet, Sums, Chosen
<1>6. SumOf(f, R) = h[R]
  BY <1>2 DEF SumOf, MapThenSumSet, MapThenFoldSet, Sums, Chosen
<1>7. g[S] = f[Chosen(S)] + g[R]
  BY <1>0, <1>1, <1>3 DEF Sums
<1>8. h[R] = g[R]
  BY <1>1, <1>3, <1>4, SumsAgree, SMT
<1> QED
  BY <1>0, <1>5, <1>6, <1>7, <1>8

(* A sum of integers is an integer.                                        *)
LEMMA SumInt ==
  ASSUME NEW f, NEW S, IsFiniteSet(S), \A x \in S : f[x] \in Int
  PROVE  SumOf(f, S) \in Int
<1> DEFINE B == {s \in SUBSET S : SumOf(f, s) \notin Int}
<1> SUFFICES ASSUME B # {}
             PROVE  FALSE
  OBVIOUS
<1>1. \A s \in B : IsFiniteSet(s)
  BY FS_Subset
<1>2. PICK s \in B : \A x \in s : s \ {x} \notin B
  <2> HIDE DEF B
  <2> QED BY <1>1, SmallestSet
<1>3. s \in SUBSET S /\ IsFiniteSet(s) /\ SumOf(f, s) \notin Int
  BY <1>1, <1>2
<1>4. s # {}
  BY <1>3, SumEmpty, SMT
<1>5. PICK x \in s : x = Chosen(s)
  BY <1>4, ChosenIn
<1>6. SumOf(f, s \ {x}) \in Int
  BY <1>2, <1>3
<1>7. f[x] \in Int
  BY <1>3
<1>8. SumOf(f, s) = f[x] + SumOf(f, s \ {x})
  BY <1>3, <1>4, <1>5, SumUnfold
<1> QED
  BY <1>3, <1>6, <1>7, <1>8, SMT

(* The sum does not depend on the order in which elements are taken.       *)
LEMMA SumRemove ==
  ASSUME NEW f, NEW S, IsFiniteSet(S), \A y \in S : f[y] \in Int
  PROVE  \A x \in S : SumOf(f, S) = f[x] + SumOf(f, S \ {x})
<1> DEFINE B == {s \in SUBSET S : \E x \in s : SumOf(f, s) # f[x] + SumOf(f, s \ {x})}
<1> SUFFICES ASSUME B # {}
             PROVE  FALSE
  OBVIOUS
<1>1. \A s \in B : IsFiniteSet(s)
  BY FS_Subset
<1>2. PICK s \in B : \A y \in s : s \ {y} \notin B
  <2> HIDE DEF B
  <2> QED BY <1>1, SmallestSet
<1>3. s \in SUBSET S /\ IsFiniteSet(s)
  BY <1>1, <1>2
<1>4. PICK x \in s : SumOf(f, s) # f[x] + SumOf(f, s \ {x})
  BY <1>2
<1>5. PICK y \in s : y = Chosen(s)
  BY <1>4, ChosenIn
<1>6. SumOf(f, s) = f[y] + SumOf(f, s \ {y})
  BY <1>3, <1>4, <1>5, SumUnfold
<1>7. y # x
  BY <1>4, <1>6
<1>8. PICK r : r = (s \ {x}) \ {y} /\ r = (s \ {y}) \ {x}
  OBVIOUS
<1>9. SumOf(f, s \ {y}) = f[x] + SumOf(f, r)
  <2>1. s \ {y} \notin B /\ s \ {y} \in SUBSET S /\ x \in s \ {y}
    BY <1>2, <1>3, <1>7
  <2> QED
    BY <1>8, <2>1
<1>10. SumOf(f, s \ {x}) = f[y] + SumOf(f, r)
  <2>1. s \ {x} \notin B /\ s \ {x} \in SUBSET S /\ y \in s \ {x}
    BY <1>2, <1>3, <1>7
  <2> QED
    BY <1>8, <2>1
<1>11. SumOf(f, r) \in Int /\ f[x] \in Int /\ f[y] \in Int
  <2>1. r \in SUBSET S
    BY <1>3, <1>8
  <2>2. IsFiniteSet(r) /\ \A z \in r : f[z] \in Int
    BY <2>1, FS_Subset
  <2> QED
    BY <1>3, <2>2, SumInt
<1> QED
  BY <1>4, <1>6, <1>9, <1>10, <1>11, SMT

(* Charges that agree on a finite set have the same sum over it.           *)
LEMMA SumSame ==
  ASSUME NEW f, NEW g, NEW S, IsFiniteSet(S), \A x \in S : f[x] = g[x]
  PROVE  SumOf(f, S) = SumOf(g, S)
<1> DEFINE B == {s \in SUBSET S : SumOf(f, s) # SumOf(g, s)}
<1> SUFFICES ASSUME B # {}
             PROVE  FALSE
  OBVIOUS
<1>1. \A s \in B : IsFiniteSet(s)
  BY FS_Subset
<1>2. PICK s \in B : \A x \in s : s \ {x} \notin B
  <2> HIDE DEF B
  <2> QED BY <1>1, SmallestSet
<1>3. s \in SUBSET S /\ IsFiniteSet(s) /\ SumOf(f, s) # SumOf(g, s)
  BY <1>1, <1>2
<1>4. s # {}
  BY <1>3, SumEmpty
<1>5. PICK x \in s : x = Chosen(s)
  BY <1>4, ChosenIn
<1>6. SumOf(f, s \ {x}) = SumOf(g, s \ {x})
  BY <1>2, <1>3
<1>7. SumOf(f, s) = f[x] + SumOf(f, s \ {x}) /\ SumOf(g, s) = g[x] + SumOf(g, s \ {x})
  BY <1>3, <1>4, <1>5, SumUnfold
<1>8. f[x] = g[x]
  BY <1>3
<1> QED
  BY <1>3, <1>6, <1>7, <1>8

(* What a remainder is: between 0 and the modulus, and a multiple of the   *)
(* modulus away.                                                           *)
LEMMA ModIs ==
  ASSUME NEW a \in Int, NEW m \in Nat \ {0}
  PROVE  /\ a % m \in 0 .. m - 1
         /\ \E q \in Int : a = m * q + (a % m)
<1>1. a % m \in 0 .. m - 1 /\ a \div m \in Int
  BY SMT
<1>2. a = m * (a \div m) + (a % m)
  BY SMT
<1> QED
  BY <1>1, <1>2

(* The converse: a number in that range, a multiple away, is the remainder.*)
LEMMA ModOnly ==
  ASSUME NEW q \in Int, NEW m \in Nat \ {0}, NEW r \in 0 .. m - 1
  PROVE  (m * q + r) % m = r
  BY SMT

(* Numbers a multiple of the modulus apart have the same remainder.        *)
LEMMA ModSame ==
  ASSUME NEW a \in Int, NEW q \in Int, NEW m \in Nat \ {0}
  PROVE  (a + m * q) % m = a % m
<1>1. PICK p \in Int : a = m * p + (a % m)
  BY ModIs
<1>2. a + m * q = m * (p + q) + (a % m)
  <2>1. PICK r \in Int : r = a % m
    BY SMT
  <2> QED
    BY <1>1, <2>1, SMT
<1>3. p + q \in Int /\ a % m \in 0 .. m - 1
  BY SMT
<1> QED
  BY <1>2, <1>3, ModOnly

(* Adding modulo m: the difference made is the number added.               *)
LEMMA ModStep ==
  ASSUME NEW a \in Int, NEW b \in Int, NEW m \in Nat \ {0}
  PROVE  (((a + b) % m) - a) % m = b % m
<1>1. PICK q \in Int : a + b = m * q + ((a + b) % m)
  <2>1. a + b \in Int
    BY SMT
  <2> QED
    BY <2>1, ModIs
<1>2. PICK r \in Int : r = (a + b) % m
  BY SMT
<1>3. r - a = b + m * (-q)
  BY <1>1, <1>2, SMT
<1>4. -q \in Int
  BY SMT
<1>5. (b + m * (-q)) % m = b % m
  BY <1>4, ModSame
<1> QED
  BY <1>2, <1>3, <1>5

-----------------------------------------------------------------------------
(* The byte counter.                                                       *)

(* Footprint as a function of the dictionary.                              *)
Stored(d) == {k \in Keys : d[k] # NoEntry}
Charge(d) == [k \in Keys |-> entry_cost(k, d[k].cap)]
Bytes(d) == MapThenSumSet(LAMBDA k : entry_cost(k, d[k].cap), Stored(d))

(* Footprint before and after a step, in terms of the dictionary.          *)
LEMMA BytesNow == Footprint = Bytes(dict) /\ Footprint' = Bytes(dict')
<1>1. Footprint = Bytes(dict)
  BY DEF Footprint, Bytes, Stored, Present, MapThenSumSet, MapThenFoldSet
<1>2. Footprint' = Bytes(dict')
  BY DEF Footprint, Bytes, Stored, Present, MapThenSumSet, MapThenFoldSet
<1> QED
  BY <1>1, <1>2

(* Footprint is the sum of the charges of the stored keys.                 *)
LEMMA BytesSum ==
  ASSUME NEW d, IsFiniteSet(Stored(d))
  PROVE  Bytes(d) = SumOf(Charge(d), Stored(d))
<1>0. PICK S, f : S = Stored(d) /\ f = Charge(d)
  OBVIOUS
<1>1. ASSUME NEW s \in SUBSET S, s # {}
      PROVE  f[Chosen(s)] = entry_cost(Chosen(s), d[Chosen(s)].cap)
  <2>1. Chosen(s) \in Keys
    BY <1>0, <1>1, ChosenIn DEF Stored
  <2> QED
    BY <1>0, <2>1 DEF Charge
<1> DEFINE Bill(h) == h = [s \in SUBSET S |->
                             IF s = {} THEN 0
                             ELSE entry_cost(Chosen(s), d[Chosen(s)].cap) + h[s \ {Chosen(s)}]]
<1>2. ASSUME NEW h
      PROVE  Bill(h) <=> Sums(h, f, S)
  BY <1>1 DEF Sums
<1>3. PICK g : g = CHOOSE h : Bill(h)
  OBVIOUS
<1>4. Bytes(d) = g[S]
  BY <1>0, <1>3 DEF Bytes, MapThenSumSet, MapThenFoldSet, Chosen
<1>5. PICK e : e = CHOOSE h : Sums(h, f, S)
  OBVIOUS
<1>6. SumOf(f, S) = e[S]
  BY <1>5 DEF SumOf, MapThenSumSet, MapThenFoldSet, Sums, Chosen
<1>7. \E h : Sums(h, f, S)
  BY <1>0, SumsExist
<1>8. Sums(e, f, S)
  BY <1>5, <1>7
<1>9. Sums(g, f, S)
  <2> HIDE DEF Bill
  <2> QED BY <1>2, <1>3, <1>7
<1>10. g[S] = e[S]
  BY <1>0, <1>8, <1>9, SumsAgree, SMT
<1> QED
  BY <1>0, <1>4, <1>6, <1>10

Dicts == [Keys -> DictEntry \cup {NoEntry}]
Cost(d, k) == IF d[k] = NoEntry THEN 0 ELSE entry_cost(k, d[k].cap)

(* What a key is charged with is a number of bytes.                        *)
LEMMA CostType ==
  ASSUME NEW d \in Dicts, NEW k \in Keys
  PROVE  /\ Cost(d, k) \in Nat
         /\ d[k] # NoEntry => Charge(d)[k] = Cost(d, k) /\ Cost(d, k) # 0
<1>1. d[k] # NoEntry => d[k].cap \in Nat
  BY DEF Dicts, DictEntry, Caps
<1>2. KeyCost[k] \in Nat \ {0}
  BY EngineAssumption
<1>3. d[k] # NoEntry => KeyCost[k] + d[k].cap \in Nat \ {0}
  BY <1>1, <1>2, SMT
<1>4. 0 \in Nat
  BY SMT
<1> QED
  BY <1>3, <1>4 DEF Cost, Charge, entry_cost

(* Footprint is a number while finitely many keys are stored.              *)
LEMMA BytesInt ==
  ASSUME NEW d \in Dicts, IsFiniteSet(Stored(d))
  PROVE  Bytes(d) \in Int
<1>0. PICK S, f : S = Stored(d) /\ f = Charge(d)
  OBVIOUS
<1>1. \A k \in S : f[k] \in Nat
  BY <1>0, CostType DEF Stored
<1>2. \A k \in S : f[k] \in Int
  BY <1>1, SMT
<1>3. SumOf(f, S) \in Int
  BY <1>0, <1>2, SumInt
<1> QED
  BY <1>0, <1>3, BytesSum

(* Erasing a key takes its cost off the footprint.                         *)
LEMMA BytesErase ==
  ASSUME NEW d \in Dicts, IsFiniteSet(Stored(d)), NEW k \in Keys,
         NEW e, e = [d EXCEPT ![k] = NoEntry]
  PROVE  /\ e \in Dicts /\ IsFiniteSet(Stored(e))
         /\ Bytes(d) = Bytes(e) + Cost(d, k)
<1>1. e \in Dicts
  BY DEF Dicts
<1>2. Stored(e) = Stored(d) \ {k} /\ \A j \in Stored(e) : e[j] = d[j]
  BY DEF Stored, Dicts
<1>3. IsFiniteSet(Stored(e))
  <2>1. IsFiniteSet(Stored(d) \ {k})
    BY FS_RemoveElement
  <2> QED
    BY <1>2, <2>1
<1>4. CASE d[k] = NoEntry
  <2>1. e = d
    BY <1>4 DEF Dicts
  <2>2. Bytes(d) \in Int /\ Cost(d, k) = 0
    BY <1>4, BytesInt DEF Cost
  <2>3. Bytes(d) = Bytes(d) + 0
    BY <2>2, SMT
  <2> QED
    BY <1>1, <1>3, <2>1, <2>2, <2>3
<1>5. CASE d[k] # NoEntry
  <2>0. PICK S, f, T, g : S = Stored(d) /\ f = Charge(d) /\ T = Stored(e) /\ g = Charge(e)
    OBVIOUS
  <2>a. IsFiniteSet(S) /\ IsFiniteSet(T)
    BY <1>3, <2>0
  <2>1. k \in S /\ \A j \in S : f[j] \in Int
    <3>1. k \in S /\ \A j \in S : f[j] \in Nat
      BY <1>5, <2>0, CostType DEF Stored
    <3> QED
      BY <3>1, SMT
  <2>2. SumOf(f, S) = f[k] + SumOf(f, S \ {k})
    BY <2>a, <2>1, SumRemove, SMT
  <2>3. \A j \in T : f[j] = g[j]
    BY <1>2, <2>0 DEF Charge, Stored
  <2>4. SumOf(f, T) = SumOf(g, T)
    BY <2>a, <2>3, SumSame
  <2>5. Bytes(d) = f[k] + Bytes(e)
    BY <1>2, <1>3, <2>0, <2>2, <2>4, BytesSum
  <2>6. f[k] = Cost(d, k) /\ Cost(d, k) \in Nat /\ Bytes(e) \in Int
    BY <1>1, <1>3, <1>5, <2>0, CostType, BytesInt
  <2>7. Bytes(d) = Bytes(e) + Cost(d, k)
    BY <2>5, <2>6, SMT
  <2> QED
    BY <1>1, <1>3, <2>7
<1> QED
  BY <1>4, <1>5

(* Storing an entry takes the old one's cost off the footprint and puts    *)
(* the new one's on.                                                       *)
LEMMA BytesPut ==
  ASSUME NEW d \in Dicts, IsFiniteSet(Stored(d)), NEW k \in Keys, NEW x \in DictEntry,
         NEW e, e = [d EXCEPT ![k] = x]
  PROVE  /\ e \in Dicts /\ IsFiniteSet(Stored(e))
         /\ Bytes(e) = Bytes(d) + (entry_cost(k, x.cap) - Cost(d, k))
<1>1. e \in Dicts /\ e[k] = x
  BY DEF Dicts
<1>2. PICK b : b = [d EXCEPT ![k] = NoEntry]
  OBVIOUS
<1>3. b = [e EXCEPT ![k] = NoEntry]
  BY <1>2 DEF Dicts
<1>4. IsFiniteSet(Stored(e))
  <2>1. Stored(e) = Stored(d) \cup {k}
    BY NoDictEntryAssumption DEF Stored, Dicts
  <2> QED
    BY <2>1, FS_AddElement
<1>5. Bytes(d) = Bytes(b) + Cost(d, k) /\ b \in Dicts /\ IsFiniteSet(Stored(b))
  BY <1>2, BytesErase
<1>6. Bytes(e) = Bytes(b) + Cost(e, k)
  BY <1>1, <1>3, <1>4, BytesErase
<1>7. Cost(e, k) = entry_cost(k, x.cap)
  BY <1>1, NoDictEntryAssumption DEF Cost
<1>8. Bytes(b) \in Int /\ Cost(d, k) \in Nat /\ Cost(e, k) \in Nat
  BY <1>1, <1>5, BytesInt, CostType
<1>9. Bytes(e) = Bytes(d) + (Cost(e, k) - Cost(d, k))
  BY <1>5, <1>6, <1>8, SMT
<1> QED
  BY <1>1, <1>4, <1>7, <1>9

-----------------------------------------------------------------------------
(* A step that keeps the books: the counter moves by what the footprint    *)
(* moves by.                                                               *)
Balanced == \E n \in Int : /\ Footprint' = Footprint + n
                           /\ total' = (total + n) % SizeMod
Countable == IsFiniteSet(Stored(dict))

(* A step that leaves dictionary and counter alone keeps the books.        *)
LEMMA KeepBalanced ==
  ASSUME TypeOK, Countable, KeepDict
  PROVE  Balanced /\ Countable'
<1>1. dict' = dict /\ total' = total /\ dict \in Dicts
  BY DEF KeepDict, TypeOK, Dicts
<1>2. Bytes(dict) \in Int
  BY <1>1, BytesInt DEF Countable
<1>3. Footprint' = Footprint + 0
  <2>1. Bytes(dict) = Bytes(dict) + 0
    BY <1>2, SMT
  <2> QED
    BY <1>1, <2>1, BytesNow
<1>4. total' = (total + 0) % SizeMod
  <2>1. 0 \in Int /\ SizeMod \in Nat \ {0} /\ total \in 0 .. SizeMod - 1
    BY EngineAssumption, SMT DEF TypeOK
  <2>2. (SizeMod * 0 + total) % SizeMod = total
    BY <2>1, ModOnly
  <2>3. SizeMod * 0 + total = total + 0
    BY <2>1, SMT
  <2> QED
    BY <1>1, <2>2, <2>3
<1>5. Countable'
  BY <1>1 DEF Countable
<1>6. 0 \in Int
  BY SMT
<1> QED
  BY <1>3, <1>4, <1>5, <1>6 DEF Balanced

(* Erase keeps the books.                                                  *)
LEMMA EraseBalanced ==
  ASSUME TypeOK, Countable, NEW k \in Keys, Present(k), Erase(k)
  PROVE  Balanced /\ Countable'
<1>1. dict \in Dicts /\ dict' = [dict EXCEPT ![k] = NoEntry]
  BY DEF TypeOK, Dicts, Erase
<1>2. /\ dict' \in Dicts /\ IsFiniteSet(Stored(dict'))
      /\ Bytes(dict) = Bytes(dict') + Cost(dict, k)
  BY <1>1, BytesErase DEF Countable
<1>3. PICK a, b, m : a = Bytes(dict) /\ b = Bytes(dict') /\ m = Cost(dict, k)
  OBVIOUS
<1>4. a \in Int /\ b \in Int /\ m \in Nat /\ a = b + m
  BY <1>1, <1>2, <1>3, BytesInt, CostType DEF Countable
<1>5. Footprint = a /\ Footprint' = b
  BY <1>3, BytesNow
<1>6. total' = (total - m) % SizeMod
  BY <1>3 DEF Erase, Minus, Cost, Present
<1>7. b = a + (-m) /\ -m \in Int /\ total - m = total + (-m)
  BY <1>4, SMT DEF TypeOK
<1> QED
  BY <1>2, <1>5, <1>6, <1>7 DEF Balanced, Countable

(* A write keeps the books if the counter is charged with the difference.  *)
LEMMA PutBalanced ==
  ASSUME TypeOK, Countable, NEW k \in Keys, NEW e \in DictEntry,
         dict' = [dict EXCEPT ![k] = e],
         total' = (total + (entry_cost(k, e.cap) - Cost(dict, k))) % SizeMod
  PROVE  Balanced /\ Countable'
<1>1. dict \in Dicts
  BY DEF TypeOK, Dicts
<1>2. /\ IsFiniteSet(Stored(dict'))
      /\ Bytes(dict') = Bytes(dict) + (entry_cost(k, e.cap) - Cost(dict, k))
  BY <1>1, BytesPut DEF Countable
<1>3. e.cap \in Nat /\ KeyCost[k] \in Nat /\ Cost(dict, k) \in Nat
  BY <1>1, CostType, EngineAssumption DEF DictEntry, Caps
<1>4. entry_cost(k, e.cap) - Cost(dict, k) \in Int
  BY <1>3, SMT DEF entry_cost
<1> QED
  BY <1>2, <1>4, BytesNow DEF Balanced, Countable

(* Every step of a method but the commit keeps, erases, or sets an expiry. *)
LEMMA WorkUsage ==
  ASSUME TypeOK, PathInv, NEW c \in Clients, Work(c), ~commit(c)
  PROVE  \/ KeepDict
         \/ \E k \in Keys : Present(k) /\ Erase(k)
         \/ /\ Present(Key(c)) /\ UNCHANGED total
            /\ \E e \in DictEntry : /\ e.cap = dict[Key(c)].cap
                                    /\ dict' = [dict EXCEPT ![Key(c)] = e]
<1>1. Key(c) \in Keys /\ \A t : Lapsed(Key(c), t) => Present(Key(c))
  BY WorkShape, KeyType DEF Holding, Lapsed, Expired, Present
<1>2. CASE get(c) \/ exists(c)
  BY <1>1, <1>2 DEF get, exists, Lookup
<1>3. CASE del(c)
  BY <1>1, <1>3 DEF del
<1>4. CASE pttl(c) \/ incr_parse(c)
  BY <1>1, <1>4 DEF pttl, incr_parse
<1>5. CASE expire(c) \/ persist(c)
  BY <1>1, <1>5, TtlWrites
<1>6. CASE load_usage(c) \/ check_memory(c) \/ evict_done(c)
  BY <1>6 DEF load_usage, check_memory, evict_done, KeepDict
<1>8. CASE \E k \in Keys : evict_one(c, k)
  BY <1>8 DEF evict_one, ShardKeys
<1> QED
  BY <1>2, <1>3, <1>4, <1>5, <1>6, <1>8 DEF Work

-----------------------------------------------------------------------------
(* The old cost a thread carries is that of the entry it will replace,     *)
(* unless it has evicted that entry itself.                                *)
OldOK(c) ==
  pc[c] \in {"check", "evict", "commit"}
    => \/ loc[c].old = Cost(dict, Key(c))
       \/ limited /\ ~Present(Key(c))
OldInv == \A c \in Clients : OldOK(c)

(* A thread on its way to a commit is not moved by the others.             *)
LEMMA OthersStill ==
  ASSUME Inv, [Next]_vars, NEW c \in Clients, ~Work(c),
         pc'[c] \in {"check", "evict", "commit"}
  PROVE  /\ pc'[c] = pc[c] /\ req'[c] = req[c] /\ loc'[c] = loc[c]
         /\ limited => limited'
<1> USE DEF Inv
<1>1. ASSUME NEW d \in Clients, Work(d)
      PROVE  /\ pc'[c] = pc[c] /\ req'[c] = req[c] /\ loc'[c] = loc[c]
             /\ limited => limited'
  <2>1. d # c
    BY <1>1
  <2>2. pc'[c] = pc[c] /\ req'[c] = req[c]
    <3>1. CASE Stays(d)
      BY <2>1, <3>1 DEF Stays, TypeOK
    <3>2. CASE Leaves(d)
      BY <2>1, <3>2 DEF Leaves, TypeOK
    <3> QED
      BY <1>1, <3>1, <3>2, WorkShape
  <2> QED
    BY <1>1, <2>1, <2>2, WorkShape, WorkLoc
<1>2. ASSUME NEW d \in Clients, (\E r \in Requests : Begin(d, r)) \/ Acquire(d)
      PROVE  /\ pc'[c] = pc[c] /\ req'[c] = req[c] /\ loc'[c] = loc[c]
             /\ limited => limited'
  <2>1. d # c
    BY <1>2 DEF Begin, Acquire, TypeOK
  <2> QED
    BY <1>2, <2>1 DEF Begin, Acquire, TypeOK
<1>3. CASE background_sweeper
  <2>1. UNCHANGED <<pc, req, loc, limited>>
    BY <1>3 DEF background_sweeper, sweep_wake, sweep_try, sweep_entry, sweep_unlock, SweepFrame
  <2> QED
    BY <2>1
<1>4. CASE (\E d \in Clients, b \in MemLimits : set_max_memory(d, b)) \/ Tick \/ UNCHANGED vars
  <2>1. UNCHANGED <<pc, req, loc>>
    BY <1>4 DEF set_max_memory, Tick, vars
  <2>2. limited => limited'
    BY <1>4 DEF set_max_memory, Tick, vars
  <2> QED
    BY <2>1, <2>2
<1> QED
  BY <1>1, <1>2, <1>3, <1>4 DEF Next

(* The thread's own steps keep its old cost up to date.                    *)
LEMMA OldOwn ==
  ASSUME Inv, OldInv, NEW c \in Clients, Work(c)
  PROVE  OldOK(c)'
<1> USE DEF Inv
<1>0. /\ pc[c] \in Holding /\ Key(c) \in Keys /\ OldOK(c) /\ limited' = limited
  BY WorkShape, KeyType DEF OldInv, Holding
<1>1. CASE load_usage(c)
  <2>1. /\ UNCHANGED <<req, dict>>
        /\ loc'[c] = [loc[c] EXCEPT !.cur = total,
                                    !.old = IF Present(Key(c)) THEN entry_cost(Key(c), dict[Key(c)].cap) ELSE 0]
    BY <1>1 DEF load_usage, TypeOK
  <2>2. loc'[c].old = Cost(dict, Key(c))
    BY <2>1, LocType DEF Locals, Cost, Present
  <2> QED
    BY <2>1, <2>2 DEF OldOK, Key
<1>2. CASE check_memory(c)
  <2>1. pc[c] = "check" /\ UNCHANGED <<req, dict>> /\ ~load_usage(c)
    BY <1>2 DEF check_memory, load_usage
  <2>2. loc'[c].old = loc[c].old
    BY <1>2, <2>1, QuietLoc
  <2> QED
    BY <1>0, <2>1, <2>2 DEF OldOK, Key, Present
<1>3. CASE \E k \in Keys : evict_one(c, k)
  <2>1. PICK k \in Keys : evict_one(c, k)
    BY <1>3
  <2>2. /\ pc[c] = "evict" /\ UNCHANGED req /\ ~load_usage(c)
        /\ dict' = [dict EXCEPT ![k] = NoEntry]
    BY <2>1 DEF evict_one, load_usage, Erase
  <2>3. loc'[c].old = loc[c].old
    BY <1>3, <2>2, QuietLoc
  <2>4. dict'[Key(c)] = dict[Key(c)] \/ dict'[Key(c)] = NoEntry
    BY <1>0, <2>2 DEF TypeOK
  <2>5. limited
    BY <2>2 DEF LimitInv
  <2> QED
    BY <1>0, <2>2, <2>3, <2>4, <2>5 DEF OldOK, Key, Present, Cost
<1>4. CASE evict_done(c)
  <2>1. CASE pc'[c] = "idle"
    BY <2>1 DEF OldOK
  <2>2. CASE pc'[c] # "idle"
    <3>1. pc[c] = "evict" /\ UNCHANGED <<req, loc, dict>>
      BY <1>4, <2>2 DEF evict_done, Return, TypeOK
    <3> QED
      BY <1>0, <3>1 DEF OldOK, Key, Present
  <2> QED
    BY <2>1, <2>2
<1>5. CASE ~(load_usage(c) \/ check_memory(c) \/ evict_done(c) \/ \E k \in Keys : evict_one(c, k))
  <2>1. pc'[c] \notin {"check", "evict", "commit"}
    BY <1>5, ZenonT(30) DEF Work, get, exists, del, expire, pttl, persist, commit, incr_parse,
               Lookup, CountKey, Return, TypeOK
  <2> QED
    BY <2>1 DEF OldOK
<1> QED
  BY <1>1, <1>2, <1>3, <1>4, <1>5

(* Every step keeps every thread's old cost up to date.                    *)
LEMMA NextOld ==
  ASSUME Inv, OldInv, [Next]_vars
  PROVE  OldInv'
<1> SUFFICES ASSUME NEW c \in Clients
             PROVE  OldOK(c)'
  BY DEF OldInv
<1>1. CASE Work(c)
  BY <1>1, OldOwn
<1>2. CASE ~Work(c) /\ pc'[c] \in {"check", "evict", "commit"}
  <2>1. /\ pc'[c] = pc[c] /\ req'[c] = req[c] /\ loc'[c] = loc[c]
        /\ limited => limited'
    BY <1>2, OthersStill
  <2>2. dict'[Key(c)] = dict[Key(c)]
    BY <1>2, <2>1, OthersKeep DEF Holding
  <2>3. OldOK(c)
    BY DEF OldInv
  <2> QED
    BY <1>2, <2>1, <2>2, <2>3 DEF OldOK, Key, Present, Cost
<1>3. CASE pc'[c] \notin {"check", "evict", "commit"}
  BY <1>3 DEF OldOK
<1> QED
  BY <1>1, <1>2, <1>3

-----------------------------------------------------------------------------
UsageInv == Inv /\ Countable /\ OldInv

(* A commit stores one more key at most, and keeps the books if it charges *)
(* the entry as it is and gives back what the replaced one was charged.    *)
LEMMA CommitUsage ==
  ASSUME UsageInv, NEW c \in Clients, commit(c)
  PROVE  /\ Countable'
         /\ loc[c].old = Cost(dict, Key(c)) /\ FreshCap(NewVal(c)) = NewCap(c) => Balanced
<1> USE DEF UsageInv, Inv
<1>1. pc[c] # "idle" /\ pc[c] = "commit" /\ Key(c) \in Keys /\ Cmd(c) \in UpdateCmds
  BY KeyType DEF commit, PathInv
<1>2. PICK e \in DictEntry : dict' = [dict EXCEPT ![Key(c)] = e] /\ e.cap = NewCap(c)
  BY <1>1, CommitWrites
<1>3. dict \in Dicts
  BY DEF TypeOK, Dicts
<1>4. Countable'
  BY <1>1, <1>2, <1>3, BytesPut DEF Countable
<1>5. ASSUME loc[c].old = Cost(dict, Key(c)), FreshCap(NewVal(c)) = NewCap(c)
      PROVE  Balanced
  <2>1. new_cost(c) = entry_cost(Key(c), e.cap)
    BY <1>2, <1>5 DEF new_cost
  <2>2. total' = (total + new_cost(c) - loc[c].old) % SizeMod
    BY DEF commit
  <2>3. new_cost(c) \in Nat /\ Cost(dict, Key(c)) \in Nat /\ total \in Int
    BY <1>1, <1>3, NewCostType, CostType, SMT DEF TypeOK
  <2>4. total + new_cost(c) - Cost(dict, Key(c)) = total + (new_cost(c) - Cost(dict, Key(c)))
    BY <2>3, SMT
  <2>5. total' = (total + (entry_cost(Key(c), e.cap) - Cost(dict, Key(c)))) % SizeMod
    BY <1>5, <2>1, <2>2, <2>4
  <2> QED
    BY <1>1, <1>2, <2>5, PutBalanced
<1> QED
  BY <1>4, <1>5

(* Every step keeps the books, except a commit.                            *)
LEMMA StepUsage ==
  ASSUME UsageInv, [Next]_vars, \A c \in Clients : ~commit(c)
  PROVE  Balanced /\ Countable'
<1> USE DEF UsageInv, Inv
<1>1. ASSUME NEW c \in Clients, Work(c)
      PROVE  Balanced /\ Countable'
  <2>0. Key(c) \in Keys
    BY <1>1, WorkShape, KeyType DEF Holding
  <2>1. CASE KeepDict
    BY <2>1, KeepBalanced
  <2>2. CASE \E k \in Keys : Present(k) /\ Erase(k)
    BY <2>2, EraseBalanced
  <2>3. CASE /\ Present(Key(c)) /\ UNCHANGED total
             /\ \E e \in DictEntry : /\ e.cap = dict[Key(c)].cap
                                     /\ dict' = [dict EXCEPT ![Key(c)] = e]
    <3>1. PICK e \in DictEntry : /\ e.cap = dict[Key(c)].cap
                                 /\ dict' = [dict EXCEPT ![Key(c)] = e]
      BY <2>3
    <3>2. entry_cost(Key(c), e.cap) = Cost(dict, Key(c))
      BY <2>3, <3>1 DEF Cost, Present
    <3>3. Cost(dict, Key(c)) \in Nat
      BY <2>0, CostType DEF TypeOK, Dicts
    <3>4. /\ SizeMod \in Nat \ {0} /\ total \in 0 .. SizeMod - 1 /\ total' = total
          /\ 0 \in Int
      BY <2>3, EngineAssumption, SMT DEF TypeOK
    <3>5. SizeMod * 0 + total = total + (Cost(dict, Key(c)) - Cost(dict, Key(c)))
      BY <3>3, <3>4, SMT
    <3>6. (SizeMod * 0 + total) % SizeMod = total
      BY <3>4, ModOnly
    <3>7. total' = (total + (entry_cost(Key(c), e.cap) - Cost(dict, Key(c)))) % SizeMod
      BY <3>2, <3>4, <3>5, <3>6
    <3> QED
      BY <2>0, <3>1, <3>7, PutBalanced
  <2> QED
    BY <1>1, <2>1, <2>2, <2>3, WorkUsage
<1>2. CASE background_sweeper
  <2>1. ASSUME NEW k \in Keys, sweep_entry(k)
        PROVE  KeepDict \/ (Present(k) /\ Erase(k))
    BY <2>1 DEF sweep_entry, Lapsed, Expired, Present
  <2>2. KeepDict \/ \E k \in Keys : Present(k) /\ Erase(k)
    BY <1>2, <2>1 DEF background_sweeper, sweep_wake, sweep_try, sweep_unlock, KeepDict
  <2> QED
    BY <2>2, KeepBalanced, EraseBalanced
<1>3. CASE KeepDict
  BY <1>3, KeepBalanced
<1>4. \/ KeepDict
      \/ background_sweeper
      \/ \E c \in Clients : Work(c)
  BY DEF Next, Begin, set_max_memory, Acquire, Tick, vars, KeepDict
<1> QED
  BY <1>1, <1>2, <1>3, <1>4

(* Nothing is stored and nobody is in a method at the start.               *)
LEMMA InitUsage == Init => Countable /\ OldInv
<1> SUFFICES ASSUME Init
             PROVE  Countable /\ OldInv
  OBVIOUS
<1>1. Stored(dict) = {}
  BY DEF Stored, Init
<1>2. OldInv
  BY DEF Init, OldInv, OldOK
<1> QED
  BY <1>1, <1>2, FS_EmptySet DEF Countable

(* Every step keeps what the accounting of the byte counter rests on.      *)
LEMMA NextUsage ==
  ASSUME UsageInv, Inv', [Next]_vars
  PROVE  UsageInv'
<1>1. CASE \E c \in Clients : commit(c)
  BY <1>1, NextOld, CommitUsage DEF UsageInv
<1>2. CASE \A c \in Clients : ~commit(c)
  BY <1>2, NextOld, StepUsage DEF UsageInv
<1> QED
  BY <1>1, <1>2

(* A step that keeps the books does not let the counter drift.             *)
LEMMA BalancedStep ==
  ASSUME UsageInv, Balanced
  PROVE  /\ (total' - total) % SizeMod = (Footprint' - Footprint) % SizeMod
         /\ UsageExact => UsageExact'
<1>1. PICK n \in Int : Footprint' = Footprint + n /\ total' = (total + n) % SizeMod
  BY DEF Balanced
<1>2. PICK m \in Nat \ {0} : m = SizeMod
  BY EngineAssumption
<1>3. PICK f, t \in Int : f = Footprint /\ t = total
  <2>1. Footprint \in Int
    BY BytesInt, BytesNow DEF UsageInv, Inv, Countable, TypeOK, Dicts
  <2>2. total \in Int
    BY EngineAssumption, SMT DEF UsageInv, Inv, TypeOK
  <2> QED
    BY <2>1, <2>2
<1>4. (((t + n) % m) - t) % m = n % m
  BY ModStep
<1>5. (f + n) - f = n
  BY <1>3, SMT
<1>6. ((f % m) + n) % m = (f + n) % m
  <2>1. PICK q \in Int : f = m * q + (f % m)
    BY <1>3, ModIs
  <2>2. PICK r \in Int : r = f % m
    BY <1>3, SMT
  <2>3. r + n \in Int /\ f + n = (r + n) + m * q
    BY <1>3, <2>1, <2>2, SMT
  <2>4. ((r + n) + m * q) % m = (r + n) % m
    BY <2>3, ModSame
  <2> QED
    BY <2>2, <2>3, <2>4
<1> QED
  BY <1>1, <1>2, <1>3, <1>4, <1>5, <1>6 DEF UsageExact

(* A commit that found no entry keeps the books.                           *)
LEMMA NewEntryBalanced ==
  ASSUME UsageInv, NEW c \in Clients, commit(c), loc[c].old = 0
  PROVE  Balanced
<1> USE DEF UsageInv, Inv
<1>1. pc[c] # "idle" /\ pc[c] = "commit" /\ Key(c) \in Keys
  BY KeyType DEF commit
<1>2. ~Present(Key(c))
  <2>1. Present(Key(c)) => Cost(dict, Key(c)) # 0
    BY <1>1, CostType DEF TypeOK, Dicts, Present
  <2> QED
    BY <1>1, <2>1 DEF OldInv, OldOK
<1>3. Cost(dict, Key(c)) = 0 /\ FreshCap(NewVal(c)) = NewCap(c)
  BY <1>2 DEF Cost, NewCap, Present
<1> QED
  BY <1>3, CommitUsage

(* The byte counter is right but for replaced entries, for any number of   *)
(* threads, shards and keys: on every other path (erase, lazy expiry,      *)
(* sweep, eviction, a new entry) total_memory_usage_ moves by exactly what *)
(* the stored entries are charged with, modulo the width of size_t.        *)
THEOREM UsageDrift == Spec => DriftOnlyByReplacing
<1> DEFINE Drift == (total' - total) % SizeMod # (Footprint' - Footprint) % SizeMod
                      => \E c \in Clients : pc[c] = "commit" /\ pc'[c] = "idle" /\ loc[c].old # 0
<1>1. ASSUME UsageInv, [Next]_vars
      PROVE  Drift
  <2>1. CASE \A c \in Clients : ~commit(c)
    BY <1>1, <2>1, StepUsage, BalancedStep
  <2>2. ASSUME NEW c \in Clients, commit(c)
        PROVE  Drift
    <3>1. pc[c] = "commit" /\ pc'[c] = "idle"
      BY <1>1, <2>2 DEF commit, Return, UsageInv, Inv, TypeOK
    <3>2. CASE loc[c].old # 0
      BY <3>1, <3>2
    <3>3. CASE loc[c].old = 0
      BY <1>1, <2>2, <3>3, NewEntryBalanced, BalancedStep
    <3> QED
      BY <3>2, <3>3
  <2> QED
    BY <2>1, <2>2
<1>2. UsageInv /\ [Next]_vars => [Drift]_vars
  BY <1>1
<1>3. UsageInv /\ Inv' /\ [Next]_vars => UsageInv'
  BY NextUsage
<1>4. Init /\ Inv => UsageInv
  BY InitUsage DEF UsageInv
<1> QED
  BY <1>2, <1>3, <1>4, InvHolds, PTL DEF Spec, DriftOnlyByReplacing

-----------------------------------------------------------------------------
(* When every value fits the inline buffer of a std::string and no memory  *)
(* limit is ever set, all capacities are equal and nothing is evicted.     *)
Inline == \A k \in Keys : Present(k) => dict[k].cap = SSO
ShortValues == (\A v \in Values : StrLen[v] <= SSO) /\ MemLimits \subseteq {0}

(* What a commit stores is inline as well, whichever string assignment it  *)
(* uses.                                                                   *)
LEMMA InlineCap ==
  ASSUME ShortValues, UsageInv, Inline, NEW c \in Clients, commit(c)
  PROVE  NewCap(c) = SSO /\ FreshCap(NewVal(c)) = SSO
<1> USE DEF UsageInv, Inv
<1>1. pc[c] # "idle" /\ pc[c] = "commit" /\ Key(c) \in Keys /\ Cmd(c) \in UpdateCmds
  BY KeyType DEF commit, PathInv
<1>2. NewVal(c) \in Values
  BY <1>1, NewCostType
<1>3. StrLen[NewVal(c)] <= SSO
  BY <1>2 DEF ShortValues
<1>4. Present(Key(c)) => dict[Key(c)].cap = SSO
  BY <1>1 DEF Inline
<1> QED
  BY <1>3, <1>4 DEF NewCap, FreshCap, CopyCap, MoveCap

(* Erasing keeps the other entries inline, writing an inline entry too.    *)
LEMMA InlineWrite ==
  ASSUME TypeOK, Inline, NEW k \in Keys, NEW e \in DictEntry \cup {NoEntry},
         e = NoEntry \/ e.cap = SSO, dict' = [dict EXCEPT ![k] = e]
  PROVE  Inline'
<1> SUFFICES ASSUME NEW j \in Keys, dict'[j] # NoEntry
             PROVE  dict'[j].cap = SSO
  BY DEF Inline, Present
<1>1. dict'[j] = e \/ dict'[j] = dict[j]
  BY DEF TypeOK
<1> QED
  BY <1>1 DEF Inline, Present

(* Then every step keeps the books, the replacing commits included.        *)
LEMMA NextInline ==
  ASSUME ShortValues, UsageInv, Inline, ~limited, [Next]_vars
  PROVE  Inline' /\ ~limited' /\ Balanced
<1> USE DEF UsageInv, Inv
<1>1. ~limited'
  <2>1. ASSUME NEW c \in Clients, Work(c)
        PROVE  ~limited'
    BY <2>1, WorkShape
  <2>2. ASSUME NEW c \in Clients, NEW b \in MemLimits, set_max_memory(c, b)
        PROVE  ~limited'
    <3>1. b = 0
      BY DEF ShortValues
    <3>2. ~(b > 0)
      BY <3>1, SMT
    <3> QED
      BY <2>2, <3>2 DEF set_max_memory
  <2>3. \/ limited' = limited
        \/ \E c \in Clients : Work(c)
        \/ \E c \in Clients, b \in MemLimits : set_max_memory(c, b)
    BY DEF Next, Begin, Acquire, Tick, vars, background_sweeper, sweep_wake, sweep_try,
           sweep_entry, sweep_unlock, SweepFrame
  <2> QED
    BY <2>1, <2>2, <2>3
<1>2. ASSUME NEW c \in Clients, commit(c)
      PROVE  Inline' /\ Balanced
  <2>1. pc[c] # "idle" /\ pc[c] = "commit" /\ Key(c) \in Keys /\ Cmd(c) \in UpdateCmds
    BY <1>2, KeyType DEF commit, PathInv
  <2>2. NewCap(c) = SSO /\ FreshCap(NewVal(c)) = SSO
    BY <1>2, InlineCap
  <2>3. loc[c].old = Cost(dict, Key(c))
    BY <2>1 DEF OldInv, OldOK
  <2>4. PICK e \in DictEntry : dict' = [dict EXCEPT ![Key(c)] = e] /\ e.cap = NewCap(c)
    BY <1>2, <2>1, CommitWrites
  <2>5. Inline'
    BY <2>1, <2>2, <2>4, InlineWrite
  <2> QED
    BY <1>2, <2>2, <2>3, <2>5, CommitUsage
<1>3. ASSUME \A c \in Clients : ~commit(c)
      PROVE  Inline'
  <2>1. CASE KeepDict
    BY <2>1 DEF KeepDict, Inline, Present
  <2>2. CASE \E k \in Keys : Erase(k)
    <3>1. PICK k \in Keys : dict' = [dict EXCEPT ![k] = NoEntry]
      BY <2>2 DEF Erase
    <3> QED
      BY <3>1, InlineWrite
  <2>3. ASSUME NEW c \in Clients, Work(c)
        PROVE  Inline'
    <3>1. Key(c) \in Keys
      BY <2>3, WorkShape, KeyType DEF Holding
    <3>2. ASSUME Present(Key(c)), NEW e \in DictEntry, e.cap = dict[Key(c)].cap,
                 dict' = [dict EXCEPT ![Key(c)] = e]
          PROVE  Inline'
      <4>1. e.cap = SSO
        BY <3>1, <3>2 DEF Inline
      <4> QED
        BY <3>1, <3>2, <4>1, InlineWrite
    <3> QED
      BY <1>3, <2>1, <2>2, <2>3, <3>2, WorkUsage
  <2>4. \/ KeepDict
        \/ \E k \in Keys : Erase(k)
        \/ \E c \in Clients : Work(c)
    BY DEF Next, Begin, set_max_memory, Acquire, Tick, vars, KeepDict, background_sweeper,
           sweep_wake, sweep_try, sweep_entry, sweep_unlock
  <2> QED
    BY <2>1, <2>2, <2>3, <2>4
<1>4. CASE \A c \in Clients : ~commit(c)
  BY <1>1, <1>3, <1>4, StepUsage
<1> QED
  BY <1>1, <1>2, <1>4

(* The byte counter is exact for any number of threads, shards and keys,   *)
(* as docs/architecture.md says, when no value outgrows the inline buffer  *)
(* of a std::string and no memory limit is set: whatever the threads and   *)
(* the sweeper do, total_memory_usage_ is the cost of the stored entries.  *)
THEOREM UsageCounted ==
  ASSUME ShortValues
  PROVE  Spec => []UsageExact
<1> DEFINE Counted == UsageInv /\ Inline /\ ~limited /\ UsageExact
<1>1. Init /\ Inv => Counted
  <2> SUFFICES ASSUME Init, Inv
               PROVE  Counted
    OBVIOUS
  <2>1. UsageInv
    BY InitUsage DEF UsageInv
  <2>2. Inline /\ ~limited
    BY DEF Init, Inline, Present
  <2>3. Stored(dict) = {} /\ total = 0
    BY DEF Stored, Init
  <2>4. Footprint = 0
    <3>1. Bytes(dict) = SumOf(Charge(dict), {})
      BY <2>1, <2>3, BytesSum DEF UsageInv, Countable
    <3> QED
      BY <3>1, SumEmpty, BytesNow
  <2>5. 0 = 0 % SizeMod
    BY EngineAssumption, SMT
  <2> QED
    BY <2>1, <2>2, <2>3, <2>4, <2>5 DEF UsageExact
<1>2. Counted /\ Inv' /\ [Next]_vars => Counted'
  <2> SUFFICES ASSUME Counted, Inv', [Next]_vars
               PROVE  Counted'
    OBVIOUS
  <2>1. UsageInv' /\ Inline' /\ ~limited' /\ Balanced
    BY NextUsage, NextInline
  <2>2. UsageExact'
    BY <2>1, BalancedStep
  <2> QED
    BY <2>1, <2>2
<1>3. Counted => UsageExact
  OBVIOUS
<1> HIDE DEF Counted
<1> QED
  BY <1>1, <1>2, <1>3, InvHolds, PTL DEF Spec
=============================================================================

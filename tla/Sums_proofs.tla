------------------------------ MODULE Sums_proofs ------------------------------
(***************************************************************************)
(* Sums of finitely many integers: SumFunctionOnSet of the community       *)
(* module Functions.  Induction is stated with a set in place of a         *)
(* predicate, which every prover can instantiate.                          *)
(***************************************************************************)
EXTENDS Integers, FiniteSets, Functions, FiniteSetTheorems, WellFoundedInduction, TLAPS

(* A set that contains 0 and, with every number, the next one. *)
LEMMA InductionOnNat ==
  ASSUME NEW G, 0 \in G, \A n \in Nat : n \in G => n + 1 \in G
  PROVE  Nat \subseteq G
<1> DEFINE less == OpToRel(<, Nat)
           bad == Nat \ G
<1>1. IsWellFoundedOn(less, Nat)
  BY NatLessThanWellFounded, Zenon
<1>2. \A x, y \in Nat : <<y, x>> \in less <=> y < x
  BY DEF OpToRel
<1> HIDE DEF less
<1>3. SUFFICES ASSUME bad # {} PROVE FALSE
  OBVIOUS
<1>4. PICK x \in bad : \A y \in bad : ~ (<<y, x>> \in less)
  BY <1>1, <1>3, WFMin
<1>5. x \in Nat /\ x # 0 /\ x - 1 \in Nat
  BY <1>4
<1>6. <<x - 1, x>> \in less
  BY <1>2, <1>5
<1>7. x - 1 \notin bad
  BY <1>4, <1>6
<1> QED BY <1>4, <1>5, <1>7

(* A set that contains {} and, with all the sets that lack one of its       *)
(* elements, every set.                                                     *)
LEMMA InductionOnSet ==
  ASSUME NEW S, IsFiniteSet(S), NEW G, {} \in G,
         \A s \in SUBSET S : s # {} /\ (\A x \in s : s \ {x} \in G) => s \in G
  PROVE  S \in G
<1> DEFINE sized(n) == {s \in SUBSET S : Cardinality(s) = n}
           good == {n \in Nat : sized(n) \subseteq G}
<1>1. \A s \in SUBSET S : IsFiniteSet(s) /\ Cardinality(s) \in Nat
  BY FS_Subset, FS_CardinalityType
<1>2. 0 \in good
  BY <1>1, FS_EmptySet
<1>3. ASSUME NEW n \in Nat, n \in good, NEW s \in sized(n + 1) PROVE s \in G
  <2>1. s # {} /\ IsFiniteSet(s)
    BY <1>1, FS_EmptySet
  <2>2. ASSUME NEW x \in s PROVE s \ {x} \in G
    <3>1. Cardinality(s \ {x}) = Cardinality(s) - 1
      BY <2>1, FS_RemoveElement
    <3>2. s \ {x} \in sized(n)
      BY <3>1
    <3> QED BY <1>3, <3>2
  <2> QED BY <2>1, <2>2
<1>4. \A n \in Nat : n \in good => n + 1 \in good
  BY <1>3
<1> HIDE DEF good
<1>5. Nat \subseteq good
  BY <1>2, <1>4, InductionOnNat
<1> QED BY <1>1, <1>5 DEF good

-----------------------------------------------------------------------------
(* The function that SumFunctionOnSet is defined by. *)
AnyOf(s) == CHOOSE x \in s : TRUE
IsSum(iter, f, D) ==
  iter = [s \in D |-> IF s = {} THEN 0 ELSE f[AnyOf(s)] + iter[s \ {AnyOf(s)}]]

(* The definition with its local function named. *)
LEMMA SumIs ==
  ASSUME NEW f, NEW S
  PROVE  SumFunctionOnSet(f, S) = (CHOOSE iter : IsSum(iter, f, SUBSET S))[S]
BY DEF SumFunctionOnSet, FoldFunctionOnSet, MapThenFoldSet, IsSum, AnyOf

(* There is such a function when the set is finite, *)
LEMMA SumExists ==
  ASSUME NEW f, NEW S, IsFiniteSet(S)
  PROVE  \E iter : IsSum(iter, f, SUBSET S)
<1> DEFINE upTo(n) == {s \in SUBSET S : Cardinality(s) <= n}
           good == {n \in Nat : \E iter : IsSum(iter, f, upTo(n))}
<1>1. \A s \in SUBSET S : IsFiniteSet(s) /\ Cardinality(s) \in Nat /\ Cardinality(s) <= Cardinality(S)
  BY FS_Subset, FS_CardinalityType
<1>2. \A s \in SUBSET S : Cardinality(s) = 0 <=> s = {}
  BY <1>1, FS_EmptySet
<1>3. 0 \in good
  <2>1. \A s \in upTo(0) : s = {}
    BY <1>1, <1>2
  <2>2. IsSum([s \in upTo(0) |-> 0], f, upTo(0))
    BY <2>1 DEF IsSum
  <2> QED BY <2>2
<1>4. ASSUME NEW n \in Nat, n \in good PROVE n + 1 \in good
  <2>1. PICK old : IsSum(old, f, upTo(n))
    BY <1>4
  <2> DEFINE new == [s \in upTo(n + 1) |-> IF s = {} THEN 0 ELSE f[AnyOf(s)] + old[s \ {AnyOf(s)}]]
  <2>2. \A s \in upTo(n + 1) : s # {} => s \ {AnyOf(s)} \in upTo(n)
    <3> SUFFICES ASSUME NEW s \in upTo(n + 1), s # {} PROVE s \ {AnyOf(s)} \in upTo(n)
      OBVIOUS
    <3>1. AnyOf(s) \in s
      BY DEF AnyOf
    <3>2. Cardinality(s \ {AnyOf(s)}) = Cardinality(s) - 1
      BY <1>1, <3>1, FS_RemoveElement
    <3> QED BY <1>1, <3>2
  <2>3. ASSUME NEW s \in upTo(n) PROVE s \in upTo(n + 1) /\ old[s] = new[s]
    <3>1. s \in upTo(n + 1)
      BY <1>1
    <3>2. old[s] = IF s = {} THEN 0 ELSE f[AnyOf(s)] + old[s \ {AnyOf(s)}]
      BY <2>1 DEF IsSum
    <3> HIDE DEF upTo
    <3> QED BY <3>1, <3>2
  <2>4. IsSum(new, f, upTo(n + 1))
    <3>1. \A s \in upTo(n + 1) : s # {} => old[s \ {AnyOf(s)}] = new[s \ {AnyOf(s)}]
      BY <2>2, <2>3
    <3> HIDE DEF upTo
    <3>2. new = [s \in upTo(n + 1) |-> IF s = {} THEN 0 ELSE f[AnyOf(s)] + new[s \ {AnyOf(s)}]]
      BY <3>1
    <3> QED BY <3>2 DEF IsSum
  <2> HIDE DEF new, upTo
  <2> QED BY <2>4
<1> HIDE DEF good
<1>5. Cardinality(S) \in good
  BY <1>3, <1>4, InductionOnNat, FS_CardinalityType
<1>6. upTo(Cardinality(S)) = SUBSET S
  BY <1>1
<1> QED BY <1>5, <1>6 DEF good

(* and all of them agree. *)
LEMMA SumUnique ==
  ASSUME NEW f, NEW S, IsFiniteSet(S), NEW A, NEW B, SUBSET S \subseteq A, SUBSET S \subseteq B,
         NEW i, IsSum(i, f, A), NEW j, IsSum(j, f, B)
  PROVE  i[S] = j[S]
<1> DEFINE same == {s \in SUBSET S : i[s] = j[s]}
           sized == {n \in Nat : \A s \in SUBSET S : Cardinality(s) = n => s \in same}
<1>1. {} \in same
  BY DEF IsSum
<1>2. \A s \in SUBSET S : IsFiniteSet(s) /\ Cardinality(s) \in Nat
  BY FS_Subset, FS_CardinalityType
<1>3. 0 \in sized
  BY <1>1, <1>2, FS_EmptySet
<1>4. ASSUME NEW n \in Nat, n \in sized, NEW s \in SUBSET S, Cardinality(s) = n + 1 PROVE s \in same
  <2>1. s # {}
    BY <1>2, <1>4, FS_EmptySet
  <2>2. AnyOf(s) \in s
    BY <2>1 DEF AnyOf
  <2>3. Cardinality(s \ {AnyOf(s)}) = Cardinality(s) - 1
    BY <1>2, <2>2, FS_RemoveElement
  <2>4. s \ {AnyOf(s)} \in SUBSET S /\ Cardinality(s \ {AnyOf(s)}) = n
    BY <1>4, <2>3
  <2>5. s \ {AnyOf(s)} \in same
    BY <1>4, <2>4
  <2>6. i[s] = f[AnyOf(s)] + i[s \ {AnyOf(s)}] /\ j[s] = f[AnyOf(s)] + j[s \ {AnyOf(s)}]
    BY <2>1 DEF IsSum
  <2> QED BY <2>5, <2>6
<1>5. \A n \in Nat : n \in sized => n + 1 \in sized
  BY <1>4
<1> HIDE DEF sized
<1>6. Nat \subseteq sized
  BY <1>3, <1>5, InductionOnNat
<1> QED BY <1>2, <1>6 DEF sized

(* The defining equation, in its two cases. *)
LEMMA SumEmpty == ASSUME NEW f PROVE SumFunctionOnSet(f, {}) = 0
<1>1. PICK iter : IsSum(iter, f, SUBSET {})
  BY SumExists, FS_EmptySet
<1> DEFINE i == CHOOSE it : IsSum(it, f, SUBSET {})
<1>2. IsSum(i, f, SUBSET {})
  BY <1>1
<1> HIDE DEF i
<1>3. i[{}] = 0
  BY <1>2 DEF IsSum
<1> QED BY <1>3, SumIs DEF i

(* The second case: one term, and the sum of the others. *)
LEMMA SumFirst ==
  ASSUME NEW f, NEW S, IsFiniteSet(S), S # {}
  PROVE  SumFunctionOnSet(f, S) = f[AnyOf(S)] + SumFunctionOnSet(f, S \ {AnyOf(S)})
<1> DEFINE i == CHOOSE it : IsSum(it, f, SUBSET S)
           T == S \ {AnyOf(S)}
           j == CHOOSE it : IsSum(it, f, SUBSET T)
<1>1. IsSum(i, f, SUBSET S)
  BY SumExists
<1>2. IsFiniteSet(T)
  BY FS_Subset
<1>3. IsSum(j, f, SUBSET T)
  BY <1>2, SumExists
<1>4. SumFunctionOnSet(f, S) = i[S] /\ SumFunctionOnSet(f, T) = j[T]
  BY SumIs
<1> HIDE DEF i, j
<1>5. i[T] = j[T]
  BY <1>1, <1>2, <1>3, SumUnique
<1>6. i[S] = f[AnyOf(S)] + i[T]
  BY <1>1 DEF IsSum
<1> QED BY <1>4, <1>5, <1>6

-----------------------------------------------------------------------------
(* A sum of integers is an integer. *)
LEMMA SumInt ==
  ASSUME NEW f, NEW S, IsFiniteSet(S), \A x \in S : f[x] \in Int
  PROVE  SumFunctionOnSet(f, S) \in Int
<1> DEFINE good == {s \in SUBSET S : SumFunctionOnSet(f, s) \in Int}
<1>1. {} \in good
  BY SumEmpty
<1>2. ASSUME NEW s \in SUBSET S, s # {}, \A x \in s : s \ {x} \in good PROVE s \in good
  <2>1. IsFiniteSet(s) /\ AnyOf(s) \in s
    BY <1>2, FS_Subset DEF AnyOf
  <2>2. SumFunctionOnSet(f, s) = f[AnyOf(s)] + SumFunctionOnSet(f, s \ {AnyOf(s)})
    BY <1>2, <2>1, SumFirst
  <2>3. SumFunctionOnSet(f, s \ {AnyOf(s)}) \in Int
    BY <1>2, <2>1
  <2> QED BY <2>1, <2>2, <2>3
<1> HIDE DEF good
<1>3. S \in good
  BY <1>1, <1>2, InductionOnSet
<1> QED BY <1>3 DEF good

(* Any term can be taken out. *)
LEMMA SumRemove ==
  ASSUME NEW f, NEW S, IsFiniteSet(S), \A x \in S : f[x] \in Int, NEW x \in S
  PROVE  SumFunctionOnSet(f, S) = f[x] + SumFunctionOnSet(f, S \ {x})
<1> DEFINE good == {s \in SUBSET S :
                      \A y \in s : SumFunctionOnSet(f, s) = f[y] + SumFunctionOnSet(f, s \ {y})}
<1>1. {} \in good
  OBVIOUS
<1>2. ASSUME NEW s \in SUBSET S, s # {}, \A y \in s : s \ {y} \in good PROVE s \in good
  <2> DEFINE c == AnyOf(s)
  <2>1. IsFiniteSet(s) /\ c \in s
    BY <1>2, FS_Subset DEF AnyOf
  <2>2. SumFunctionOnSet(f, s) = f[c] + SumFunctionOnSet(f, s \ {c})
    BY <1>2, <2>1, SumFirst
  <2> HIDE DEF c
  <2>3. ASSUME NEW y \in s, y # c
        PROVE  SumFunctionOnSet(f, s) = f[y] + SumFunctionOnSet(f, s \ {y})
    <3> DEFINE rest == (s \ {c}) \ {y}
    <3>1. rest = (s \ {y}) \ {c}
      OBVIOUS
    <3>2. SumFunctionOnSet(f, s \ {c}) = f[y] + SumFunctionOnSet(f, rest)
      BY <1>2, <2>1, <2>3
    <3>3. c \in s \ {y} /\ s \ {y} \in good
      BY <1>2, <2>1, <2>3
    <3>4. SumFunctionOnSet(f, s \ {y}) = f[c] + SumFunctionOnSet(f, rest)
      BY <3>1, <3>3
    <3>5. SumFunctionOnSet(f, rest) \in Int
      <4>1. IsFiniteSet(rest) /\ \A z \in rest : f[z] \in Int
        BY <2>1, FS_Subset
      <4> QED BY <4>1, SumInt
    <3>6. f[c] \in Int /\ f[y] \in Int
      BY <2>1
    <3> HIDE DEF rest
    <3> QED BY <2>2, <3>2, <3>4, <3>5, <3>6
  <2> QED BY <2>2, <2>3
<1> HIDE DEF good
<1>3. S \in good
  BY <1>1, <1>2, InductionOnSet
<1> QED BY <1>3 DEF good

(* Terms that agree have the same sum. *)
LEMMA SumSame ==
  ASSUME NEW f, NEW g, NEW S, IsFiniteSet(S), \A x \in S : f[x] = g[x]
  PROVE  SumFunctionOnSet(f, S) = SumFunctionOnSet(g, S)
<1> DEFINE good == {s \in SUBSET S : SumFunctionOnSet(f, s) = SumFunctionOnSet(g, s)}
<1>1. {} \in good
  BY SumEmpty
<1>2. ASSUME NEW s \in SUBSET S, s # {}, \A x \in s : s \ {x} \in good PROVE s \in good
  <2>1. IsFiniteSet(s) /\ AnyOf(s) \in s
    BY <1>2, FS_Subset DEF AnyOf
  <2>2. /\ SumFunctionOnSet(f, s) = f[AnyOf(s)] + SumFunctionOnSet(f, s \ {AnyOf(s)})
        /\ SumFunctionOnSet(g, s) = g[AnyOf(s)] + SumFunctionOnSet(g, s \ {AnyOf(s)})
    BY <1>2, <2>1, SumFirst
  <2>3. SumFunctionOnSet(f, s \ {AnyOf(s)}) = SumFunctionOnSet(g, s \ {AnyOf(s)})
    BY <1>2, <2>1
  <2> QED BY <2>1, <2>2, <2>3
<1> HIDE DEF good
<1>3. S \in good
  BY <1>1, <1>2, InductionOnSet
<1> QED BY <1>3 DEF good

(* The sum of the sums of two families of terms. *)
LEMMA SumPlus ==
  ASSUME NEW f, NEW g, NEW h, NEW S, IsFiniteSet(S),
         \A x \in S : f[x] \in Int /\ g[x] \in Int /\ h[x] = f[x] + g[x]
  PROVE  SumFunctionOnSet(h, S) = SumFunctionOnSet(f, S) + SumFunctionOnSet(g, S)
<1> DEFINE good == {s \in SUBSET S : SumFunctionOnSet(h, s) = SumFunctionOnSet(f, s) + SumFunctionOnSet(g, s)}
<1>1. {} \in good
  BY SumEmpty
<1>2. ASSUME NEW s \in SUBSET S, s # {}, \A x \in s : s \ {x} \in good PROVE s \in good
  <2> DEFINE c == AnyOf(s)
             rest == s \ {c}
  <2>1. IsFiniteSet(s) /\ c \in s
    BY <1>2, FS_Subset DEF AnyOf
  <2>2. /\ SumFunctionOnSet(f, s) = f[c] + SumFunctionOnSet(f, rest)
        /\ SumFunctionOnSet(g, s) = g[c] + SumFunctionOnSet(g, rest)
        /\ SumFunctionOnSet(h, s) = h[c] + SumFunctionOnSet(h, rest)
    BY <1>2, <2>1, SumFirst
  <2>3. SumFunctionOnSet(h, rest) = SumFunctionOnSet(f, rest) + SumFunctionOnSet(g, rest)
    BY <1>2, <2>1
  <2>4. IsFiniteSet(rest)
    BY <2>1, FS_Subset
  <2> HIDE DEF c
  <2>5. SumFunctionOnSet(f, rest) \in Int /\ SumFunctionOnSet(g, rest) \in Int
    BY <2>4, SumInt
  <2>6. f[c] \in Int /\ g[c] \in Int /\ h[c] = f[c] + g[c]
    BY <2>1
  <2> HIDE DEF rest
  <2>7. SumFunctionOnSet(h, s) = SumFunctionOnSet(f, s) + SumFunctionOnSet(g, s)
    BY <2>2, <2>3, <2>5, <2>6
  <2> QED BY <2>7
<1> HIDE DEF good
<1>3. S \in good
  BY <1>1, <1>2, InductionOnSet
<1> QED BY <1>3 DEF good

(* A sum of naturals is one, *)
LEMMA SumNat ==
  ASSUME NEW f, NEW S, IsFiniteSet(S), \A x \in S : f[x] \in Nat
  PROVE  SumFunctionOnSet(f, S) \in Nat
<1> DEFINE good == {s \in SUBSET S : SumFunctionOnSet(f, s) \in Nat}
<1>1. {} \in good
  BY SumEmpty
<1>2. ASSUME NEW s \in SUBSET S, s # {}, \A x \in s : s \ {x} \in good PROVE s \in good
  <2>1. IsFiniteSet(s) /\ AnyOf(s) \in s
    BY <1>2, FS_Subset DEF AnyOf
  <2>2. SumFunctionOnSet(f, s) = f[AnyOf(s)] + SumFunctionOnSet(f, s \ {AnyOf(s)})
    BY <1>2, <2>1, SumFirst
  <2>3. SumFunctionOnSet(f, s \ {AnyOf(s)}) \in Nat
    BY <1>2, <2>1
  <2> QED BY <2>1, <2>2, <2>3
<1> HIDE DEF good
<1>3. S \in good
  BY <1>1, <1>2, InductionOnSet
<1> QED BY <1>3 DEF good

(* and is no less than any of its terms. *)
LEMMA SumTerm ==
  ASSUME NEW f, NEW S, IsFiniteSet(S), \A x \in S : f[x] \in Nat, NEW x \in S
  PROVE  f[x] <= SumFunctionOnSet(f, S)
<1>1. SumFunctionOnSet(f, S) = f[x] + SumFunctionOnSet(f, S \ {x})
  BY SumRemove
<1>2. IsFiniteSet(S \ {x})
  BY FS_Subset
<1>3. SumFunctionOnSet(f, S \ {x}) \in Nat
  BY <1>2, SumNat
<1> QED BY <1>1, <1>3

(* Terms that are 0 do not count. *)
LEMMA SumPart ==
  ASSUME NEW f, NEW S, IsFiniteSet(S), NEW T \in SUBSET S,
         \A x \in S : f[x] \in Int, \A x \in S \ T : f[x] = 0
  PROVE  SumFunctionOnSet(f, S) = SumFunctionOnSet(f, T)
<1> DEFINE good == {s \in SUBSET S : SumFunctionOnSet(f, s) = SumFunctionOnSet(f, s \cap T)}
<1>1. {} \in good
  <2>1. {} \cap T = {}
    OBVIOUS
  <2> QED BY <2>1
<1>2. ASSUME NEW s \in SUBSET S, s # {}, \A x \in s : s \ {x} \in good PROVE s \in good
  <2>1. PICK c \in s : TRUE
    BY <1>2
  <2>2. IsFiniteSet(s) /\ IsFiniteSet(s \cap T)
    BY FS_Subset
  <2>3. SumFunctionOnSet(f, s) = f[c] + SumFunctionOnSet(f, s \ {c})
    BY <2>2, SumRemove
  <2>4. SumFunctionOnSet(f, s \ {c}) = SumFunctionOnSet(f, (s \ {c}) \cap T)
    BY <1>2
  <2>5. SumFunctionOnSet(f, (s \ {c}) \cap T) \in Int
    <3>1. IsFiniteSet((s \ {c}) \cap T)
      BY FS_Subset
    <3> QED BY <3>1, SumInt
  <2>6. CASE c \in T
    <3>1. (s \cap T) \ {c} = (s \ {c}) \cap T
      OBVIOUS
    <3>2. SumFunctionOnSet(f, s \cap T) = f[c] + SumFunctionOnSet(f, (s \cap T) \ {c})
      BY <2>2, <2>6, SumRemove
    <3> QED BY <2>3, <2>4, <3>1, <3>2
  <2>7. CASE c \notin T
    <3>1. s \cap T = (s \ {c}) \cap T /\ f[c] = 0
      BY <2>7
    <3>2. SumFunctionOnSet(f, s) = SumFunctionOnSet(f, (s \ {c}) \cap T)
      BY <2>3, <2>4, <2>5, <3>1
    <3> QED BY <3>1, <3>2
  <2> QED BY <2>6, <2>7
<1> HIDE DEF good
<1>3. S \in good
  BY <1>1, <1>2, InductionOnSet
<1>4. S \cap T = T
  OBVIOUS
<1> QED BY <1>3, <1>4 DEF good

(* Changing one term changes the sum by as much. *)
LEMMA SumChanged ==
  ASSUME NEW f, NEW g, NEW S, IsFiniteSet(S), NEW x \in S,
         \A y \in S : f[y] \in Int /\ g[y] \in Int, \A y \in S \ {x} : g[y] = f[y]
  PROVE  SumFunctionOnSet(g, S) = SumFunctionOnSet(f, S) + g[x] - f[x]
<1>1. IsFiniteSet(S \ {x})
  BY FS_Subset
<1>2. SumFunctionOnSet(f, S \ {x}) = SumFunctionOnSet(g, S \ {x})
  BY <1>1, SumSame
<1>3. /\ SumFunctionOnSet(f, S) = f[x] + SumFunctionOnSet(f, S \ {x})
      /\ SumFunctionOnSet(g, S) = g[x] + SumFunctionOnSet(g, S \ {x})
  BY SumRemove
<1>4. SumFunctionOnSet(f, S \ {x}) \in Int
  BY <1>1, SumInt
<1> QED BY <1>2, <1>3, <1>4

(* No smaller terms, no smaller sum. *)
LEMMA SumAtMost ==
  ASSUME NEW f, NEW g, NEW S, IsFiniteSet(S),
         \A x \in S : f[x] \in Int /\ g[x] \in Int /\ f[x] <= g[x]
  PROVE  SumFunctionOnSet(f, S) <= SumFunctionOnSet(g, S)
<1> DEFINE d == [x \in S |-> g[x] - f[x]]
<1>1. SumFunctionOnSet(d, S) \in Nat
  BY SumNat
<1>2. SumFunctionOnSet(g, S) = SumFunctionOnSet(f, S) + SumFunctionOnSet(d, S)
  BY SumPlus
<1>3. SumFunctionOnSet(f, S) \in Int
  BY SumInt
<1> QED BY <1>1, <1>2, <1>3

(* The sum over a set is that over a part and that over the rest. *)
LEMMA SumSplit ==
  ASSUME NEW f, NEW S, IsFiniteSet(S), NEW T \in SUBSET S, \A x \in S : f[x] \in Int
  PROVE  SumFunctionOnSet(f, S) = SumFunctionOnSet(f, T) + SumFunctionOnSet(f, S \ T)
<1> DEFINE good == {s \in SUBSET S :
             SumFunctionOnSet(f, s) = SumFunctionOnSet(f, s \cap T) + SumFunctionOnSet(f, s \ T)}
<1>1. {} \in good
  <2>1. {} \cap T = {} /\ {} \ T = {}
    OBVIOUS
  <2>2. SumFunctionOnSet(f, {}) = 0
    BY SumEmpty
  <2> QED BY <2>1, <2>2
<1>2. ASSUME NEW s \in SUBSET S, s # {}, \A x \in s : s \ {x} \in good PROVE s \in good
  <2>1. PICK c \in s : TRUE
    BY <1>2
  <2>2. IsFiniteSet(s) /\ IsFiniteSet(s \cap T) /\ IsFiniteSet(s \ T)
    BY FS_Subset
  <2> DEFINE r == s \ {c}
             rest == SumFunctionOnSet(f, r)
             in == SumFunctionOnSet(f, r \cap T)
             out == SumFunctionOnSet(f, r \ T)
  <2>3. SumFunctionOnSet(f, s) = f[c] + rest
    BY <2>2, SumRemove
  <2>4. rest = in + out
    BY <1>2
  <2>5. in \in Int /\ out \in Int /\ f[c] \in Int
    <3>1. IsFiniteSet(r \cap T) /\ IsFiniteSet(r \ T)
      BY FS_Subset
    <3> QED BY <3>1, SumInt
  <2>6. CASE c \in T
    <3>1. (s \cap T) \ {c} = r \cap T /\ s \ T = r \ T /\ c \in s \cap T
      BY <2>6
    <3>2. SumFunctionOnSet(f, s \cap T) = f[c] + in
      BY <2>2, <3>1, SumRemove
    <3> HIDE DEF in, out, rest
    <3>3. SumFunctionOnSet(f, s) = SumFunctionOnSet(f, s \cap T) + out
      BY <2>3, <2>4, <2>5, <3>2
    <3> QED BY <3>1, <3>3 DEF out
  <2>7. CASE c \notin T
    <3>1. (s \ T) \ {c} = r \ T /\ s \cap T = r \cap T /\ c \in s \ T
      BY <2>7
    <3>2. SumFunctionOnSet(f, s \ T) = f[c] + out
      BY <2>2, <3>1, SumRemove
    <3> HIDE DEF in, out, rest
    <3>3. SumFunctionOnSet(f, s) = in + SumFunctionOnSet(f, s \ T)
      BY <2>3, <2>4, <2>5, <3>2
    <3> QED BY <3>1, <3>3 DEF in
  <2> QED BY <2>6, <2>7
<1> HIDE DEF good
<1>3. S \in good
  BY <1>1, <1>2, InductionOnSet
<1>4. S \cap T = T
  OBVIOUS
<1> QED BY <1>3, <1>4 DEF good

(* The same terms under other names add up to the same. *)
LEMMA SumRenamed ==
  ASSUME NEW S, IsFiniteSet(S), NEW f, \A x \in S : f[x] \in Int,
         NEW name, \A x, y \in S : name[x] = name[y] => x = y,
         NEW g, \A x \in S : g[name[x]] = f[x]
  PROVE  /\ IsFiniteSet({name[x] : x \in S})
         /\ SumFunctionOnSet(g, {name[x] : x \in S}) = SumFunctionOnSet(f, S)
<1> DEFINE Named(s) == {name[x] : x \in s}
           good == {s \in SUBSET S : /\ IsFiniteSet(Named(s))
                                     /\ SumFunctionOnSet(g, Named(s)) = SumFunctionOnSet(f, s)}
<1>1. {} \in good
  <2>1. Named({}) = {}
    OBVIOUS
  <2> QED BY <2>1, SumEmpty, FS_EmptySet
<1>2. ASSUME NEW s \in SUBSET S, s # {}, \A x \in s : s \ {x} \in good PROVE s \in good
  <2>1. PICK c \in s : TRUE
    BY <1>2
  <2>2. IsFiniteSet(s)
    BY FS_Subset
  <2>3. /\ IsFiniteSet(Named(s \ {c}))
        /\ SumFunctionOnSet(g, Named(s \ {c})) = SumFunctionOnSet(f, s \ {c})
    BY <1>2
  <2>4. Named(s) = Named(s \ {c}) \cup {name[c]} /\ Named(s) \ {name[c]} = Named(s \ {c})
    OBVIOUS
  <2>5. \A y \in Named(s) : g[y] \in Int
    OBVIOUS
  <2>6. g[name[c]] = f[c] /\ name[c] \in Named(s)
    OBVIOUS
  <2> DEFINE T == Named(s)
             R == Named(s \ {c})
             n == name[c]
  <2> HIDE DEF Named, T, R, n
  <2>7. IsFiniteSet(T)
    <3>1. IsFiniteSet(R \cup {n})
      BY <2>3, FS_AddElement DEF R
    <3> QED BY <2>4, <3>1 DEF T, R, n
  <2>8. SumFunctionOnSet(g, T) = g[n] + SumFunctionOnSet(g, T \ {n})
    BY <2>5, <2>6, <2>7, SumRemove DEF T, n
  <2>9. SumFunctionOnSet(f, s) = f[c] + SumFunctionOnSet(f, s \ {c})
    BY <2>2, SumRemove
  <2> QED BY <2>3, <2>4, <2>6, <2>7, <2>8, <2>9 DEF T, n
<1>3. S \in good
  <2> HIDE DEF good
  <2> QED BY <1>1, <1>2, InductionOnSet
<1> QED BY <1>3

(* A set is an interval of integers, *)
IsInterval(I, a, length) == I = a .. a + length - 1

(* every term of it is the same, *)
Flat(f, S, d) == \A x \in S : f[x] = d

(* or is raised by the same amount on a part of it. *)
Raised(f, g, S, I, d) ==
  /\ \A x \in I : g[x] = f[x] + d
  /\ \A x \in S \ I : g[x] = f[x]

(* An amount added up once for every number of an interval. *)
LEMMA SumConstant ==
  ASSUME NEW f, NEW d \in Int, NEW a \in Int, NEW length \in Nat,
         NEW I, IsInterval(I, a, length), Flat(f, I, d)
  PROVE  SumFunctionOnSet(f, I) = d * length
<1> DEFINE upTo(n) == a .. a + n - 1
           good == {n \in Nat : n <= length => SumFunctionOnSet(f, upTo(n)) = d * n}
<1>1. 0 \in good
  <2>1. upTo(0) = {}
    OBVIOUS
  <2>2. d * 0 = 0
    OBVIOUS
  <2> QED BY <2>1, <2>2, SumEmpty
<1>2. ASSUME NEW n \in Nat, n \in good, n + 1 <= length
      PROVE  SumFunctionOnSet(f, upTo(n + 1)) = d * (n + 1)
  <2> DEFINE J == upTo(n + 1)
             last == a + n
             before == SumFunctionOnSet(f, upTo(n))
  <2>1. J \ {last} = upTo(n) /\ last \in J
    OBVIOUS
  <2>2. IsFiniteSet(J)
    <3>1. a + (n + 1) - 1 \in Int
      OBVIOUS
    <3> QED BY <3>1, FS_Interval
  <2>3. \A x \in J : f[x] = d
    BY <1>2 DEF Flat, IsInterval
  <2>4. before = d * n
    BY <1>2
  <2> HIDE DEF J, last, before
  <2>5. SumFunctionOnSet(f, J) = f[last] + SumFunctionOnSet(f, J \ {last})
    <3>1. \A x \in J : f[x] \in Int
      BY <2>3
    <3> QED BY <2>1, <2>2, <3>1, SumRemove
  <2>6. SumFunctionOnSet(f, J \ {last}) = d * n
    BY <2>1, <2>4, Zenon DEF before
  <2>7. d * (n + 1) = d * n + d /\ d * n \in Int
    OBVIOUS
  <2>8. SumFunctionOnSet(f, J) = d * (n + 1)
    BY <2>1, <2>3, <2>5, <2>6, <2>7
  <2> QED BY <2>8 DEF J
<1>3. \A n \in Nat : n \in good => n + 1 \in good
  BY <1>2
<1> HIDE DEF good
<1>4. Nat \subseteq good
  BY <1>1, <1>3, InductionOnNat
<1>5. length \in good
  BY <1>4
<1>6. SumFunctionOnSet(f, upTo(length)) = d * length
  BY <1>5 DEF good
<1> QED BY <1>6 DEF IsInterval

(* An amount on an interval and nothing elsewhere. *)
LEMMA SumInterval ==
  ASSUME NEW h, NEW S, IsFiniteSet(S), NEW a \in Int, NEW length \in Nat, NEW d \in Int,
         NEW I \in SUBSET S, IsInterval(I, a, length), Flat(h, I, d), Flat(h, S \ I, 0)
  PROVE  SumFunctionOnSet(h, S) = d * length
<1>1. SumFunctionOnSet(h, I) = d * length
  BY SumConstant
<1>2. \A x \in S : h[x] \in Int
  BY DEF Flat
<1>3. \A x \in S \ I : h[x] = 0
  BY DEF Flat
<1>4. SumFunctionOnSet(h, S) = SumFunctionOnSet(h, I)
  BY <1>2, <1>3, SumPart
<1> QED BY <1>1, <1>4

(* Raising every term of an interval by the same amount raises the sum by  *)
(* that amount as often as the interval is long.                           *)
LEMMA SumRaised ==
  ASSUME NEW f, NEW g, NEW S, IsFiniteSet(S), NEW a \in Int, NEW length \in Nat, NEW d \in Int,
         NEW I \in SUBSET S, IsInterval(I, a, length), \A x \in S : f[x] \in Int,
         Raised(f, g, S, I, d)
  PROVE  SumFunctionOnSet(g, S) = SumFunctionOnSet(f, S) + d * length
<1> DEFINE h == [x \in S |-> IF x \in I THEN d ELSE 0]
<1>1. \A x \in S : f[x] \in Int /\ h[x] \in Int /\ g[x] = f[x] + h[x]
  BY DEF Raised
<1>2. Flat(h, I, d) /\ Flat(h, S \ I, 0)
  BY DEF Flat
<1> HIDE DEF h
<1>3. SumFunctionOnSet(h, S) = d * length
  BY <1>2, SumInterval
<1>4. SumFunctionOnSet(g, S) = SumFunctionOnSet(f, S) + SumFunctionOnSet(h, S)
  BY <1>1, SumPlus
<1> QED BY <1>3, <1>4

(* A finite set that a relation orders has a greatest element. *)
LEMMA Greatest ==
  ASSUME NEW S, IsFiniteSet(S), S # {}, NEW R,
         \A x, y \in S : x # y => <<x, y>> \in R \/ <<y, x>> \in R,
         \A x, y, z \in S : <<x, y>> \in R /\ <<y, z>> \in R => <<x, z>> \in R
  PROVE  \E m \in S : \A x \in S : x # m => <<x, m>> \in R
<1> DEFINE good == {s \in SUBSET S : s # {} => \E m \in s : \A x \in s : x # m => <<x, m>> \in R}
<1>1. {} \in good
  OBVIOUS
<1>2. ASSUME NEW s \in SUBSET S, s # {}, \A x \in s : s \ {x} \in good PROVE s \in good
  <2>1. PICK c \in s : TRUE
    BY <1>2
  <2>2. CASE s \ {c} = {}
    BY <2>2
  <2>3. CASE s \ {c} # {}
    <3>1. PICK m \in s \ {c} : \A x \in s \ {c} : x # m => <<x, m>> \in R
      BY <1>2, <2>3
    <3>2. CASE <<c, m>> \in R
      BY <3>1, <3>2
    <3>3. CASE <<m, c>> \in R
      <4>1. \A x \in s : x # c => <<x, c>> \in R
        BY <3>1, <3>3
      <4> QED BY <4>1
    <3> QED BY <3>2, <3>3
  <2> QED BY <2>2, <2>3
<1> HIDE DEF good
<1>3. S \in good
  BY <1>1, <1>2, InductionOnSet
<1> QED BY <1>3 DEF good
================================================================================

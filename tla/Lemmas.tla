------------------------------- MODULE Lemmas -------------------------------
(***************************************************************************)
(* Lemmas that several proofs rest on: about sums over finite sets, about  *)
(* net positions for any set of participants, and about sequences and the  *)
(* order of numbers that are queued in them.                               *)
(***************************************************************************)
EXTENDS Ledger, Sequences, FiniteSetTheorems, WellFoundedInduction, TLAPS

----------------------------------------------------------------------------
(* Sums. *)

\* A set of natural numbers that is not empty has a least element.
LEMMA LeastNumber ==
    ASSUME NEW S \in SUBSET Nat, S # {}
    PROVE  \E x \in S : \A y \in S : x <= y
<1>1. PICK x \in S : \A y \in S : <<y, x>> \notin OpToRel(<, Nat)
  BY WFMin, NatLessThanWellFounded, Zenon
<1>2. \A y \in S : ~(y < x)
  BY <1>1, Zenon DEF OpToRel
<1>3. QED
  BY <1>2

\* Among subsets of a finite set there is a smallest: induction over its subsets.
LEMMA SmallestSubset ==
    ASSUME NEW S, IsFiniteSet(S), NEW B, B \in SUBSET (SUBSET S), B # {}
    PROVE  \E U \in B : /\ U \subseteq S /\ IsFiniteSet(U)
                        /\ \A x \in U : U \ {x} \notin B
<1> DEFINE Sizes == {Cardinality(U) : U \in B}
<1>1. \A U \in B : IsFiniteSet(U) /\ Cardinality(U) \in Nat
  BY FS_Subset, FS_CardinalityType
<1>2. Sizes \in SUBSET Nat /\ Sizes # {}
  BY <1>1
<1> HIDE DEF Sizes
<1>3. PICK n \in Sizes : \A m \in Sizes : n <= m
  BY <1>2, LeastNumber
<1>4. PICK U \in B : n = Cardinality(U)
  BY DEF Sizes
<1>5. ASSUME NEW x \in U, U \ {x} \in B PROVE FALSE
  <2>1. Cardinality(U \ {x}) = Cardinality(U) - 1
    BY <1>1, FS_RemoveElement
  <2>2. Cardinality(U) <= Cardinality(U \ {x})
    BY <1>3, <1>4, <1>5 DEF Sizes
  <2> QED BY <1>1, <2>1, <2>2
<1> QED BY <1>1, <1>5

\* The element a sum takes first.
AnyOf(T) == CHOOSE x \in T : TRUE

\* One step of a sum.
Step(f, h, T) == IF T = {} THEN 0 ELSE f[AnyOf(T)] + h[T \ {AnyOf(T)}]

\* The sums of all subsets, as the library's fold makes them.
Sums(f, S) == CHOOSE h : h = [T \in SUBSET S |-> Step(f, h, T)]

\* The library's sum is the last of them.
LEMMA LibrarySum ==
    ASSUME NEW f, NEW S
    PROVE  SumFunctionOnSet(f, S) = Sums(f, S)[S]
BY Zenon DEF SumFunctionOnSet, FoldFunctionOnSet, MapThenFoldSet, Sums, Step, AnyOf

\* h gives every subset of S its sum.
IsSum(f, h, S) == h = [T \in SUBSET S |-> Step(f, h, T)]

\* Sums over a finite set exist: subset by subset in the order of their size.
LEMMA SumsExist ==
    ASSUME NEW f, NEW S, IsFiniteSet(S)
    PROVE  IsSum(f, Sums(f, S), S)
<1> DEFINE Small(n) == {T \in SUBSET S : Cardinality(T) <= n}
           Good(n) == \E h : h = [T \in Small(n) |-> Step(f, h, T)]
           Bad == {n \in Nat : ~Good(n)}
<1>1. \A T \in SUBSET S : IsFiniteSet(T) /\ Cardinality(T) \in Nat
                          /\ Cardinality(T) <= Cardinality(S)
  BY FS_Subset, FS_CardinalityType
<1>2. \A T \in SUBSET S : T # {} => /\ AnyOf(T) \in T /\ T \ {AnyOf(T)} \in SUBSET S
                                    /\ Cardinality(T \ {AnyOf(T)}) = Cardinality(T) - 1
  BY <1>1, FS_RemoveElement DEF AnyOf
<1>3. Good(0)
  <2>1. \A T \in Small(0) : T = {}
    BY <1>1, FS_EmptySet
  <2> DEFINE h == [T \in Small(0) |-> 0]
  <2>2. \A T \in Small(0) : Step(f, h, T) = 0
    BY <2>1 DEF Step
  <2>3. h = [T \in Small(0) |-> Step(f, h, T)]
    BY <2>2
  <2> HIDE DEF h
  <2> QED BY <2>3
<1>4. ASSUME NEW n \in Nat, Good(n) PROVE Good(n + 1)
  <2>1. PICK h : h = [T \in Small(n) |-> Step(f, h, T)]
    BY <1>4
  <2> DEFINE k == [T \in Small(n + 1) |-> Step(f, h, T)]
  <2>2. \A T \in Small(n) : T \in Small(n + 1) /\ k[T] = h[T]
    BY <1>1, <2>1
  <2>3. \A T \in Small(n + 1) : T # {} => T \ {AnyOf(T)} \in Small(n)
    BY <1>1, <1>2
  <2>4. \A T \in Small(n + 1) : Step(f, h, T) = Step(f, k, T)
    <3> SUFFICES ASSUME NEW T \in Small(n + 1) PROVE Step(f, h, T) = Step(f, k, T)
      OBVIOUS
    <3>1. CASE T = {}
      BY <3>1 DEF Step
    <3>2. CASE T # {}
      <4>1. k[T \ {AnyOf(T)}] = h[T \ {AnyOf(T)}]
        BY <2>2, <2>3, <3>2
      <4> HIDE DEF k
      <4> QED BY <3>2, <4>1 DEF Step
    <3> QED BY <3>1, <3>2
  <2>5. k = [T \in Small(n + 1) |-> Step(f, k, T)]
    BY <2>4
  <2> HIDE DEF k
  <2> QED BY <2>5
<1>5. \A n \in Nat : Good(n)
  <2>1. SUFFICES ASSUME Bad # {} PROVE FALSE
    OBVIOUS
  <2> HIDE DEF Good
  <2>2. PICK n \in Bad : \A m \in Bad : n <= m
    BY <2>1, LeastNumber
  <2>3. n # 0
    BY <1>3
  <2>4. n - 1 \in Nat /\ n - 1 \notin Bad
    BY <2>2, <2>3
  <2>5. Good(n - 1)
    BY <2>4
  <2>6. Good((n - 1) + 1)
    BY <1>4, <2>4, <2>5
  <2>7. (n - 1) + 1 = n
    OBVIOUS
  <2> QED BY <2>6, <2>7
<1>6. Small(Cardinality(S)) = SUBSET S
  BY <1>1
<1>7. Good(Cardinality(S))
  BY <1>5, FS_CardinalityType
<1>8. \E h : h = [T \in SUBSET S |-> Step(f, h, T)]
  BY <1>6, <1>7
<1> QED BY <1>8 DEF Sums, IsSum

\* What a sum over a subset is does not depend on the set it was made for.
LEMMA SumsAgree ==
    ASSUME NEW f, NEW S, IsFiniteSet(S), NEW h, NEW R, IsSum(f, h, S),
           NEW k, IsSum(f, k, R), NEW T, T \in SUBSET S, T \in SUBSET R
    PROVE  h[T] = k[T]
<1> DEFINE Apart == {U \in SUBSET T : h[U] # k[U]}
<1>1. SUFFICES ASSUME Apart # {} PROVE FALSE
  OBVIOUS
<1>2. IsFiniteSet(T)
  BY FS_Subset
<1>3. PICK U \in Apart : U \subseteq T /\ \A x \in U : U \ {x} \notin Apart
  BY <1>1, <1>2, SmallestSubset
<1>4. h[U] = Step(f, h, U) /\ k[U] = Step(f, k, U)
  BY DEF IsSum
<1>5. CASE U = {}
  BY <1>4, <1>5 DEF Step
<1>6. CASE U # {}
  <2>1. AnyOf(U) \in U
    BY <1>6 DEF AnyOf
  <2>2. h[U \ {AnyOf(U)}] = k[U \ {AnyOf(U)}]
    BY <1>3, <2>1
  <2> QED BY <1>4, <1>6, <2>2 DEF Step
<1> QED BY <1>5, <1>6

\* A sum is made of one element and the sum of the others.
LEMMA SumStep ==
    ASSUME NEW f, NEW S, IsFiniteSet(S)
    PROVE  SumFunctionOnSet(f, S) =
             IF S = {} THEN 0
             ELSE f[AnyOf(S)] + SumFunctionOnSet(f, S \ {AnyOf(S)})
<1> DEFINE R == S \ {AnyOf(S)}
<1>1. IsFiniteSet(R)
  BY FS_Subset
<1> HIDE DEF R
<1>2. IsSum(f, Sums(f, S), S) /\ IsSum(f, Sums(f, R), R)
  BY <1>1, SumsExist
<1>3. Sums(f, S)[S] = Step(f, Sums(f, S), S)
  BY <1>2 DEF IsSum
<1>4. Sums(f, S)[R] = Sums(f, R)[R]
  <2>1. R \in SUBSET S /\ R \in SUBSET R
    BY DEF R
  <2> QED BY <1>2, <2>1, SumsAgree
<1>5. SumFunctionOnSet(f, S) = Sums(f, S)[S] /\ SumFunctionOnSet(f, R) = Sums(f, R)[R]
  BY LibrarySum
<1> QED BY <1>3, <1>4, <1>5 DEF Step, R

\* Sums of integers are integers, and of natural numbers natural.
LEMMA SumType ==
    ASSUME NEW D, IsFiniteSet(D), NEW f, NEW S \in SUBSET D
    PROVE  /\ (\A x \in D : f[x] \in Int) => SumFunctionOnSet(f, S) \in Int
           /\ (\A x \in D : f[x] \in Nat) => SumFunctionOnSet(f, S) \in Nat
<1>1. ASSUME NEW N, N \in {Int, Nat}, \A x \in D : f[x] \in N
      PROVE  SumFunctionOnSet(f, S) \in N
  <2>0. 0 \in N /\ \A a, b \in N : a + b \in N
    BY <1>1
  <2> DEFINE Odd == {U \in SUBSET S : SumFunctionOnSet(f, U) \notin N}
  <2>1. SUFFICES ASSUME Odd # {} PROVE FALSE
    OBVIOUS
  <2>2. IsFiniteSet(S)
    BY FS_Subset
  <2>3. PICK U \in Odd : U \subseteq S /\ IsFiniteSet(U) /\ \A x \in U : U \ {x} \notin Odd
    BY <2>1, <2>2, SmallestSubset
  <2>4. CASE U = {}
    BY <2>0, <2>3, <2>4, SumStep
  <2>5. CASE U # {}
    <3>1. AnyOf(U) \in U
      BY <2>5 DEF AnyOf
    <3>2. SumFunctionOnSet(f, U \ {AnyOf(U)}) \in N /\ f[AnyOf(U)] \in N
      BY <1>1, <2>3, <3>1
    <3>3. SumFunctionOnSet(f, U) = f[AnyOf(U)] + SumFunctionOnSet(f, U \ {AnyOf(U)})
      BY <2>3, <2>5, SumStep
    <3> QED BY <2>0, <3>2, <3>3
  <2> QED BY <2>4, <2>5
<1> QED BY <1>1

\* Where one function is the sum of two others, so are the sums.
LEMMA SumAdds ==
    ASSUME NEW S, IsFiniteSet(S), NEW f, NEW g, NEW h,
           \A x \in S : f[x] \in Int /\ g[x] \in Int /\ h[x] = f[x] + g[x]
    PROVE  SumFunctionOnSet(h, S) = SumFunctionOnSet(f, S) + SumFunctionOnSet(g, S)
<1> DEFINE Odd == {U \in SUBSET S :
                     SumFunctionOnSet(h, U) # SumFunctionOnSet(f, U) + SumFunctionOnSet(g, U)}
<1>1. SUFFICES ASSUME Odd # {} PROVE FALSE
  OBVIOUS
<1>2. PICK U \in Odd : U \subseteq S /\ IsFiniteSet(U) /\ \A x \in U : U \ {x} \notin Odd
  BY <1>1, SmallestSubset
<1>3. CASE U = {}
  <2>1. SumFunctionOnSet(h, U) = 0 /\ SumFunctionOnSet(f, U) = 0 /\ SumFunctionOnSet(g, U) = 0
    BY <1>2, <1>3, SumStep
  <2> QED BY <2>1
<1>4. CASE U # {}
  <2> DEFINE x == AnyOf(U)
  <2>1. x \in U
    BY <1>4 DEF AnyOf
  <2>2. /\ SumFunctionOnSet(h, U) = h[x] + SumFunctionOnSet(h, U \ {x})
        /\ SumFunctionOnSet(f, U) = f[x] + SumFunctionOnSet(f, U \ {x})
        /\ SumFunctionOnSet(g, U) = g[x] + SumFunctionOnSet(g, U \ {x})
    BY <1>2, <1>4, SumStep
  <2>3. /\ SumFunctionOnSet(f, U \ {x}) \in Int /\ SumFunctionOnSet(g, U \ {x}) \in Int
    BY <1>2, SumType
  <2> HIDE DEF x
  <2>4. SumFunctionOnSet(h, U \ {x}) = SumFunctionOnSet(f, U \ {x}) + SumFunctionOnSet(g, U \ {x})
    BY <1>2, <2>1
  <2>5. f[x] \in Int /\ g[x] \in Int /\ h[x] = f[x] + g[x]
    BY <1>2, <2>1
  <2>6. SumFunctionOnSet(h, U) = SumFunctionOnSet(f, U) + SumFunctionOnSet(g, U)
    BY <2>2, <2>3, <2>4, <2>5
  <2> QED BY <2>6
<1> QED BY <1>3, <1>4

\* A sum depends only on the values it adds up.
LEMMA SumSame ==
    ASSUME NEW S, IsFiniteSet(S), NEW f, NEW h, \A x \in S : f[x] = h[x]
    PROVE  SumFunctionOnSet(h, S) = SumFunctionOnSet(f, S)
<1> DEFINE Odd == {U \in SUBSET S : SumFunctionOnSet(h, U) # SumFunctionOnSet(f, U)}
<1>1. SUFFICES ASSUME Odd # {} PROVE FALSE
  OBVIOUS
<1>2. PICK U \in Odd : U \subseteq S /\ IsFiniteSet(U) /\ \A x \in U : U \ {x} \notin Odd
  BY <1>1, SmallestSubset
<1>3. CASE U = {}
  BY <1>2, <1>3, SumStep
<1>4. CASE U # {}
  <2>1. AnyOf(U) \in U
    BY <1>4 DEF AnyOf
  <2>2. SumFunctionOnSet(h, U \ {AnyOf(U)}) = SumFunctionOnSet(f, U \ {AnyOf(U)})
    BY <1>2, <2>1
  <2>3. f[AnyOf(U)] = h[AnyOf(U)]
    BY <1>2, <2>1
  <2> QED BY <1>2, <1>4, <2>2, <2>3, SumStep
<1> QED BY <1>3, <1>4

\* It does not matter which element is taken out of a sum.
LEMMA SumRemove ==
    ASSUME NEW S, IsFiniteSet(S), NEW f, \A x \in S : f[x] \in Int, NEW y \in S
    PROVE  SumFunctionOnSet(f, S) = f[y] + SumFunctionOnSet(f, S \ {y})
<1> DEFINE Odd == {U \in SUBSET S :
                     \E x \in U : SumFunctionOnSet(f, U) # f[x] + SumFunctionOnSet(f, U \ {x})}
<1>1. SUFFICES ASSUME Odd # {} PROVE FALSE
  OBVIOUS
<1>2. PICK U \in Odd : U \subseteq S /\ IsFiniteSet(U) /\ \A x \in U : U \ {x} \notin Odd
  BY <1>1, SmallestSubset
<1>3. PICK x \in U : SumFunctionOnSet(f, U) # f[x] + SumFunctionOnSet(f, U \ {x})
  OBVIOUS
<1> DEFINE c == AnyOf(U)
<1>4. c \in U /\ SumFunctionOnSet(f, U) = f[c] + SumFunctionOnSet(f, U \ {c})
  BY <1>2, SumStep DEF AnyOf
<1> HIDE DEF c
<1>5. c # x
  BY <1>3, <1>4
<1> DEFINE W == U \ {c, x}
<1>6. (U \ {c}) \ {x} = W /\ (U \ {x}) \ {c} = W
  OBVIOUS
<1> HIDE DEF W
<1>7. SumFunctionOnSet(f, U \ {c}) = f[x] + SumFunctionOnSet(f, W)
  BY <1>2, <1>4, <1>5, <1>6
<1>8. SumFunctionOnSet(f, U \ {x}) = f[c] + SumFunctionOnSet(f, W)
  BY <1>2, <1>4, <1>5, <1>6
<1>9. f[x] \in Int /\ f[c] \in Int /\ SumFunctionOnSet(f, W) \in Int
  BY <1>2, <1>4, SumType DEF W
<1>10. SumFunctionOnSet(f, U) = f[x] + SumFunctionOnSet(f, U \ {x})
  BY <1>4, <1>7, <1>8, <1>9
<1>11. QED BY <1>3, <1>10

\* Taking in more natural numbers makes a sum no smaller.
LEMMA SumGrows ==
    ASSUME NEW S, IsFiniteSet(S), NEW f, \A x \in S : f[x] \in Nat, NEW T \in SUBSET S
    PROVE  SumFunctionOnSet(f, T) <= SumFunctionOnSet(f, S)
<1> DEFINE Odd == {U \in SUBSET S :
                     T \subseteq U /\ ~(SumFunctionOnSet(f, T) <= SumFunctionOnSet(f, U))}
<1>1. SUFFICES ASSUME Odd # {} PROVE FALSE
  OBVIOUS
<1>2. PICK U \in Odd : U \subseteq S /\ IsFiniteSet(U) /\ \A x \in U : U \ {x} \notin Odd
  <2>1. Odd \in SUBSET (SUBSET S)
    OBVIOUS
  <2> HIDE DEF Odd
  <2> QED BY <1>1, <2>1, SmallestSubset
<1>3. SumFunctionOnSet(f, T) \in Nat
  BY SumType
<1>4. U # T
  BY <1>3
<1>5. PICK x \in U : x \notin T
  BY <1>4
<1>6. SumFunctionOnSet(f, T) <= SumFunctionOnSet(f, U \ {x})
  BY <1>2, <1>5
<1>7. SumFunctionOnSet(f, U) = f[x] + SumFunctionOnSet(f, U \ {x})
  BY <1>2, SumRemove
<1>8. SumFunctionOnSet(f, U \ {x}) \in Nat /\ f[x] \in Nat
  BY <1>2, SumType
<1>9. SumFunctionOnSet(f, T) <= SumFunctionOnSet(f, U)
  BY <1>3, <1>6, <1>7, <1>8
<1>10. QED
  BY <1>9

\* A sum that is not zero has an element that is not.
LEMMA SumNotZero ==
    ASSUME NEW S, IsFiniteSet(S), NEW f, SumFunctionOnSet(f, S) # 0
    PROVE  \E x \in S : f[x] # 0
<1> DEFINE Odd == {U \in SUBSET S : SumFunctionOnSet(f, U) # 0}
<1>1. SUFFICES ASSUME \A x \in S : f[x] = 0 PROVE FALSE
  OBVIOUS
<1>2. PICK U \in Odd : U \subseteq S /\ IsFiniteSet(U) /\ \A x \in U : U \ {x} \notin Odd
  <2>1. Odd # {}
    OBVIOUS
  <2> QED BY <2>1, SmallestSubset
<1>3. U # {}
  BY <1>2, SumStep
<1>4. AnyOf(U) \in U
  BY <1>3 DEF AnyOf
<1>5. SumFunctionOnSet(f, U) = f[AnyOf(U)] + SumFunctionOnSet(f, U \ {AnyOf(U)})
  BY <1>2, <1>3, SumStep
<1>6. f[AnyOf(U)] = 0 /\ SumFunctionOnSet(f, U \ {AnyOf(U)}) = 0
  BY <1>1, <1>2, <1>4
<1>7. QED
  BY <1>5, <1>6

----------------------------------------------------------------------------
(* Net positions. *)

\* The reciprocal of a pair is another pair, and reciprocal twice is the pair.
LEMMA FlipPair ==
    ASSUME NEW e \in Pairs
    PROVE  Flip(e) \in Pairs /\ Flip(Flip(e)) = e /\ Flip(e) # e
BY DEF Pairs, Flip

\* What p has more of from q than q from p.
Gain(m, p) == [q \in Participants \ {p} |-> m[<<q, p>>] - m[<<p, q>>]]

\* What p gains is the sum of what it gains from each of the others.
LEMMA InflowIsSum ==
    ASSUME IsFiniteSet(Participants), NEW m \in [Pairs -> Int], NEW p \in Participants
    PROVE  /\ Inflow(m, p) = SumFunctionOnSet(Gain(m, p), Participants \ {p})
           /\ Inflow(m, p) \in Int
<1> DEFINE others == Participants \ {p}
           in == [q \in others |-> m[<<q, p>>]]
           out == [q \in others |-> m[<<p, q>>]]
<1>1. IsFiniteSet(others)
  BY FS_Subset
<1>2. \A q \in others : <<q, p>> \in Pairs /\ <<p, q>> \in Pairs
  BY DEF Pairs
<1>3. \A q \in others : /\ in[q] \in Int /\ out[q] \in Int /\ Gain(m, p)[q] \in Int
                        /\ in[q] = out[q] + Gain(m, p)[q]
  BY <1>2 DEF Gain
<1>4. Inflow(m, p) = SumFunctionOnSet(in, others) - SumFunctionOnSet(out, others)
  BY DEF Inflow, SumFunction
<1> HIDE DEF in, out, others
<1>5. SumFunctionOnSet(in, others)
        = SumFunctionOnSet(out, others) + SumFunctionOnSet(Gain(m, p), others)
  BY <1>1, <1>3, SumAdds
<1>6. /\ SumFunctionOnSet(in, others) \in Int /\ SumFunctionOnSet(out, others) \in Int
      /\ SumFunctionOnSet(Gain(m, p), others) \in Int
  BY <1>1, <1>3, SumType
<1> QED BY <1>4, <1>5, <1>6 DEF others

\* Moves add up for every participant as they do for every pair.
LEMMA InflowAdds ==
    ASSUME IsFiniteSet(Participants), NEW p \in Participants,
           NEW a \in [Pairs -> Int], NEW b \in [Pairs -> Int], NEW c \in [Pairs -> Int],
           \A e \in Pairs : a[e] - a[Flip(e)] = (b[e] - b[Flip(e)]) + (c[e] - c[Flip(e)])
    PROVE  Inflow(a, p) = Inflow(b, p) + Inflow(c, p)
<1> DEFINE others == Participants \ {p}
<1>1. IsFiniteSet(others)
  BY FS_Subset
<1>2. \A q \in others : /\ <<q, p>> \in Pairs /\ <<p, q>> \in Pairs
                        /\ Flip(<<q, p>>) = <<p, q>>
  BY DEF Pairs, Flip
<1>3. \A q \in others : /\ Gain(b, p)[q] \in Int /\ Gain(c, p)[q] \in Int
                        /\ Gain(a, p)[q] = Gain(b, p)[q] + Gain(c, p)[q]
  <2> SUFFICES ASSUME NEW q \in others
               PROVE  /\ Gain(b, p)[q] \in Int /\ Gain(c, p)[q] \in Int
                      /\ Gain(a, p)[q] = Gain(b, p)[q] + Gain(c, p)[q]
    OBVIOUS
  <2>1. a[<<q, p>>] - a[<<p, q>>] = (b[<<q, p>>] - b[<<p, q>>]) + (c[<<q, p>>] - c[<<p, q>>])
    BY <1>2
  <2>2. /\ Gain(a, p)[q] = a[<<q, p>>] - a[<<p, q>>]
        /\ Gain(b, p)[q] = b[<<q, p>>] - b[<<p, q>>]
        /\ Gain(c, p)[q] = c[<<q, p>>] - c[<<p, q>>]
    BY DEF Gain
  <2>3. /\ b[<<q, p>>] \in Int /\ b[<<p, q>>] \in Int
        /\ c[<<q, p>>] \in Int /\ c[<<p, q>>] \in Int
    BY <1>2
  <2> QED BY <2>1, <2>2, <2>3
<1>4. SumFunctionOnSet(Gain(a, p), others)
        = SumFunctionOnSet(Gain(b, p), others) + SumFunctionOnSet(Gain(c, p), others)
  BY <1>1, <1>3, SumAdds
<1> QED BY <1>4, InflowIsSum

\* Flows move what is owed over a pair, one direction against the other, by what
\* they carry over it.
LEMMA ApplyFlowsPair ==
    ASSUME NEW d \in [Pairs -> Nat], NEW f \in [Pairs -> Nat], NEW e \in Pairs
    PROVE  ApplyFlows(d, f)[e] - ApplyFlows(d, f)[Flip(e)]
             = (d[e] - d[Flip(e)]) + (f[e] - f[Flip(e)])
<1> DEFINE a == ApplyFlows(d, f)
<1>1. Flip(e) \in Pairs /\ Flip(Flip(e)) = e
  BY FlipPair
<1>2. e \in Touched(f) <=> Flip(e) \in Touched(f)
  BY <1>1 DEF Touched
<1>3. d[e] \in Nat /\ d[Flip(e)] \in Nat /\ f[e] \in Nat /\ f[Flip(e)] \in Nat
  BY <1>1
<1>4. CASE e \in Touched(f)
  <2> DEFINE net == (d[e] - d[Flip(e)]) + (f[e] - f[Flip(e)])
             back == (d[Flip(e)] - d[e]) + (f[Flip(e)] - f[e])
  <2>1. a[e] = IF net > 0 THEN net ELSE 0
    BY <1>4 DEF ApplyFlows
  <2>2. a[Flip(e)] = IF back > 0 THEN back ELSE 0
    BY <1>1, <1>2, <1>4 DEF ApplyFlows
  <2> HIDE DEF a
  <2>3. a[e] - a[Flip(e)] = net
    BY <1>3, <2>1, <2>2
  <2> QED BY <2>3 DEF a
<1>5. CASE e \notin Touched(f)
  <2>1. a[e] = d[e] /\ a[Flip(e)] = d[Flip(e)]
    BY <1>1, <1>2, <1>5 DEF ApplyFlows
  <2>2. f[e] = 0 /\ f[Flip(e)] = 0
    BY <1>1, <1>5 DEF Touched
  <2> HIDE DEF a
  <2>3. a[e] - a[Flip(e)] = (d[e] - d[Flip(e)]) + (f[e] - f[Flip(e)])
    BY <1>3, <2>1, <2>2
  <2> QED BY <2>3 DEF a
<1> QED BY <1>4, <1>5

\* The flows of a payment move every net position by what they carry, whatever
\* was owed before: check_payment_delta has nothing to refuse.
LEMMA ApplyFlowsMoves ==
    ASSUME IsFiniteSet(Participants), NEW p \in Participants,
           NEW d \in [Pairs -> Nat], NEW f \in [Pairs -> Nat]
    PROVE  NetPosition(ApplyFlows(d, f), p) = NetPosition(d, p) + Inflow(f, p)
<1> DEFINE a == ApplyFlows(d, f)
<1>1. a \in [Pairs -> Int] /\ d \in [Pairs -> Int] /\ f \in [Pairs -> Int]
  BY FlipPair DEF ApplyFlows
<1>2. \A e \in Pairs : a[e] - a[Flip(e)] = (d[e] - d[Flip(e)]) + (f[e] - f[Flip(e)])
  BY ApplyFlowsPair
<1> HIDE DEF a
<1>3. Inflow(a, p) = Inflow(d, p) + Inflow(f, p)
  BY <1>1, <1>2, InflowAdds
<1> QED BY <1>3 DEF NetPosition, a

\* A clearing that moves none of its own participants moves nobody.
LEMMA NeutralForAll ==
    ASSUME NEW d, NEW edges \in SUBSET Pairs, NEW amount, NEW p \in Participants,
           ClearingNeutrality(d, ReduceAll(d, edges, amount), edges)
    PROVE  NetPosition(ReduceAll(d, edges, amount), p) = NetPosition(d, p)
<1> DEFINE after == ReduceAll(d, edges, amount)
           others == Participants \ {p}
<1>1. CASE p \in UNION {{e[1], e[2]} : e \in edges}
  BY <1>1 DEF ClearingNeutrality
<1>2. CASE p \notin UNION {{e[1], e[2]} : e \in edges}
  <2>1. \A q \in others : /\ <<q, p>> \in Pairs /\ <<p, q>> \in Pairs
                          /\ <<q, p>> \notin edges /\ <<p, q>> \notin edges
    BY <1>2 DEF Pairs
  <2>2. \A q \in others : after[<<q, p>>] = d[<<q, p>>] /\ after[<<p, q>>] = d[<<p, q>>]
    BY <2>1 DEF ReduceAll
  <2> HIDE DEF after
  <2>3. /\ [q \in others |-> after[<<q, p>>]] = [q \in others |-> d[<<q, p>>]]
        /\ [q \in others |-> after[<<p, q>>]] = [q \in others |-> d[<<p, q>>]]
    BY <2>2
  <2>4. Inflow(after, p) = Inflow(d, p)
    BY <2>3 DEF Inflow
  <2> QED BY <2>4 DEF NetPosition, after
<1> QED BY <1>1, <1>2
----------------------------------------------------------------------------
(* Sequences. *)

\* The first of a sequence and the others.
LEMMA TakeFirst ==
    ASSUME NEW T, NEW q \in Seq(T), q # <<>>
    PROVE  /\ Head(q) \in T /\ Head(q) = q[1] /\ 1 \in DOMAIN q /\ Len(q) >= 1
           /\ Tail(q) \in Seq(T) /\ Len(Tail(q)) = Len(q) - 1
           /\ \A i \in DOMAIN Tail(q) : i + 1 \in DOMAIN q /\ Tail(q)[i] = q[i + 1]
           /\ \A i \in DOMAIN q : i = 1 \/ (i - 1 \in DOMAIN Tail(q) /\ q[i] = Tail(q)[i - 1])
OBVIOUS

LEMMA PutLast ==
    ASSUME NEW T, NEW q \in Seq(T), NEW x \in T
    PROVE  /\ Append(q, x) \in Seq(T) /\ Len(Append(q, x)) = Len(q) + 1
           /\ \A i \in DOMAIN q : i \in DOMAIN Append(q, x) /\ Append(q, x)[i] = q[i]
           /\ Len(q) + 1 \in DOMAIN Append(q, x) /\ Append(q, x)[Len(q) + 1] = x
           /\ \A i \in DOMAIN Append(q, x) : i \in DOMAIN q \/ (i = Len(q) + 1 /\ Append(q, x)[i] = x)
           /\ \A i \in DOMAIN q : i < Len(q) + 1
OBVIOUS

\* What a sequence holds.
Elems(q) == {q[i] : i \in DOMAIN q}

LEMMA ElemsOfSeq ==
    ASSUME NEW T, NEW q \in Seq(T)
    PROVE  /\ \A x \in T : Append(q, x) \in Seq(T) /\ Elems(Append(q, x)) = Elems(q) \cup {x}
           /\ q # <<>> => Tail(q) \in Seq(T) /\ Head(q) \in T /\ Elems(q) = {Head(q)} \cup Elems(Tail(q))
           /\ Elems(q) \subseteq T
<1>1. ASSUME NEW x \in T PROVE Append(q, x) \in Seq(T) /\ Elems(Append(q, x)) = Elems(q) \cup {x}
  <2>1. /\ Append(q, x) \in Seq(T)
        /\ \A i \in DOMAIN q : i \in DOMAIN Append(q, x) /\ Append(q, x)[i] = q[i]
        /\ Len(q) + 1 \in DOMAIN Append(q, x) /\ Append(q, x)[Len(q) + 1] = x
        /\ \A i \in DOMAIN Append(q, x) : i \in DOMAIN q \/ Append(q, x)[i] = x
    BY PutLast
  <2> QED BY <2>1, Zenon DEF Elems
<1>2. ASSUME q # <<>> PROVE Tail(q) \in Seq(T) /\ Head(q) \in T /\ Elems(q) = {Head(q)} \cup Elems(Tail(q))
  <2>1. /\ Tail(q) \in Seq(T) /\ Head(q) \in T /\ Head(q) = q[1] /\ 1 \in DOMAIN q
        /\ \A i \in DOMAIN Tail(q) : i + 1 \in DOMAIN q /\ Tail(q)[i] = q[i + 1]
        /\ \A i \in DOMAIN q : i = 1 \/ (i - 1 \in DOMAIN Tail(q) /\ q[i] = Tail(q)[i - 1])
    BY <1>2, TakeFirst
  <2> DEFINE x == Head(q)  rest == Tail(q)
  <2> HIDE DEF x, rest
  <2>2. rest \in Seq(T) /\ x \in T /\ Elems(q) = {x} \cup Elems(rest)
    <3>1. Elems(q) \subseteq {x} \cup Elems(rest)
      <4>1. ASSUME NEW i \in DOMAIN q PROVE q[i] \in {x} \cup Elems(rest)
        <5>1. i = 1 \/ (i - 1 \in DOMAIN rest /\ q[i] = rest[i - 1])
          BY <2>1, <4>1, Zenon DEF rest
        <5> QED BY <2>1, <5>1, Zenon DEF Elems, x
      <4> QED BY <4>1, Zenon DEF Elems
    <3>2. Elems(rest) \subseteq Elems(q)
      <4>1. ASSUME NEW i \in DOMAIN rest PROVE rest[i] \in Elems(q)
        <5>1. i + 1 \in DOMAIN q /\ rest[i] = q[i + 1]
          BY <2>1, <4>1, Zenon DEF rest
        <5> QED BY <5>1, Zenon DEF Elems
      <4> QED BY <4>1, Zenon DEF Elems
    <3>3. x \in Elems(q)
      BY <2>1, Zenon DEF Elems, x
    <3> QED BY <2>1, <3>1, <3>2, <3>3, Zenon DEF x, rest
  <2> QED BY <2>2 DEF x, rest
<1>3. Elems(q) \subseteq T
  BY DEF Elems
<1> QED BY <1>1, <1>2, <1>3

LEMMA NoElems == Elems(<<>>) = {} /\ DOMAIN <<>> = {} /\ Len(<<>>) = 0 /\ \A T : <<>> \in Seq(T)
BY DEF Elems

Ascending(q) == \A i, j \in DOMAIN q : i < j => q[i] < q[j]

\* Every set of numbers up to a bound can be listed in order, and a list of as many
\* different numbers as it has lists them all.
LEMMA ListedInOrder ==
    ASSUME NEW n \in Nat, NEW S \in SUBSET (1..n)
    PROVE  /\ \E q \in [1..Cardinality(S) -> S] : Ascending(q)
           /\ \A q \in [1..Cardinality(S) -> S] :
                Ascending(q) => q \in Seq(S) /\ q \in Seq(Nat) /\ Len(q) \in Nat /\ Elems(q) = S
<1> DEFINE Listed(U) == \E q \in [1..Cardinality(U) -> U] : Ascending(q)
           Bad == {m \in Nat : \E U \in SUBSET (1..m) : ~Listed(U)}
<1>0. \A m \in Nat : \A U \in SUBSET (1..m) : IsFiniteSet(U) /\ Cardinality(U) \in Nat
  <2>1. SUFFICES ASSUME NEW m \in Nat, NEW U \in SUBSET (1..m)
                 PROVE  IsFiniteSet(U) /\ Cardinality(U) \in Nat
    OBVIOUS
  <2>2. IsFiniteSet(1..m)
    BY FS_Interval
  <2>3. IsFiniteSet(U)
    BY <2>2, FS_Subset
  <2> QED BY <2>3, FS_CardinalityType
<1>1. ASSUME Bad # {} PROVE FALSE
  <2>1. PICK m \in Bad : \A k \in Bad : m <= k
    BY <1>1, LeastNumber
  <2>2. m \in Nat
    OBVIOUS
  <2>3. PICK U \in SUBSET (1..m) : ~Listed(U)
    BY <2>1
  <2>4. CASE m \notin U
    <3>1. m # 0
      <4>1. SUFFICES ASSUME m = 0 PROVE FALSE
        OBVIOUS
      <4>2. U = {}
        BY <4>1
      <4>3. Cardinality(U) = 0
        BY <4>2, FS_EmptySet
      <4>4. [i \in 1..0 |-> 0] \in [1..Cardinality(U) -> U] /\ Ascending([i \in 1..0 |-> 0])
        BY <4>3 DEF Ascending
      <4> QED BY <2>3, <4>4
    <3>2. m - 1 \in Nat /\ U \subseteq 1..(m - 1) /\ m - 1 < m
      BY <2>2, <2>4, <3>1
    <3> HIDE DEF Listed
    <3>3. m - 1 \in Bad
      BY <2>3, <3>2
    <3> HIDE DEF Bad
    <3> QED BY <2>1, <2>2, <3>2, <3>3
  <2>5. CASE m \in U
    <3> DEFINE V == U \ {m}  k == Cardinality(V)
    <3>1. m # 0 /\ m - 1 \in Nat /\ V \subseteq 1..(m - 1) /\ m - 1 < m
      BY <2>2, <2>5
    <3>2. k \in Nat /\ Cardinality(U) = k + 1
      <4>1. IsFiniteSet(U) /\ Cardinality(U) \in Nat
        BY <1>0, <2>2
      <4>2. k = Cardinality(U) - 1
        BY <2>5, <4>1, FS_RemoveElement
      <4>3. k \in Nat
        BY <1>0, <3>1
      <4> QED BY <4>1, <4>2, <4>3
    <3>3. Listed(V)
      <4>1. SUFFICES ASSUME ~Listed(V) PROVE FALSE
        OBVIOUS
      <4> HIDE DEF Listed, V
      <4>2. m - 1 \in Bad
        BY <3>1, <4>1
      <4> HIDE DEF Bad
      <4> QED BY <2>1, <2>2, <3>1, <4>2
    <3>4. PICK q \in [1..k -> V] : Ascending(q)
      BY <3>3
    <3> DEFINE r == [i \in 1..(k + 1) |-> IF i = k + 1 THEN m ELSE q[i]]
    <3> HIDE DEF k
    <3>5. \A i \in 1..k : q[i] \in U /\ q[i] < m /\ q[i] \in Nat
      <4>1. \A i \in 1..k : q[i] \in V
        BY <3>4
      <4>2. \A x \in V : x \in U /\ x < m /\ x \in Nat
        BY <2>2, <3>1
      <4> QED BY <4>1, <4>2, Zenon
    <3>6. r \in [1..(k + 1) -> U]
      BY <2>5, <3>2, <3>5
    <3>7. Ascending(r)
      BY <2>2, <3>2, <3>4, <3>5 DEF Ascending
    <3> QED BY <2>3, <3>2, <3>6, <3>7
  <2> QED BY <2>4, <2>5
<1>2. \E q \in [1..Cardinality(S) -> S] : Ascending(q)
  BY <1>1
<1> DEFINE k == Cardinality(S)
<1>3. SUFFICES ASSUME NEW q \in [1..k -> S], Ascending(q)
               PROVE  q \in Seq(S) /\ q \in Seq(Nat) /\ Len(q) \in Nat /\ Elems(q) = S
  BY <1>2
<1>4. k \in Nat /\ IsFiniteSet(S)
  BY <1>0
<1> HIDE DEF k, Listed, Bad
<1>5. DOMAIN q = 1..k /\ \A i \in 1..k : q[i] \in S /\ q[i] \in Nat
  <2>1. \A x \in S : x \in Nat
    OBVIOUS
  <2> QED BY <1>3, <2>1, Zenon
<1>6. q \in Seq(S) /\ q \in Seq(Nat) /\ Len(q) \in Nat
  BY <1>3, <1>4, <1>5
<1>7. Elems(q) = S
  <2>1. Elems(q) \subseteq S /\ q \in [1..k -> Elems(q)]
    BY <1>3, <1>5 DEF Elems
  <2>2. \A i, j \in 1..k : q[i] = q[j] => i = j
    BY <1>3, <1>5 DEF Ascending
  <2>3. q \in Bijection(1..k, Elems(q))
    BY <1>5, <2>1, <2>2, Zenon DEF Bijection, Injection, Surjection, IsInjective, Elems
  <2>4. ExistsBijection(1..k, Elems(q))
    BY <2>3, Zenon DEF ExistsBijection
  <2>5. IsFiniteSet(1..k) /\ Cardinality(1..k) = k
    BY <1>4, FS_Interval
  <2>6. Cardinality(Elems(q)) = k
    BY <2>4, <2>5, FS_Bijection
  <2> QED BY <1>4, <2>1, <2>6, FS_Subset DEF k
<1> QED BY <1>6, <1>7

\* A sequence over a set is one over a wider set.
LEMMA Wider ==
    ASSUME NEW S, NEW T, S \subseteq T, NEW q \in Seq(S)
    PROVE  q \in Seq(T)
OBVIOUS

----------------------------------------------------------------------------
(* Three queues in a row, whose numbers only grow. *)

\* Numbers above k and up to n, in order: the outbox, then the queue, then the tail.
Ranked(k, o, q, t, n) ==
    /\ \A i, j \in DOMAIN o : i < j => o[i] < o[j]
    /\ \A i, j \in DOMAIN q : i < j => q[i] < q[j]
    /\ \A i, j \in DOMAIN t : i < j => t[i] < t[j]
    /\ \A i \in DOMAIN o, j \in DOMAIN q : o[i] < q[j]
    /\ \A i \in DOMAIN o, j \in DOMAIN t : o[i] < t[j]
    /\ \A i \in DOMAIN q, j \in DOMAIN t : q[i] < t[j]
    /\ \A i \in DOMAIN o : k < o[i] /\ o[i] <= n
    /\ \A i \in DOMAIN q : k < q[i] /\ q[i] <= n
    /\ \A i \in DOMAIN t : k < t[i] /\ t[i] <= n

\* From k on, or from the first number of L if k is 0, L lacks none of F: up to its
\* last number, or to the end while the subscription lasts.
Lasting == {"bootstrap", "live"}
Gapless(k, L, F, s) ==
    \A j \in F :
        /\ (k > 0 /\ k < j) \/ \E x \in L : x < j
        /\ s \in Lasting \/ \E y \in L : j < y
        => j \in L

\* What a client is still to be given, and the events it is owed.
LEMMA GapSent ==
    ASSUME NEW k \in Nat, NEW L, NEW F \in SUBSET Nat, NEW s, Gapless(k, L, F, s),
           NEW h \in Nat, NEW M \in SUBSET Nat, L = {h} \cup M, \A x \in M : h < x
    PROVE  Gapless(h, M, F, s)
BY DEF Gapless

LEMMA GapGrown ==
    ASSUME NEW k \in Nat, NEW L \in SUBSET Nat, NEW F \in SUBSET Nat, NEW s \in Lasting, Gapless(k, L, F, s),
           NEW n \in Nat, \A j \in F : j < n
    PROVE  Gapless(k, L \cup {n}, F \cup {n}, s)
BY DEF Gapless

LEMMA GapLater ==
    ASSUME NEW k \in Nat, NEW L \in SUBSET Nat, NEW F \in SUBSET Nat, NEW s, s \notin Lasting, Gapless(k, L, F, s),
           NEW n \in Nat, \A j \in L : j < n
    PROVE  Gapless(k, L, F \cup {n}, s)
BY DEF Gapless

LEMMA GapClosed ==
    ASSUME NEW k \in Nat, NEW O \in SUBSET Nat, NEW Q \in SUBSET Nat, NEW F \in SUBSET Nat, NEW s \in Lasting,
           Gapless(k, O \cup Q, F, s), \A x \in O, y \in Q : x < y,
           NEW z, z \notin Lasting
    PROVE  Gapless(k, O, F, z)
BY DEF Gapless

LEMMA NoGap ==
    ASSUME NEW k, NEW F, NEW z, z \notin Lasting
    PROVE  Gapless(k, {}, F, z)
BY DEF Gapless

\* The order of what a client is still to be given.
RankTypes(k, o, q, t, n) ==
    k \in Nat /\ o \in Seq(Nat) /\ q \in Seq(Nat) /\ t \in Seq(Nat) /\ n \in Nat

RankNumbers(k, o, q, t, n) ==
    /\ \A i \in DOMAIN o : o[i] \in Int /\ i \in Int
    /\ \A i \in DOMAIN q : q[i] \in Int /\ i \in Int
    /\ \A i \in DOMAIN t : t[i] \in Int /\ i \in Int
    /\ k \in Int /\ n \in Int

LEMMA RankIsNumbers ==
    ASSUME NEW k, NEW o, NEW q, NEW t, NEW n, RankTypes(k, o, q, t, n)
    PROVE  RankNumbers(k, o, q, t, n)
BY DEF RankTypes, RankNumbers

LEMMA RankLater ==
    ASSUME NEW k, NEW o, NEW q, NEW t, NEW n, RankTypes(k, o, q, t, n), Ranked(k, o, q, t, n)
    PROVE  Ranked(k, o, q, t, n + 1)
BY RankIsNumbers DEF Ranked, RankNumbers

LEMMA RankTail ==
    ASSUME NEW k, NEW o, NEW q, NEW t, NEW n, RankTypes(k, o, q, t, n), Ranked(k, o, q, t, n), k <= n
    PROVE  Ranked(k, o, q, Append(t, n + 1), n + 1)
<1> DEFINE new == Append(t, n + 1)
<1>1. RankNumbers(k, o, q, t, n)
  BY RankIsNumbers
<1>2. /\ \A i \in DOMAIN t : i \in DOMAIN new /\ new[i] = t[i] /\ i < Len(t) + 1
      /\ \A i \in DOMAIN new : i \in DOMAIN t \/ (i = Len(t) + 1 /\ new[i] = n + 1)
  BY PutLast DEF RankTypes
<1> HIDE DEF new
<1> QED BY <1>1, <1>2 DEF Ranked, RankNumbers, new

LEMMA RankQueue ==
    ASSUME NEW k, NEW o, NEW q, NEW n, RankTypes(k, o, q, <<>>, n), Ranked(k, o, q, <<>>, n), k <= n
    PROVE  Ranked(k, o, Append(q, n + 1), <<>>, n + 1)
<1> DEFINE new == Append(q, n + 1)
<1>1. RankNumbers(k, o, q, <<>>, n)
  BY RankIsNumbers
<1>2. /\ \A i \in DOMAIN q : i \in DOMAIN new /\ new[i] = q[i] /\ i < Len(q) + 1
      /\ \A i \in DOMAIN new : i \in DOMAIN q \/ (i = Len(q) + 1 /\ new[i] = n + 1)
  BY PutLast DEF RankTypes
<1> HIDE DEF new
<1> QED BY <1>1, <1>2, NoElems DEF Ranked, RankNumbers, new

LEMMA RankDrain ==
    ASSUME NEW k, NEW o, NEW q, NEW t, NEW n, RankTypes(k, o, q, t, n), Ranked(k, o, q, t, n), q # <<>>
    PROVE  Ranked(k, Append(o, Head(q)), Tail(q), t, n)
<1> DEFINE x == Head(q)  rest == Tail(q)  new == Append(o, x)
<1>1. RankNumbers(k, o, q, t, n)
  BY RankIsNumbers
<1>2. /\ x \in Nat /\ x = q[1] /\ 1 \in DOMAIN q
      /\ \A i \in DOMAIN rest : i + 1 \in DOMAIN q /\ rest[i] = q[i + 1]
  BY TakeFirst DEF RankTypes
<1>3. /\ \A i \in DOMAIN o : i \in DOMAIN new /\ new[i] = o[i] /\ i < Len(o) + 1
      /\ \A i \in DOMAIN new : i \in DOMAIN o \/ (i = Len(o) + 1 /\ new[i] = x)
  BY <1>2, PutLast DEF RankTypes
<1>4. \A i \in DOMAIN rest : i \in Int /\ 1 < i + 1
  BY DEF RankTypes
<1> HIDE DEF new, rest, x
<1>5. /\ \A i, j \in DOMAIN new : i < j => new[i] < new[j]
      /\ \A i \in DOMAIN new, j \in DOMAIN t : new[i] < t[j]
      /\ \A i \in DOMAIN new : k < new[i] /\ new[i] <= n
  BY <1>1, <1>2, <1>3 DEF Ranked, RankNumbers
<1>6. /\ \A i, j \in DOMAIN rest : i < j => rest[i] < rest[j]
      /\ \A i \in DOMAIN rest, j \in DOMAIN t : rest[i] < t[j]
      /\ \A i \in DOMAIN rest : k < rest[i] /\ rest[i] <= n
  BY <1>1, <1>2, <1>4 DEF Ranked, RankNumbers
<1>7. \A i \in DOMAIN new, j \in DOMAIN rest : new[i] < rest[j]
  BY <1>1, <1>2, <1>3, <1>4 DEF Ranked, RankNumbers
<1>8. \A i, j \in DOMAIN t : i < j => t[i] < t[j]
  BY DEF Ranked
<1>9. \A i \in DOMAIN t : k < t[i] /\ t[i] <= n
  BY DEF Ranked
<1>10. Ranked(k, new, rest, t, n)
  BY <1>5, <1>6, <1>7, <1>8, <1>9 DEF Ranked
<1> QED BY <1>10 DEF new, rest, x

LEMMA RankSent ==
    ASSUME NEW k, NEW o, NEW q, NEW t, NEW n, RankTypes(k, o, q, t, n), Ranked(k, o, q, t, n), o # <<>>
    PROVE  /\ Ranked(Head(o), Tail(o), q, t, n) /\ k < Head(o) /\ Head(o) <= n
           /\ \A x \in Elems(Tail(o)) \cup Elems(q) \cup Elems(t) : Head(o) < x
<1> DEFINE x == Head(o)  rest == Tail(o)
<1>1. RankNumbers(k, o, q, t, n)
  BY RankIsNumbers
<1>2. /\ x = o[1] /\ 1 \in DOMAIN o
      /\ \A i \in DOMAIN rest : i + 1 \in DOMAIN o /\ rest[i] = o[i + 1]
  BY TakeFirst DEF RankTypes
<1>3. \A i \in DOMAIN rest : i \in Int /\ 1 < i + 1
  BY DEF RankTypes
<1> HIDE DEF rest, x
<1>4. Ranked(x, rest, q, t, n) /\ k < x /\ x <= n
  BY <1>1, <1>2, <1>3 DEF Ranked, RankNumbers
<1>5. /\ \A i \in DOMAIN rest : x < rest[i]
      /\ \A i \in DOMAIN q : x < q[i]
      /\ \A i \in DOMAIN t : x < t[i]
  BY <1>4 DEF Ranked
<1> QED BY <1>4, <1>5 DEF Elems, x, rest

LEMMA RankShort ==
    ASSUME NEW k, NEW o, NEW q, NEW t, NEW n, Ranked(k, o, q, t, n)
    PROVE  /\ Ranked(k, o, <<>>, <<>>, n) /\ Ranked(k, <<>>, <<>>, <<>>, n) /\ Ranked(k, t, <<>>, <<>>, n)
           /\ Ranked(k, q, <<>>, t, n)
           /\ \A x \in Elems(o), y \in Elems(q) \cup Elems(t) : x < y
BY DEF Ranked, Elems

----------------------------------------------------------------------------
(* The line of a socket. *)

\* What is posted to the subscription number sub: the message number pub.
Posted == [sub : Nat, pub : Nat]

\* What a socket was sent, what its writer holds, its queue and what is scheduled
\* for it follow each other in the order of publication; n is the latest.
InLine(st, h, q, cb, n) ==
    /\ \A i, j \in DOMAIN st : i < j => st[i] < st[j]
    /\ \A i, j \in DOMAIN q : i < j => q[i] < q[j]
    /\ \A i, j \in DOMAIN cb : i < j => cb[i].pub < cb[j].pub
    /\ \A i \in DOMAIN st, j \in DOMAIN q : st[i] < q[j]
    /\ \A i \in DOMAIN st, j \in DOMAIN cb : st[i] < cb[j].pub
    /\ \A i \in DOMAIN q, j \in DOMAIN cb : q[i] < cb[j].pub
    /\ h # 0 => /\ \A i \in DOMAIN st : st[i] < h
                /\ \A i \in DOMAIN q : h < q[i]
                /\ \A i \in DOMAIN cb : h < cb[i].pub
    /\ \A i \in DOMAIN st : st[i] <= n
    /\ \A i \in DOMAIN q : q[i] <= n
    /\ \A i \in DOMAIN cb : cb[i].pub <= n
    /\ h <= n

\* The parts of a socket's line.
LineTypes(st, h, q, cb, n) ==
    st \in Seq(Nat) /\ h \in Nat /\ q \in Seq(Nat) /\ cb \in Seq(Posted) /\ n \in Nat

LineNumbers(st, h, q, cb, n) ==
    /\ \A i \in DOMAIN st : st[i] \in Int
    /\ \A i \in DOMAIN q : q[i] \in Int
    /\ \A i \in DOMAIN cb : cb[i].pub \in Int
    /\ h \in Int /\ n \in Int /\ 0 <= n

LEMMA LineIsNumbers ==
    ASSUME NEW st, NEW h, NEW q, NEW cb, NEW n, LineTypes(st, h, q, cb, n)
    PROVE  LineNumbers(st, h, q, cb, n)
<1>1. /\ \A i \in DOMAIN st : st[i] \in Nat
      /\ \A i \in DOMAIN q : q[i] \in Nat
      /\ \A i \in DOMAIN cb : cb[i] \in Posted
  <2>1. \A T : \A s \in Seq(T) : \A i \in DOMAIN s : s[i] \in T
    OBVIOUS
  <2> QED BY <2>1, Zenon DEF LineTypes
<1>2. \A i \in DOMAIN cb : cb[i].pub \in Int
  BY <1>1 DEF Posted
<1> QED BY <1>1, <1>2 DEF LineTypes, LineNumbers

LEMMA LineScheduled ==
    ASSUME NEW st, NEW h, NEW q, NEW cb, NEW n, LineTypes(st, h, q, cb, n), InLine(st, h, q, cb, n),
           NEW x \in Posted, x.pub = n + 1
    PROVE  InLine(st, h, q, Append(cb, x), n + 1)
<1> DEFINE new == Append(cb, x)
<1>0. LineNumbers(st, h, q, cb, n)
  BY LineIsNumbers
<1>1. /\ \A i \in DOMAIN cb : i \in DOMAIN new /\ new[i] = cb[i] /\ i < Len(cb) + 1
      /\ \A i \in DOMAIN new : i \in DOMAIN cb \/ (i = Len(cb) + 1 /\ new[i] = x)
  BY PutLast DEF LineTypes
<1>2. \A i \in DOMAIN cb : i \in Int
  BY DEF LineTypes
<1> HIDE DEF new
<1> QED BY <1>0, <1>1, <1>2 DEF InLine, LineNumbers, new

LEMMA LineLater ==
    ASSUME NEW st, NEW h, NEW q, NEW cb, NEW n, LineTypes(st, h, q, cb, n), InLine(st, h, q, cb, n)
    PROVE  InLine(st, h, q, cb, n + 1)
<1>0. LineNumbers(st, h, q, cb, n)
  BY LineIsNumbers
<1> QED BY <1>0 DEF InLine, LineNumbers

LEMMA LineDelivered ==
    ASSUME NEW st, NEW h, NEW q, NEW cb, NEW n, LineTypes(st, h, q, cb, n), InLine(st, h, q, cb, n),
           cb # <<>>
    PROVE  /\ InLine(st, h, q, Tail(cb), n)
           /\ InLine(st, h, Append(q, Head(cb).pub), Tail(cb), n)
<1> DEFINE x == Head(cb).pub  rest == Tail(cb)  new == Append(q, x)
<1>0. LineNumbers(st, h, q, cb, n)
  BY LineIsNumbers
<1>1. /\ x = cb[1].pub /\ 1 \in DOMAIN cb /\ Head(cb) \in Posted
      /\ \A i \in DOMAIN rest : i + 1 \in DOMAIN cb /\ rest[i] = cb[i + 1]
  BY TakeFirst DEF LineTypes
<1>2. x \in Nat
  BY <1>1 DEF Posted
<1>3. /\ \A i \in DOMAIN q : i \in DOMAIN new /\ new[i] = q[i] /\ i < Len(q) + 1
      /\ \A i \in DOMAIN new : i \in DOMAIN q \/ (i = Len(q) + 1 /\ new[i] = x)
  BY <1>2, PutLast DEF LineTypes
<1>4. /\ \A i \in DOMAIN q : i \in Int
      /\ \A i \in DOMAIN rest : i \in Int /\ 1 < i + 1
      /\ Len(q) \in Int
  BY DEF LineTypes
<1> HIDE DEF new, rest, x
<1>5. InLine(st, h, q, rest, n)
  BY <1>0, <1>1, <1>4 DEF InLine, LineNumbers
<1>6. /\ \A i, j \in DOMAIN new : i < j => new[i] < new[j]
      /\ \A i \in DOMAIN st, j \in DOMAIN new : st[i] < new[j]
      /\ \A i \in DOMAIN new, j \in DOMAIN rest : new[i] < rest[j].pub
      /\ h # 0 => \A i \in DOMAIN new : h < new[i]
      /\ \A i \in DOMAIN new : new[i] <= n
  <2>1. \A i, j \in DOMAIN new : i < j => new[i] < new[j]
    BY <1>0, <1>1, <1>3, <1>4 DEF InLine, LineNumbers
  <2>2. \A i \in DOMAIN st, j \in DOMAIN new : st[i] < new[j]
    BY <1>0, <1>1, <1>3, <1>4 DEF InLine, LineNumbers
  <2>3. \A i \in DOMAIN new, j \in DOMAIN rest : new[i] < rest[j].pub
    BY <1>0, <1>1, <1>3, <1>4 DEF InLine, LineNumbers
  <2>4. h # 0 => \A i \in DOMAIN new : h < new[i]
    BY <1>0, <1>1, <1>3, <1>4 DEF InLine, LineNumbers
  <2>5. \A i \in DOMAIN new : new[i] <= n
    BY <1>0, <1>1, <1>3, <1>4 DEF InLine, LineNumbers
  <2> QED BY <2>1, <2>2, <2>3, <2>4, <2>5
<1>7. InLine(st, h, new, rest, n)
  BY <1>5, <1>6 DEF InLine
<1> QED BY <1>5, <1>7 DEF new, rest, x

LEMMA LineTaken ==
    ASSUME NEW st, NEW h, NEW q, NEW cb, NEW n, LineTypes(st, h, q, cb, n), InLine(st, h, q, cb, n),
           q # <<>>
    PROVE  InLine(st, Head(q), Tail(q), cb, n)
<1> DEFINE x == Head(q)  rest == Tail(q)
<1>0. LineNumbers(st, h, q, cb, n)
  BY LineIsNumbers
<1>1. /\ x = q[1] /\ 1 \in DOMAIN q
      /\ \A i \in DOMAIN rest : i + 1 \in DOMAIN q /\ rest[i] = q[i + 1]
  BY TakeFirst DEF LineTypes
<1>2. \A i \in DOMAIN rest : i \in Int /\ 1 < i + 1
  BY DEF LineTypes
<1> HIDE DEF rest, x
<1> QED BY <1>0, <1>1, <1>2 DEF InLine, LineNumbers, rest, x

LEMMA LineSent ==
    ASSUME NEW st, NEW h, NEW q, NEW cb, NEW n, LineTypes(st, h, q, cb, n), InLine(st, h, q, cb, n)
    PROVE  /\ InLine(st, 0, q, cb, n)
           /\ h # 0 => InLine(Append(st, h), 0, q, cb, n)
<1> DEFINE new == Append(st, h)
<1>0. LineNumbers(st, h, q, cb, n)
  BY LineIsNumbers
<1>1. InLine(st, 0, q, cb, n)
  BY <1>0 DEF InLine, LineNumbers
<1>2. CASE h # 0
  <2>1. /\ \A i \in DOMAIN st : i \in DOMAIN new /\ new[i] = st[i] /\ i < Len(st) + 1
        /\ \A i \in DOMAIN new : i \in DOMAIN st \/ (i = Len(st) + 1 /\ new[i] = h)
    <3>1. h \in Nat /\ st \in Seq(Nat)
      BY <1>2 DEF LineTypes
    <3> QED BY <3>1, PutLast
  <2>2. \A i \in DOMAIN st : i \in Int
    BY DEF LineTypes
  <2> HIDE DEF new
  <2>3. \A i, j \in DOMAIN new : i < j => new[i] < new[j]
    BY <1>0, <1>2, <2>1, <2>2 DEF InLine, LineNumbers
  <2>4. /\ \A i \in DOMAIN new, j \in DOMAIN q : new[i] < q[j]
        /\ \A i \in DOMAIN new, j \in DOMAIN cb : new[i] < cb[j].pub
        /\ \A i \in DOMAIN new : new[i] <= n
    BY <1>0, <1>2, <2>1, <2>2 DEF InLine, LineNumbers
  <2>5. InLine(new, 0, q, cb, n)
    BY <1>1, <2>3, <2>4 DEF InLine
  <2> QED BY <1>1, <2>5 DEF new
<1> QED BY <1>1, <1>2

LEMMA LineCut ==
    ASSUME NEW st, NEW h, NEW q, NEW cb, NEW n, InLine(st, h, q, cb, n)
    PROVE  InLine(st, h, <<>>, cb, n) /\ InLine(st, h, q, <<>>, n)
BY DEF InLine

=============================================================================

---------------------------- MODULE VoteSetProofs ----------------------------
(***************************************************************************)
(* Facts about voting power and about the values VoteSet and HeightVoteSet  *)
(* compute, for every finite validator set and every distribution of power. *)
(*                                                                         *)
(* Power is summed with a fold, so each fact about a sum is an induction    *)
(* over sets of validators.  It is done on the set of counterexamples,      *)
(* which has a smallest member unless it is empty (SmallestSet).            *)
(***************************************************************************)
EXTENDS VoteSetInvariant, TLAPS, WellFoundedInduction

LEMMA SmallestNat ==
    ASSUME NEW T \in SUBSET Nat, T # {}
    PROVE  \E x \in T : \A y \in T : x <= y
<1> DEFINE R == OpToRel(<, Nat)
<1>1. IsWellFoundedOn(R, Nat)
  BY Zenon, NatLessThanWellFounded
<1>2. \A x, y \in Nat : y < x => <<y, x>> \in R
  BY Zenon DEF OpToRel
<1> HIDE DEF R
<1>3. PICK x \in T : \A y \in T : ~ (<<y, x>> \in R)
  BY Zenon, <1>1, WFMin
<1>4. ASSUME NEW y \in T PROVE x <= y
  <2>1. x \in Nat /\ y \in Nat
    BY Zenon
  <2>2. ~ (y < x)
    BY Zenon, <1>2, <1>3, <2>1
  <2> QED
    BY <2>1, <2>2
<1> QED
  BY Zenon, <1>4

\* Among sets of validators there is always one no smaller one of which is in the
\* collection.  By induction on how much of an enumeration of the validators covers
\* some set of the collection: its last validator is either left out by a set of the
\* collection, or in all of those below and can be taken from them.
LEMMA SmallestSet ==
    ASSUME NEW Bad \in SUBSET SUBSET Validators, Bad # {}
    PROVE  \E s \in Bad : \A t \in SUBSET s : t \in Bad => t = s
<1>1. PICK all \in Seq(Validators) : \A v \in Validators : \E n \in 1 .. Len(all) : all[n] = v
  BY Zenon, PowerAssumption DEF IsFiniteSet
<1> DEFINE Img(n) == {all[i] : i \in 1 .. n}
           HasLeast(B) == \E s \in B : \A t \in SUBSET s : t \in B => t = s
           Fails == {n \in Nat : \E B \in SUBSET SUBSET Validators :
                                    ~HasLeast(B) /\ \E s \in B : s \subseteq Img(n)}
<1>2. Fails = {}
  <2> SUFFICES ASSUME Fails # {} PROVE FALSE
    BY Zenon
  <2>1. PICK n \in Fails : \A k \in Fails : n <= k
    <3>1. Fails \in SUBSET Nat
      BY Zenon
    <3> HIDE DEF Fails
    <3> QED
      BY Zenon, <3>1, SmallestNat
  <2>2. PICK B \in SUBSET SUBSET Validators : ~HasLeast(B) /\ \E s \in B : s \subseteq Img(n)
    BY Zenon
  <2>3. PICK s \in B : s \subseteq Img(n)
    BY Zenon, <2>2
  <2>4. n \in Nat /\ n # 0
    <3>1. n = 0 => Img(n) = {}
      OBVIOUS
    <3>2. s = {} => HasLeast(B)
      <4> SUFFICES ASSUME s = {} PROVE \A t \in SUBSET s : t \in B => t = s
        BY Zenon
      <4> QED
        BY Zenon
    <3> HIDE DEF Img, HasLeast
    <3> QED
      BY Zenon, <2>1, <2>2, <2>3, <3>1, <3>2
  <2> DEFINE a == all[n]
  <2>5. n - 1 \in Nat /\ n - 1 \notin Fails
    <3> HIDE DEF Fails
    <3> QED
      BY <2>1, <2>4
  <2>6. \A t : t \subseteq Img(n) /\ a \notin t => t \subseteq Img(n - 1)
    <3>1. \A i \in 1 .. n : i # n => i \in 1 .. (n - 1)
      BY <2>4
    <3> QED
      BY <3>1
  <2>7. \A C \in SUBSET SUBSET Validators : (\E t \in C : t \subseteq Img(n - 1)) => HasLeast(C)
    <3> HIDE DEF Img, HasLeast
    <3> QED
      BY Zenon, <2>5
  <2> HIDE DEF Img, Fails, a
  <2>8. \A t \in B : t \subseteq s => a \in t
    <3> HIDE DEF HasLeast
    <3> QED
      BY Zenon, <2>2, <2>3, <2>6, <2>7
  <2> DEFINE C == {t \ {a} : t \in {u \in B : u \subseteq s}}
  <2>9. C \in SUBSET SUBSET Validators /\ s \ {a} \in C
    OBVIOUS
  <2>10. s \ {a} \subseteq Img(n - 1)
    <3>1. s \ {a} \subseteq Img(n) /\ a \notin s \ {a}
      BY Zenon, <2>3
    <3> QED
      BY Zenon, <2>6, <3>1
  <2>11. HasLeast(C)
    <3> HIDE DEF C, HasLeast
    <3> QED
      BY Zenon, <2>7, <2>9, <2>10
  <2>12. PICK c \in C : \A t \in SUBSET c : t \in C => t = c
    <3> HIDE DEF C
    <3> QED
      BY Zenon, <2>11
  <2>13. PICK u \in B : u \subseteq s /\ c = u \ {a}
    BY Zenon
  <2>14. ASSUME NEW t \in SUBSET u, t \in B PROVE t = u
    <3>1. t \subseteq s /\ a \in t /\ a \in u
      BY Zenon, <2>8, <2>13, <2>14
    <3>2. t \ {a} \in C /\ t \ {a} \in SUBSET c
      BY Zenon, <2>13, <2>14, <3>1
    <3>3. t \ {a} = u \ {a}
      BY Zenon, <2>12, <2>13, <3>2
    <3> QED
      BY Zenon, <3>1, <3>3
  <2> QED
    BY <2>2, <2>14
<1>3. Len(all) \in Nat /\ \A s \in Bad : s \subseteq Img(Len(all))
  BY <1>1
<1>4. HasLeast(Bad)
  <2> HIDE DEF Img, HasLeast
  <2> QED
    BY <1>2, <1>3
<1> QED
  BY Zenon, <1>4

-----------------------------------------------------------------------------
(***************************************************************************)
(* The fold behind PowerOf                                                 *)
(***************************************************************************)

Taken(s) == CHOOSE x \in s : TRUE

\* f sums the power of every subset of S the way the fold over S does.
IsFold(f, S) ==
    f = [s \in SUBSET S |-> IF s = {} THEN 0 ELSE Power[Taken(s)] + f[s \ {Taken(s)}]]

LEMMA PowerIsFold == \A S : PowerOf(S) = (CHOOSE f : IsFold(f, S))[S]
BY Zenon DEF PowerOf, SumFunctionOnSet, FoldFunctionOnSet, MapThenFoldSet, IsFold, Taken

\* What is left of a non-empty set without the element the fold takes.
LEMMA TakenElement ==
    ASSUME NEW s \in SUBSET Validators, s # {}
    PROVE  /\ Taken(s) \in s /\ Power[Taken(s)] \in Nat
           /\ s \ {Taken(s)} \in SUBSET s /\ s \ {Taken(s)} # s
<1>1. Taken(s) \in s
  BY Zenon DEF Taken
<1> QED
  BY Zenon, <1>1, PowerAssumption

\* Folds over two sets agree on the subsets of both.
LEMMA FoldUnique ==
    ASSUME NEW S \in SUBSET Validators, NEW T \in SUBSET S, NEW f, NEW g, IsFold(f, S), IsFold(g, T)
    PROVE  \A s \in SUBSET T : f[s] = g[s]
<1> DEFINE Bad == {s \in SUBSET T : f[s] # g[s]}
<1> SUFFICES ASSUME Bad # {} PROVE FALSE
  BY Zenon
<1>0. Bad \in SUBSET SUBSET Validators
  BY Zenon
<1>1. PICK s \in Bad : \A t \in SUBSET s : t \in Bad => t = s
  <2> HIDE DEF Bad
  <2> QED
    BY Zenon, <1>0, SmallestSet
<1>2. /\ f[s] = IF s = {} THEN 0 ELSE Power[Taken(s)] + f[s \ {Taken(s)}]
      /\ g[s] = IF s = {} THEN 0 ELSE Power[Taken(s)] + g[s \ {Taken(s)}]
  <2>1. s \in SUBSET S /\ s \in SUBSET T
    BY Zenon
  <2> QED
    BY Zenon, <2>1 DEF IsFold
<1>3. s # {} => s \ {Taken(s)} \in SUBSET s /\ s \ {Taken(s)} # s
  BY Zenon, TakenElement
<1>4. s # {} => f[s \ {Taken(s)}] = g[s \ {Taken(s)}]
  BY <1>1, <1>3
<1> QED
  BY Zenon, <1>1, <1>2, <1>4

\* The fold exists: on the smallest set without one it would be made of those of the
\* smaller sets.
LEMMA FoldExists ==
    ASSUME NEW S \in SUBSET Validators
    PROVE  \E f \in [SUBSET S -> Nat] : IsFold(f, S)
<1> DEFINE Folds(s) == \E f \in [SUBSET s -> Nat] : IsFold(f, s)
           Bad == {s \in SUBSET Validators : ~Folds(s)}
<1>1. Bad = {}
  <2> SUFFICES ASSUME Bad # {} PROVE FALSE
    BY Zenon
  <2>1. PICK s \in Bad : \A t \in SUBSET s : t \in Bad => t = s
    <3>1. Bad \in SUBSET SUBSET Validators
      BY Zenon
    <3> HIDE DEF Bad
    <3> QED
      BY Zenon, <3>1, SmallestSet
  <2>2. s \in SUBSET Validators /\ ~Folds(s) /\ \A t \in SUBSET s : t # s => Folds(t)
    <3> HIDE DEF Folds
    <3> QED
      BY Zenon, <2>1
  <2> HIDE DEF Bad
  <2> DEFINE fold == [t \in SUBSET s |-> CHOOSE f : f \in [SUBSET t -> Nat] /\ IsFold(f, t)]
  <2>3. ASSUME NEW t \in SUBSET s, t # s PROVE fold[t] \in [SUBSET t -> Nat] /\ IsFold(fold[t], t)
    BY Zenon, <2>2, <2>3
  <2> HIDE DEF fold
  <2> DEFINE rest(t) == t \ {Taken(t)}
             sum(t) == IF t = {} THEN 0 ELSE Power[Taken(t)] + fold[rest(t)][rest(t)]
             f == [t \in SUBSET s |-> sum(t)]
  <2>4. ASSUME NEW t \in SUBSET s, t # {}
        PROVE  /\ Power[Taken(t)] \in Nat /\ rest(t) \in SUBSET t /\ rest(t) \in SUBSET s /\ rest(t) # s
               /\ fold[rest(t)] \in [SUBSET rest(t) -> Nat] /\ IsFold(fold[rest(t)], rest(t))
    <3>1. t \in SUBSET Validators
      BY Zenon, <2>2
    <3>2. Taken(t) \in t /\ Power[Taken(t)] \in Nat
      BY Zenon, <2>4, <3>1, TakenElement
    <3>3. rest(t) \in SUBSET t /\ rest(t) \in SUBSET s /\ rest(t) # s
      BY Zenon, <3>2
    <3> HIDE DEF rest
    <3> QED
      BY Zenon, <2>3, <3>2, <3>3
  <2>5. f \in [SUBSET s -> Nat]
    <3>1. ASSUME NEW t \in SUBSET s PROVE sum(t) \in Nat
      <4> HIDE DEF rest
      <4>1. CASE t = {}
        BY Zenon, <4>1
      <4>2. CASE t # {}
        <5>1. Power[Taken(t)] \in Nat /\ fold[rest(t)] \in [SUBSET rest(t) -> Nat]
          BY Zenon, <2>4, <4>2
        <5>2. fold[rest(t)][rest(t)] \in Nat
          BY Zenon, <5>1
        <5> QED
          BY <4>2, <5>1, <5>2
      <4> QED
        BY Zenon, <4>1, <4>2
    <3> HIDE DEF sum
    <3> QED
      BY Zenon, <3>1
  <2>6. ASSUME NEW t \in SUBSET s, t # s PROVE f[t] = fold[t][t]
    <3>1. fold[t][t] = IF t = {} THEN 0 ELSE Power[Taken(t)] + fold[t][rest(t)]
      <4>1. IsFold(fold[t], t) /\ t \in SUBSET t
        BY Zenon, <2>3, <2>6
      <4> QED
        BY Zenon, <4>1 DEF IsFold
    <3>2. t # {} => fold[t][rest(t)] = fold[rest(t)][rest(t)]
      <4> SUFFICES ASSUME t # {} PROVE fold[t][rest(t)] = fold[rest(t)][rest(t)]
        BY Zenon
      <4>1. t \in SUBSET Validators /\ IsFold(fold[t], t)
        BY Zenon, <2>2, <2>3, <2>6
      <4>2. rest(t) \in SUBSET t /\ IsFold(fold[rest(t)], rest(t))
        BY Zenon, <2>4
      <4> HIDE DEF rest, f
      <4>3. \A g, h : IsFold(g, t) /\ IsFold(h, rest(t)) => \A u \in SUBSET rest(t) : g[u] = h[u]
        BY <4>1, <4>2, FoldUnique
      <4>4. \A u \in SUBSET rest(t) : fold[t][u] = fold[rest(t)][u]
        BY Zenon, <4>1, <4>2, <4>3
      <4> QED
        BY Zenon, <4>4
    <3> HIDE DEF rest
    <3> QED
      BY Zenon, <3>1, <3>2
  <2>7. ASSUME NEW t \in SUBSET s PROVE f[t] = IF t = {} THEN 0 ELSE Power[Taken(t)] + f[rest(t)]
    <3>1. f[t] = sum(t)
      BY Zenon
    <3> HIDE DEF rest, f
    <3>2. t # {} => f[rest(t)] = fold[rest(t)][rest(t)]
      BY Zenon, <2>4, <2>6
    <3> QED
      BY Zenon, <3>1, <3>2
  <2>8. IsFold(f, s)
    <3>1. f = [t \in SUBSET s |-> f[t]]
      BY Zenon
    <3> HIDE DEF f
    <3> QED
      BY Zenon, <2>7, <3>1 DEF IsFold
  <2> HIDE DEF f
  <2> QED
    BY Zenon, <2>2, <2>5, <2>8
<1> QED
  BY Zenon, <1>1

\* PowerOf is one fold over the whole validator set.
LEMMA PowerFun ==
    \E f \in [SUBSET Validators -> Nat] :
        IsFold(f, Validators) /\ \A S \in SUBSET Validators : PowerOf(S) = f[S]
<1>1. PICK f \in [SUBSET Validators -> Nat] : IsFold(f, Validators)
  BY Zenon, FoldExists
<1>2. ASSUME NEW S \in SUBSET Validators PROVE PowerOf(S) = f[S]
  <2> DEFINE g == CHOOSE g : IsFold(g, S)
  <2>1. IsFold(g, S)
    BY Zenon, FoldExists
  <2>2. PowerOf(S) = g[S]
    BY Zenon, PowerIsFold
  <2> HIDE DEF g
  <2> QED
    BY <1>1, <2>1, <2>2, FoldUnique
<1> QED
  BY Zenon, <1>1, <1>2

LEMMA PowerType == \A S \in SUBSET Validators : PowerOf(S) \in Nat
BY Zenon, PowerFun

LEMMA PowerOfNone == PowerOf({}) = 0
<1>1. PICK f : IsFold(f, Validators) /\ \A S \in SUBSET Validators : PowerOf(S) = f[S]
  BY Zenon, PowerFun
<1>2. f[{}] = 0
  BY Zenon, <1>1 DEF IsFold
<1> QED
  BY Zenon, <1>1, <1>2

\* The power of a set is that of any member and that of the others.
LEMMA PowerSplit ==
    ASSUME NEW S \in SUBSET Validators, NEW v \in S
    PROVE  PowerOf(S) = Power[v] + PowerOf(S \ {v})
<1> DEFINE Bad == {s \in SUBSET Validators : \E x \in s : PowerOf(s) # Power[x] + PowerOf(s \ {x})}
<1> SUFFICES ASSUME Bad # {} PROVE FALSE
  BY Zenon
<1>0. /\ Bad \in SUBSET SUBSET Validators
      /\ \A t \in SUBSET Validators : t \notin Bad => \A x \in t : PowerOf(t) = Power[x] + PowerOf(t \ {x})
  BY Zenon
<1>1. PICK s \in Bad : \A t \in SUBSET s : t \in Bad => t = s
  <2> HIDE DEF Bad
  <2> QED
    BY Zenon, <1>0, SmallestSet
<1>2. PICK x \in s : PowerOf(s) # Power[x] + PowerOf(s \ {x})
  BY Zenon
<1> DEFINE y == Taken(s)
<1>3. PICK f : IsFold(f, Validators) /\ \A S_1 \in SUBSET Validators : PowerOf(S_1) = f[S_1]
  BY Zenon, PowerFun
<1>4. y \in s /\ s \ {y} # s /\ s \ {x} # s
  BY Zenon, TakenElement
<1>5. PowerOf(s) = Power[y] + PowerOf(s \ {y})
  <2>1. f[s] = Power[Taken(s)] + f[s \ {Taken(s)}]
    BY Zenon, <1>3, <1>4 DEF IsFold
  <2> QED
    BY Zenon, <1>3, <2>1
<1> HIDE DEF y, Bad
<1>6. x # y
  BY Zenon, <1>2, <1>5
<1>7. s \ {x} \in SUBSET Validators /\ s \ {x} \notin Bad /\ s \ {y} \in SUBSET Validators /\ s \ {y} \notin Bad
  BY <1>0, <1>1, <1>4
<1>8. /\ PowerOf(s \ {x}) = Power[y] + PowerOf((s \ {x}) \ {y})
      /\ PowerOf(s \ {y}) = Power[x] + PowerOf((s \ {y}) \ {x})
  BY Zenon, <1>0, <1>4, <1>6, <1>7
<1>9. (s \ {x}) \ {y} = (s \ {y}) \ {x} /\ (s \ {x}) \ {y} \in SUBSET Validators
  BY Zenon, <1>0
<1>10. PowerOf((s \ {x}) \ {y}) \in Nat /\ Power[x] \in Nat /\ Power[y] \in Nat
  BY Zenon, <1>0, <1>4, <1>9, PowerType, PowerAssumption
<1> QED
  BY <1>2, <1>5, <1>8, <1>9, <1>10

LEMMA PowerAdd ==
    ASSUME NEW S \in SUBSET Validators, NEW v \in Validators \ S
    PROVE  PowerOf(S \cup {v}) = PowerOf(S) + Power[v]
<1>1. (S \cup {v}) \ {v} = S /\ S \cup {v} \in SUBSET Validators
  BY Zenon
<1>2. PowerOf(S) \in Nat /\ Power[v] \in Nat
  BY Zenon, PowerType, PowerAssumption
<1>3. PowerOf(S \cup {v}) = Power[v] + PowerOf(S)
  BY Zenon, <1>1, PowerSplit
<1> QED
  BY <1>2, <1>3

\* Power is additive over disjoint sets.
LEMMA PowerUnion ==
    ASSUME NEW S \in SUBSET Validators, NEW T \in SUBSET Validators, S \cap T = {}
    PROVE  PowerOf(S \cup T) = PowerOf(S) + PowerOf(T)
<1> DEFINE Bad == {t \in SUBSET T : PowerOf(S \cup t) # PowerOf(S) + PowerOf(t)}
<1> SUFFICES ASSUME Bad # {} PROVE FALSE
  BY Zenon
<1>0. /\ Bad \in SUBSET SUBSET Validators /\ \A t \in Bad : t \in SUBSET T
      /\ \A t \in SUBSET T : t \notin Bad <=> PowerOf(S \cup t) = PowerOf(S) + PowerOf(t)
  BY Zenon
<1> HIDE DEF Bad
<1>1. PICK t \in Bad : \A u \in SUBSET t : u \in Bad => u = t
  BY Zenon, <1>0, SmallestSet
<1>2. PowerOf(S) \in Nat /\ \A u \in SUBSET Validators : PowerOf(u) \in Nat
  BY Zenon, PowerType
<1>3. t # {}
  <2> SUFFICES ASSUME t = {} PROVE FALSE
    BY Zenon
  <2>1. S \cup t = S
    BY Zenon
  <2> QED
    BY <1>0, <1>2, <2>1, PowerOfNone
<1>4. PICK v \in t : TRUE
  BY Zenon, <1>3
<1>5. /\ t \ {v} \in SUBSET T /\ t \in SUBSET T /\ t \ {v} \notin Bad /\ v \in Validators
      /\ S \cup t \in SUBSET Validators /\ v \in S \cup t /\ (S \cup t) \ {v} = S \cup (t \ {v})
  BY <1>0, <1>1, <1>4
<1>6. PowerOf(S \cup (t \ {v})) = PowerOf(S) + PowerOf(t \ {v})
  BY Zenon, <1>0, <1>5
<1>7. PowerOf(S \cup t) = Power[v] + PowerOf(S \cup (t \ {v}))
  BY Zenon, <1>5, PowerSplit
<1>8. PowerOf(t) = Power[v] + PowerOf(t \ {v})
  BY Zenon, <1>5, PowerSplit
<1>9. PowerOf(t \ {v}) \in Nat /\ Power[v] \in Nat
  BY Zenon, <1>2, <1>5, PowerAssumption
<1>10. PowerOf(S \cup t) = PowerOf(S) + PowerOf(t)
  BY <1>2, <1>6, <1>7, <1>8, <1>9
<1> QED
  BY Zenon, <1>0, <1>5, <1>10

LEMMA PowerMonotone ==
    ASSUME NEW T \in SUBSET Validators, NEW S \in SUBSET T
    PROVE  PowerOf(S) <= PowerOf(T)
<1>1. S \cup (T \ S) = T /\ S \cap (T \ S) = {} /\ S \in SUBSET Validators /\ T \ S \in SUBSET Validators
  BY Zenon
<1>2. PowerOf(T) = PowerOf(S) + PowerOf(T \ S)
  BY Zenon, <1>1, PowerUnion
<1>3. PowerOf(S) \in Nat /\ PowerOf(T \ S) \in Nat
  BY Zenon, <1>1, PowerType
<1> QED
  BY <1>2, <1>3

LEMMA TotalPower ==
    /\ TotalVotingPower = PowerOf(Validators)
    /\ TotalVotingPower \in Nat
    /\ Quorum \in Nat /\ 0 < Quorum /\ 2 * TotalVotingPower < 3 * Quorum
    /\ \A S \in SUBSET Validators : PowerOf(S) \in 0 .. TotalVotingPower
<1>1. TotalVotingPower = PowerOf(Validators)
  <2>1. DOMAIN Power = Validators
    BY Zenon, PowerAssumption
  <2> QED
    BY Zenon, <2>1 DEF TotalVotingPower, SumFunction, PowerOf
<1>2. TotalVotingPower \in Nat
  BY Zenon, <1>1, PowerType
<1>3. \A t \in Nat : LET q == (t * 2) \div 3 + 1 IN q \in Nat /\ 0 < q /\ 2 * t < 3 * q
  OBVIOUS
<1>4. Quorum \in Nat /\ 0 < Quorum /\ 2 * TotalVotingPower < 3 * Quorum
  BY Zenon, <1>2, <1>3 DEF Quorum
<1>5. \A S \in SUBSET Validators : PowerOf(S) \in 0 .. TotalVotingPower
  BY <1>1, <1>2, PowerType, PowerMonotone
<1> QED
  BY Zenon, <1>1, <1>2, <1>4, <1>5

\* Two sets of validators that reach the quorum of types.VoteSet share a validator
\* outside any set with less than a third of the power: what TendermintVoting
\* assumes of its quorums holds for the sums VoteSet compares with its quorum.
THEOREM QuorumsIntersect ==
    ASSUME NEW Faulty \in SUBSET Validators, 3 * PowerOf(Faulty) < TotalVotingPower,
           NEW Q1 \in SUBSET Validators, NEW Q2 \in SUBSET Validators,
           PowerOf(Q1) >= Quorum, PowerOf(Q2) >= Quorum
    PROVE  \E v \in Validators \ Faulty : v \in Q1 /\ v \in Q2
<1> SUFFICES ASSUME Q1 \cap Q2 \subseteq Faulty PROVE FALSE
  BY Zenon
<1>1. /\ Q1 \cap Q2 \in SUBSET Validators /\ Q2 \ Q1 \in SUBSET Validators
      /\ Q1 \cup (Q2 \ Q1) \in SUBSET Validators
      /\ Q1 \cap (Q2 \ Q1) = {} /\ (Q1 \cap Q2) \cap (Q2 \ Q1) = {}
      /\ (Q1 \cap Q2) \cup (Q2 \ Q1) = Q2
  BY Zenon
<1>2. PowerOf(Q1 \cup (Q2 \ Q1)) = PowerOf(Q1) + PowerOf(Q2 \ Q1)
  BY Zenon, <1>1, PowerUnion
<1>3. PowerOf(Q2) = PowerOf(Q1 \cap Q2) + PowerOf(Q2 \ Q1)
  BY Zenon, <1>1, PowerUnion
<1>4. PowerOf(Q1 \cap Q2) <= PowerOf(Faulty)
  BY Zenon, PowerMonotone
<1>5. PowerOf(Q1 \cup (Q2 \ Q1)) <= TotalVotingPower
  BY <1>1, TotalPower
<1>6. /\ PowerOf(Q1) \in Nat /\ PowerOf(Q2) \in Nat /\ PowerOf(Q1 \cap Q2) \in Nat
      /\ PowerOf(Q2 \ Q1) \in Nat /\ PowerOf(Faulty) \in Nat
  BY Zenon, <1>1, PowerType
<1> QED
  BY <1>2, <1>3, <1>4, <1>5, <1>6, TotalPower

-----------------------------------------------------------------------------
(***************************************************************************)
(* types.VoteSet                                                           *)
(***************************************************************************)

\* A new set is sound and remembers nothing.
LEMMA NewSetOK ==
    /\ SetOK(NewVoteSet) /\ NewVoteSet.maj23 = None /\ Tracked(NewVoteSet) = {}
    /\ Claimed(NewVoteSet) = {} /\ HeardFrom(NewVoteSet) = {}
<1>1. NewVoteSet \in VoteSets
  BY TotalPower DEF NewVoteSet, VoteSets
<1>2. NewVoteSet.maj23 = None /\ Tracked(NewVoteSet) = {} /\ HeardFrom(NewVoteSet) = {} /\ NewVoteSet.sum = 0
  BY Zenon DEF NewVoteSet, Tracked, HeardFrom
<1>3. \A p \in Peers : NewVoteSet.peerMaj23s[p] = None
  BY Zenon DEF NewVoteSet
<1>4. Claimed(NewVoteSet) = {}
  BY Zenon, <1>3 DEF Claimed
<1> QED
  BY Zenon, <1>1, <1>2, <1>3, <1>4, PowerOfNone DEF SetOK, SumsOK, MajorityOK, SharedOK, ClaimsOK, BlocksOK

\* firstVote hears from v and leaves the counted votes alone.
LEMMA FirstVote ==
    ASSUME NEW vs, SetOK(vs), NEW v \in Validators, NEW b \in Values
    PROVE  LET kept == firstVote(vs, v, b)
           IN  /\ kept \in VoteSets
               /\ kept.votesByBlock = vs.votesByBlock /\ kept.maj23 = vs.maj23
               /\ kept.peerMaj23s = vs.peerMaj23s
               /\ HeardFrom(kept) = HeardFrom(vs) \cup {v}
               /\ kept.sum = PowerOf(HeardFrom(kept))
               /\ \A w \in Validators \ {v} : kept.votes[w] = vs.votes[w]
               /\ kept.votes[v] = IF vs.votes[v] = None \/ vs.maj23 = b THEN b ELSE vs.votes[v]
<1> DEFINE kept == firstVote(vs, v, b)
<1>1. /\ vs \in VoteSets /\ vs.votes \in [Validators -> Values \cup {None}] /\ vs.sum = PowerOf(HeardFrom(vs))
      /\ b # None
  BY Zenon, NilNoneAssumption DEF SetOK, SumsOK, VoteSets, Values
<1>2. /\ kept.votesByBlock = vs.votesByBlock /\ kept.maj23 = vs.maj23
      /\ kept.peerMaj23s = vs.peerMaj23s
      /\ \A w \in Validators \ {v} : kept.votes[w] = vs.votes[w]
      /\ kept.votes[v] = IF vs.votes[v] = None \/ vs.maj23 = b THEN b ELSE vs.votes[v]
      /\ kept.votes \in [Validators -> Values \cup {None}]
      /\ kept.sum = IF vs.votes[v] = None THEN vs.sum + Power[v] ELSE vs.sum
      /\ kept = [votes |-> kept.votes, sum |-> kept.sum, maj23 |-> vs.maj23,
                 votesByBlock |-> vs.votesByBlock, peerMaj23s |-> vs.peerMaj23s]
  BY Zenon, <1>1 DEF firstVote, VoteSets
<1> HIDE DEF kept
<1>3. HeardFrom(kept) = HeardFrom(vs) \cup {v}
  BY Zenon, <1>1, <1>2 DEF HeardFrom
<1>4. kept.sum = PowerOf(HeardFrom(kept))
  <2>1. CASE vs.votes[v] = None
    <3>1. v \in Validators \ HeardFrom(vs) /\ HeardFrom(vs) \in SUBSET Validators
      BY Zenon, <2>1 DEF HeardFrom
    <3> QED
      BY <1>1, <1>2, <1>3, <2>1, <3>1, PowerAdd
  <2>2. CASE vs.votes[v] # None
    <3>1. HeardFrom(kept) = HeardFrom(vs)
      BY Zenon, <1>3, <2>2 DEF HeardFrom
    <3> QED
      BY Zenon, <1>1, <1>2, <2>2, <3>1
  <2> QED
    BY Zenon, <2>1, <2>2
<1>5. kept.sum \in 0 .. TotalVotingPower
  <2>1. HeardFrom(kept) \in SUBSET Validators
    BY Zenon DEF HeardFrom
  <2> QED
    BY Zenon, <1>4, <2>1, TotalPower
<1>6. kept \in VoteSets
  BY Zenon, <1>1, <1>2, <1>5 DEF VoteSets
<1> QED
  BY Zenon, <1>2, <1>3, <1>4, <1>6 DEF kept

\* n is ks with v counted for b, old being what ks held for b.
Counts(ks, v, b, n, old) ==
    LET first == ks.maj23 = None /\ old.sum < Quorum /\ Quorum <= n.votesByBlock[b].sum
    IN  /\ n \in VoteSets /\ n.sum = ks.sum /\ n.peerMaj23s = ks.peerMaj23s
        /\ Tracked(n) = Tracked(ks) \cup {b}
        /\ n.votesByBlock[b].voters = old.voters \cup {v}
        /\ n.votesByBlock[b].peerMaj23 = old.peerMaj23
        /\ n.votesByBlock[b].sum = PowerOf(n.votesByBlock[b].voters)
        /\ n.votesByBlock[b].sum = old.sum + Power[v] /\ old.sum \in Nat
        /\ \A c \in Values \ {b} : n.votesByBlock[c] = ks.votesByBlock[c]
        /\ n.maj23 = IF first THEN b ELSE ks.maj23
        /\ \A w \in Validators :
              n.votes[w] = IF first /\ w \in n.votesByBlock[b].voters THEN b ELSE ks.votes[w]

LEMMA CountVote ==
    ASSUME NEW ks, ks \in VoteSets, NEW v \in Validators, NEW b \in Values,
           ~CountedFor(ks, v, b),
           \A c \in Tracked(ks) : ks.votesByBlock[c].sum = PowerOf(ks.votesByBlock[c].voters),
           NEW old, b \in Tracked(ks) => old = ks.votesByBlock[b],
           b \notin Tracked(ks) => old = newBlockVotes(FALSE)
    PROVE  Counts(ks, v, b, countVote(ks, v, b), old)
<1>0. PICK n : n = countVote(ks, v, b)
  BY Zenon
<1> DEFINE new == [old EXCEPT !.voters = @ \cup {v}, !.sum = @ + Power[v]]
           first == ks.maj23 = None /\ old.sum < Quorum /\ Quorum <= new.sum
<1>1. /\ ks.votesByBlock \in [Values -> blockVotes \cup {None}]
      /\ ks.votes \in [Validators -> Values \cup {None}] /\ ks.sum \in 0 .. TotalVotingPower
      /\ ks.maj23 \in Values \cup {None} /\ ks.peerMaj23s \in [Peers -> Values \cup {None}]
  BY Zenon DEF VoteSets
<1>2. n = [ks EXCEPT !.votesByBlock[b] = new, !.maj23 = IF first THEN b ELSE @,
                     !.votes = IF first THEN [w \in Validators |-> IF w \in new.voters THEN b ELSE @[w]] ELSE @]
  BY Zenon, <1>0 DEF countVote, Tracked
<1>3. /\ old \in [peerMaj23 : BOOLEAN, voters : SUBSET Validators, sum : Nat]
      /\ old.sum = PowerOf(old.voters) /\ v \notin old.voters
  <2>1. CASE b \in Tracked(ks)
    <3>1. old = ks.votesByBlock[b] /\ ks.votesByBlock[b] # None
      BY Zenon, <2>1 DEF Tracked
    <3>2. old \in blockVotes
      BY Zenon, <1>1, <3>1
    <3>3. old \in [peerMaj23 : BOOLEAN, voters : SUBSET Validators, sum : Nat]
      BY <3>2, TotalPower DEF blockVotes
    <3> QED
      BY Zenon, <2>1, <3>1, <3>3 DEF CountedFor
  <2>2. CASE b \notin Tracked(ks)
    <3>1. old = newBlockVotes(FALSE)
      BY Zenon, <2>2
    <3> QED
      BY Zenon, <3>1, PowerOfNone DEF newBlockVotes
  <2> QED
    BY Zenon, <2>1, <2>2
<1>4. PowerOf(old.voters \cup {v}) = PowerOf(old.voters) + Power[v] /\ PowerOf(old.voters) \in Nat
  BY Zenon, <1>3, PowerAdd, PowerType
<1>5. /\ new \in blockVotes /\ new # None
      /\ new.voters = old.voters \cup {v} /\ new.peerMaj23 = old.peerMaj23 /\ new.sum = old.sum + Power[v]
  <2>1. old.voters \cup {v} \in SUBSET Validators /\ old.peerMaj23 \in BOOLEAN
    BY Zenon, <1>3
  <2>2. old.sum + Power[v] \in 0 .. TotalVotingPower
    BY Zenon, <1>3, <1>4, <2>1, TotalPower
  <2>3. new = [peerMaj23 |-> old.peerMaj23, voters |-> old.voters \cup {v}, sum |-> old.sum + Power[v]]
    <3>1. new = [old EXCEPT !.voters = @ \cup {v}, !.sum = @ + Power[v]]
      BY Zenon
    <3> HIDE DEF new
    <3> QED
      BY Zenon, <1>3, <3>1
  <2> HIDE DEF new
  <2>4. new \in blockVotes
    BY Zenon, <2>1, <2>2, <2>3 DEF blockVotes
  <2> QED
    BY Zenon, <2>3, <2>4, NoneAssumption
<1> HIDE DEF new
<1>6. /\ n.votesByBlock = [ks.votesByBlock EXCEPT ![b] = new]
      /\ n.maj23 = IF first THEN b ELSE ks.maj23
      /\ n.votes = IF first THEN [w \in Validators |-> IF w \in new.voters THEN b ELSE ks.votes[w]] ELSE ks.votes
      /\ n.sum = ks.sum /\ n.peerMaj23s = ks.peerMaj23s
      /\ n = [votes |-> n.votes, sum |-> n.sum, maj23 |-> n.maj23,
              votesByBlock |-> n.votesByBlock, peerMaj23s |-> n.peerMaj23s]
  BY Zenon, <1>2 DEF VoteSets
<1>7. /\ n.votesByBlock[b] = new /\ \A c \in Values \ {b} : n.votesByBlock[c] = ks.votesByBlock[c]
      /\ n.votesByBlock \in [Values -> blockVotes \cup {None}]
  BY Zenon, <1>1, <1>5, <1>6
<1>8. Tracked(n) = Tracked(ks) \cup {b}
  BY Zenon, <1>5, <1>7 DEF Tracked
<1>9. /\ n.votes \in [Validators -> Values \cup {None}]
      /\ \A w \in Validators : n.votes[w] = IF first /\ w \in new.voters THEN b ELSE ks.votes[w]
      /\ n.maj23 \in Values \cup {None}
  BY <1>1, <1>6
<1>10. n \in VoteSets
  BY Zenon, <1>1, <1>6, <1>7, <1>9 DEF VoteSets
<1>11. /\ new.voters = old.voters \cup {v} /\ new.peerMaj23 = old.peerMaj23
       /\ new.sum = PowerOf(new.voters) /\ new.sum = old.sum + Power[v] /\ old.sum \in Nat
  BY Zenon, <1>3, <1>4, <1>5
<1>12. first <=> ks.maj23 = None /\ old.sum < Quorum /\ Quorum <= n.votesByBlock[b].sum
  BY Zenon, <1>7
<1> HIDE DEF first
<1> QED
  BY Zenon, <1>0, <1>6, <1>7, <1>8, <1>9, <1>10, <1>11, <1>12 DEF Counts

LEMMA AddVoteOK ==
    ASSUME NEW vs, SetOK(vs), NEW v \in Validators, NEW b \in Values, NEW result, result = AddVote(vs, v, b)
    PROVE  Added(vs, v, b, result)
<1> DEFINE n == result.set
           kept == firstVote(vs, v, b)
           conflicting == vs.votes[v] # None
           refused == conflicting /\ (b \notin Tracked(vs) \/ ~vs.votesByBlock[b].peerMaj23)
<1>1. /\ vs \in VoteSets /\ b # None
      /\ vs.votesByBlock \in [Values -> blockVotes \cup {None}]
      /\ vs.votes \in [Validators -> Values \cup {None}]
      /\ vs.peerMaj23s \in [Peers -> Values \cup {None}]
  BY Zenon, NilNoneAssumption DEF SetOK, VoteSets, Values
<1>2. getVote(vs, v, b) <=> vs.votes[v] = b \/ CountedFor(vs, v, b)
  BY Zenon DEF getVote, CountedFor, Tracked
<1>3. CASE getVote(vs, v, b)
  <2>1. n = vs /\ result.added = FALSE /\ result.conflicting = FALSE
    BY Zenon, <1>3 DEF AddVote
  <2>2. v \in HeardFrom(vs)
    BY Zenon, <1>1, <1>2, <1>3 DEF SetOK, SumsOK, CountedFor, HeardFrom
  <2>3. vs.maj23 = b \/ CountedFor(vs, v, b)
    BY Zenon, <1>2, <1>3, <2>2 DEF SetOK, SharedOK
  <2> QED
    BY Zenon, <2>1, <2>2, <2>3 DEF Added
<1>4. CASE ~getVote(vs, v, b)
  <2>1. /\ result = [set |-> IF refused THEN kept ELSE countVote(kept, v, b),
                     added |-> ~refused, conflicting |-> conflicting]
        /\ ~CountedFor(vs, v, b) /\ vs.votes[v] # b
    BY Zenon, <1>2, <1>4 DEF AddVote, addVerifiedVote, Tracked
  <2>1a. /\ n = IF refused THEN kept ELSE countVote(kept, v, b)
         /\ result.added = ~refused /\ result.conflicting = conflicting
    <3> HIDE DEF refused, conflicting, kept
    <3> QED
      BY <2>1
  <2>2. b \in Claimed(vs) => b \in Tracked(vs) /\ vs.votesByBlock[b].peerMaj23
    BY Zenon DEF Claimed, SetOK, ClaimsOK
  <2>3. /\ kept \in VoteSets
        /\ kept.votesByBlock = vs.votesByBlock /\ kept.maj23 = vs.maj23
        /\ kept.peerMaj23s = vs.peerMaj23s
        /\ HeardFrom(kept) = HeardFrom(vs) \cup {v}
        /\ kept.sum = PowerOf(HeardFrom(kept))
        /\ \A w \in Validators \ {v} : kept.votes[w] = vs.votes[w]
        /\ kept.votes[v] = IF vs.votes[v] = None \/ vs.maj23 = b THEN b ELSE vs.votes[v]
    BY FirstVote
  <2>4. /\ Tracked(kept) = Tracked(vs) /\ Claimed(kept) = Claimed(vs)
        /\ \A w, c : CountedFor(kept, w, c) <=> CountedFor(vs, w, c)
    BY Zenon, <2>3 DEF Tracked, Claimed, CountedFor
  <2> HIDE DEF kept
  <2>5. CASE refused
    <3>1. n = kept /\ result.added = FALSE /\ result.conflicting = TRUE
      <4> HIDE DEF refused, kept
      <4>1. n = kept /\ result.added = FALSE /\ result.conflicting = conflicting
        BY Zenon, <2>1a, <2>5
      <4> QED
        BY Zenon, <2>5, <4>1 DEF refused
    <3>2. v \in HeardFrom(vs) /\ HeardFrom(kept) = HeardFrom(vs)
      BY Zenon, <2>3, <2>5 DEF HeardFrom
    <3>3. SetOK(kept)
      <4>1. \A w \in HeardFrom(kept) : kept.votes[w] = kept.maj23 \/ CountedFor(kept, w, kept.votes[w])
        BY Zenon, <2>3, <2>4, <2>5, <3>2 DEF SetOK, SharedOK, HeardFrom
      <4>2. kept.maj23 # None => \A w \in kept.votesByBlock[kept.maj23].voters : kept.votes[w] = kept.maj23
        BY Zenon, <1>1, <2>1, <2>3 DEF SetOK, MajorityOK, SumsOK, CountedFor, HeardFrom
      <4> QED
        BY <2>3, <2>4, <3>2, <4>1, <4>2 DEF SetOK, SumsOK, MajorityOK, SharedOK, ClaimsOK, BlocksOK
    <3> QED
      <4>1. v \in HeardFrom(vs) => vs.votes[v] # None
        BY Zenon DEF HeardFrom
      <4>2. b \notin Claimed(vs) /\ vs.votes[v] \notin {None, b}
        BY Zenon, <2>1, <2>2, <2>5
      <4> QED
        BY Zenon, <2>3, <2>4, <3>1, <3>2, <3>3, <4>1, <4>2 DEF Added
  <2>6. CASE ~refused
    <3> DEFINE old == IF b \in Tracked(kept) THEN kept.votesByBlock[b] ELSE newBlockVotes(FALSE)
               first == kept.maj23 = None /\ old.sum < Quorum /\ Quorum <= n.votesByBlock[b].sum
    <3>1. n = countVote(kept, v, b) /\ result.added = TRUE /\ result.conflicting = conflicting
      <4> HIDE DEF refused, conflicting, kept
      <4> QED
        BY Zenon, <2>1a, <2>6
    <3>2. Counts(kept, v, b, n, old)
      <4>1. ~CountedFor(kept, v, b)
        BY Zenon, <2>1, <2>4
      <4>2. \A c \in Tracked(kept) : kept.votesByBlock[c].sum = PowerOf(kept.votesByBlock[c].voters)
        BY Zenon, <2>3, <2>4 DEF SetOK, SumsOK
      <4>3. /\ b \in Tracked(kept) => old = kept.votesByBlock[b]
            /\ b \notin Tracked(kept) => old = newBlockVotes(FALSE)
        BY Zenon
      <4> HIDE DEF n, old
      <4> QED
        BY Zenon, <2>3, <3>1, <4>1, <4>2, <4>3, CountVote
    <3>2a. /\ n \in VoteSets /\ n.sum = kept.sum /\ n.peerMaj23s = kept.peerMaj23s
           /\ Tracked(n) = Tracked(kept) \cup {b}
      BY Zenon, <3>2 DEF Counts
    <3>2b. /\ n.votesByBlock[b].voters = old.voters \cup {v}
           /\ n.votesByBlock[b].peerMaj23 = old.peerMaj23
           /\ n.votesByBlock[b].sum = PowerOf(n.votesByBlock[b].voters)
           /\ n.votesByBlock[b].sum = old.sum + Power[v] /\ old.sum \in Nat
           /\ \A c \in Values \ {b} : n.votesByBlock[c] = kept.votesByBlock[c]
      BY Zenon, <3>2 DEF Counts
    <3>2c. /\ n.maj23 = IF first THEN b ELSE kept.maj23
           /\ \A w \in Validators :
                 n.votes[w] = IF first /\ w \in n.votesByBlock[b].voters THEN b ELSE kept.votes[w]
      BY Zenon, <3>2 DEF Counts
    <3>3. /\ b \in Tracked(vs) => old = vs.votesByBlock[b]
          /\ b \notin Tracked(vs) => old.voters = {} /\ old.sum = 0 /\ old.peerMaj23 = FALSE
      BY Zenon, <2>3, <2>4 DEF newBlockVotes
    <3> HIDE DEF n, old
    <3>4. old.voters \subseteq HeardFrom(vs) /\ Power[v] \in Nat
      BY Zenon, <3>3, PowerAssumption DEF SetOK, SumsOK
    <3>5. HeardFrom(n) = HeardFrom(kept)
      BY <1>1, <2>3, <3>2b, <3>2c, <3>4 DEF HeardFrom
    <3>6. \A w \in Validators, c \in Values :
              CountedFor(n, w, c) <=> CountedFor(vs, w, c) \/ (w = v /\ c = b)
      BY <2>3, <2>4, <3>2a, <3>2b, <3>3 DEF CountedFor
    <3>7. ASSUME NEW c \in Tracked(n)
          PROVE  /\ n.votesByBlock[c].sum = PowerOf(n.votesByBlock[c].voters)
                 /\ n.votesByBlock[c].voters \subseteq HeardFrom(n)
                 /\ n.votesByBlock[c].sum >= Quorum => n.maj23 # None
      <4>1. CASE c = b
        <5>1. n.votesByBlock[b].voters \subseteq HeardFrom(n)
          BY Zenon, <2>3, <3>2b, <3>4, <3>5
        <5>2. vs.maj23 = None => old.sum < Quorum
          BY <3>2b, <3>3, TotalPower DEF SetOK, SumsOK
        <5>3. n.votesByBlock[b].sum >= Quorum => n.maj23 # None
          BY Zenon, <1>1, <2>3, <3>2b, <3>2c, <3>4, <5>2, TotalPower
        <5> QED
          BY Zenon, <3>2b, <4>1, <5>1, <5>3
      <4>2. CASE c # b
        <5>1. c \in Tracked(vs) /\ c \in Values /\ n.votesByBlock[c] = vs.votesByBlock[c]
          BY Zenon, <2>3, <2>4, <3>2a, <3>2b, <3>7, <4>2 DEF Tracked
        <5> QED
          BY Zenon, <1>1, <2>3, <3>2c, <3>5, <5>1 DEF SetOK, SumsOK
      <4> QED
        BY Zenon, <4>1, <4>2
    <3>8. ASSUME n.maj23 # None
          PROVE  /\ n.maj23 \in Tracked(n)
                 /\ n.votesByBlock[n.maj23].sum >= Quorum
                 /\ \A w \in n.votesByBlock[n.maj23].voters : n.votes[w] = n.maj23
      <4>0. \A c \in Tracked(n) : n.votesByBlock[c].voters \subseteq Validators
        BY Zenon, <3>7 DEF HeardFrom
      <4>1. CASE first
        BY Zenon, <3>2a, <3>2c, <4>0, <4>1
      <4>2. CASE ~first /\ n.maj23 # b
        <5>1. /\ n.maj23 = vs.maj23 /\ n.maj23 \in Tracked(vs)
              /\ n.votesByBlock[n.maj23] = vs.votesByBlock[n.maj23]
          BY Zenon, <2>3, <3>2b, <3>2c, <3>8, <4>2 DEF SetOK, MajorityOK, Tracked
        <5> QED
          <6>1. n.maj23 \in Tracked(n) /\ n.votesByBlock[n.maj23].sum >= Quorum
            BY Zenon, <2>4, <3>2a, <3>8, <5>1 DEF SetOK, MajorityOK
          <6>2. ASSUME NEW w \in n.votesByBlock[n.maj23].voters
                PROVE  n.votes[w] = n.maj23
            <7>1. w \in Validators /\ vs.votes[w] = n.maj23
              BY Zenon, <3>8, <4>0, <5>1, <6>1 DEF SetOK, MajorityOK
            <7>2. n.votes[w] = kept.votes[w]
              BY Zenon, <3>2c, <4>2, <7>1
            <7>3. kept.votes[w] = vs.votes[w]
              BY Zenon, <2>3, <3>8, <5>1, <7>1
            <7> QED
              BY Zenon, <7>1, <7>2, <7>3
          <6> QED
            BY Zenon, <6>1, <6>2
      <4>3. CASE ~first /\ n.maj23 = b
        <5>1. vs.maj23 = b /\ b \in Tracked(vs) /\ vs.votesByBlock[b].sum >= Quorum
              /\ \A w \in vs.votesByBlock[b].voters : vs.votes[w] = b
          BY Zenon, <2>3, <3>2c, <3>8, <4>3 DEF SetOK, MajorityOK
        <5>2. n.votesByBlock[b].sum >= Quorum
          BY <3>2b, <3>3, <3>4, <5>1, TotalPower
        <5> QED
          <6>1. b \in Tracked(n)
            BY Zenon, <3>2a
          <6>2. ASSUME NEW w \in n.votesByBlock[b].voters
                PROVE  n.votes[w] = b
            <7>1. w \in Validators /\ (w = v \/ w \in vs.votesByBlock[b].voters)
              BY Zenon, <3>2b, <3>3, <4>0, <5>1, <6>1
            <7>2. kept.votes[w] = b
              BY Zenon, <2>3, <5>1, <7>1
            <7> QED
              BY Zenon, <3>2c, <7>1, <7>2
          <6> QED
            BY Zenon, <4>3, <5>2, <6>1, <6>2
      <4> QED
        BY Zenon, <4>1, <4>2, <4>3
    <3>9. ASSUME NEW w \in HeardFrom(n)
          PROVE  n.votes[w] = n.maj23 \/ CountedFor(n, w, n.votes[w])
      <4>1. w \in Validators /\ (w = v \/ w \in HeardFrom(vs)) /\ vs.votes[w] \in Values \cup {None}
        BY Zenon, <1>1, <2>3, <3>5 DEF HeardFrom
      <4>2. w \in HeardFrom(vs) => vs.votes[w] = vs.maj23 \/ CountedFor(vs, w, vs.votes[w])
        BY Zenon DEF SetOK, SharedOK
      <4>3. w \in HeardFrom(vs) <=> vs.votes[w] # None
        BY Zenon, <4>1 DEF HeardFrom
      <4>4. n.votes[w] = kept.votes[w] \/ n.votes[w] = n.maj23
        BY Zenon, <3>2c, <4>1
      <4>5. kept.votes[w] = vs.votes[w] \/ (w = v /\ kept.votes[w] = b)
        BY Zenon, <2>3, <4>1
      <4>6. CASE w = v /\ n.votes[w] = b
        BY Zenon, <3>6, <4>6
      <4>7. CASE n.votes[w] = vs.votes[w] /\ w \in HeardFrom(vs)
        <5>1. vs.votes[w] = vs.maj23 => n.maj23 = vs.maj23
          BY Zenon, <2>3, <3>2c, <4>3, <4>7
        <5>2. CountedFor(vs, w, vs.votes[w]) => CountedFor(n, w, vs.votes[w])
          BY Zenon, <3>6, <4>1, <4>3, <4>7
        <5> QED
          BY Zenon, <4>2, <4>7, <5>1, <5>2
      <4>8. w \notin HeardFrom(vs) => w = v /\ kept.votes[w] = b
        BY Zenon, <2>3, <4>1, <4>3
      <4> QED
        BY Zenon, <4>4, <4>5, <4>6, <4>7, <4>8
    <3>10. ASSUME NEW p \in Peers, n.peerMaj23s[p] # None
           PROVE  n.peerMaj23s[p] \in Tracked(n) /\ n.votesByBlock[n.peerMaj23s[p]].peerMaj23
      <4>1. n.peerMaj23s[p] \in Tracked(vs) /\ vs.votesByBlock[n.peerMaj23s[p]].peerMaj23
        BY Zenon, <2>3, <3>2a, <3>10 DEF SetOK, ClaimsOK
      <4> QED
        BY <2>3, <2>4, <3>2a, <3>2b, <3>3, <4>1 DEF Tracked
    <3>11. ASSUME NEW c \in Tracked(n)
           PROVE  IF n.votesByBlock[c].peerMaj23 THEN c \in Claimed(n)
                  ELSE /\ n.votesByBlock[c].voters # {}
                       /\ \A d \in Tracked(n) \ {c} :
                             ~n.votesByBlock[d].peerMaj23 => n.votesByBlock[c].voters \cap n.votesByBlock[d].voters = {}
      <4>1. Claimed(n) = Claimed(vs)
        BY <2>3, <3>2a DEF Claimed
      <4>2. \A d \in Tracked(n) \ {b} : d \in Tracked(vs) /\ n.votesByBlock[d] = vs.votesByBlock[d]
        BY Zenon, <2>3, <2>4, <3>2a, <3>2b DEF Tracked
      <4>3. ~n.votesByBlock[b].peerMaj23 => v \notin HeardFrom(vs)
        BY Zenon, <2>6, <3>2b, <3>3 DEF HeardFrom
      <4>4. CASE c = b
        <5>1. ~n.votesByBlock[b].peerMaj23 =>
                  \A d \in Tracked(n) \ {b} : ~n.votesByBlock[d].peerMaj23 =>
                      n.votesByBlock[b].voters \cap n.votesByBlock[d].voters = {}
          <6> SUFFICES ASSUME ~n.votesByBlock[b].peerMaj23, NEW d \in Tracked(n) \ {b}, ~n.votesByBlock[d].peerMaj23,
                              NEW w \in n.votesByBlock[b].voters, w \in n.votesByBlock[d].voters
                       PROVE  FALSE
            BY Zenon
          <6>1. d \in Tracked(vs) /\ n.votesByBlock[d] = vs.votesByBlock[d] /\ v \notin HeardFrom(vs)
            BY Zenon, <4>2, <4>3
          <6>2. w \in HeardFrom(vs)
            BY Zenon, <6>1 DEF SetOK, SumsOK
          <6>3. w \in old.voters /\ b \in Tracked(vs) /\ old = vs.votesByBlock[b]
            BY Zenon, <3>2b, <3>3, <6>1, <6>2
          <6> QED
            BY Zenon, <3>2b, <6>1, <6>3 DEF SetOK, BlocksOK
        <5>2. n.votesByBlock[b].peerMaj23 => b \in Claimed(vs)
          BY Zenon, <3>2b, <3>3 DEF SetOK, BlocksOK
        <5> QED
          BY Zenon, <3>2b, <4>1, <4>4, <5>1, <5>2
      <4>5. CASE c # b
        <5>1. c \in Tracked(vs) /\ n.votesByBlock[c] = vs.votesByBlock[c]
          BY Zenon, <4>2, <4>5
        <5>2. ~n.votesByBlock[b].peerMaj23 /\ ~n.votesByBlock[c].peerMaj23 =>
                  n.votesByBlock[c].voters \cap n.votesByBlock[b].voters = {}
          <6> SUFFICES ASSUME ~n.votesByBlock[b].peerMaj23, ~n.votesByBlock[c].peerMaj23,
                              NEW w \in n.votesByBlock[b].voters, w \in n.votesByBlock[c].voters
                       PROVE  FALSE
            BY Zenon
          <6>2. w \in HeardFrom(vs) /\ v \notin HeardFrom(vs)
            BY Zenon, <4>3, <5>1 DEF SetOK, SumsOK
          <6>3. w \in old.voters /\ b \in Tracked(vs) /\ old = vs.votesByBlock[b]
            BY Zenon, <3>2b, <3>3, <6>2
          <6> QED
            BY Zenon, <3>2b, <4>5, <5>1, <6>3 DEF SetOK, BlocksOK
        <5> QED
          BY Zenon, <4>1, <4>2, <4>5, <5>1, <5>2 DEF SetOK, BlocksOK
      <4> QED
        BY Zenon, <4>4, <4>5
    <3>12. SetOK(n)
      <4>1. n.sum = PowerOf(HeardFrom(n))
        BY Zenon, <2>3, <3>2a, <3>5
      <4> QED
        BY Zenon, <3>2a, <3>7, <3>8, <3>9, <3>10, <3>11, <4>1 DEF SetOK, SumsOK, MajorityOK, SharedOK, ClaimsOK, BlocksOK
    <3>13. vs.maj23 # None => n.maj23 = vs.maj23
      BY Zenon, <2>3, <3>2c
    <3>14. /\ n.peerMaj23s = vs.peerMaj23s /\ HeardFrom(n) = HeardFrom(vs) \cup {v}
           /\ CountedFor(n, v, b) /\ (result.conflicting => vs.votes[v] \notin {None, b})
           /\ result.added \in BOOLEAN /\ result.conflicting \in BOOLEAN
           /\ (v \in HeardFrom(vs) => result.conflicting)
      BY Zenon, <2>1, <2>3, <3>1, <3>2a, <3>5, <3>6 DEF HeardFrom
    <3> QED
      BY Zenon, <3>1, <3>6, <3>12, <3>13, <3>14 DEF n, Added
  <2> QED
    BY Zenon, <2>5, <2>6
<1> QED
  BY Zenon, <1>3, <1>4

\* A claim changes no vote, no sum and no majority.
LEMMA SetPeerMaj23OK ==
    ASSUME NEW vs, SetOK(vs), NEW p \in Peers, NEW b \in Values,
           NEW n, n = SetPeerMaj23(vs, p, b)
    PROVE  /\ SetOK(n) /\ n.maj23 = vs.maj23 /\ HeardFrom(n) = HeardFrom(vs)
           /\ n.sum = vs.sum /\ n.votes = vs.votes
           /\ \A w, c : CountedFor(n, w, c) <=> CountedFor(vs, w, c)
<1>1. CASE vs.peerMaj23s[p] # None
  BY Zenon, <1>1 DEF SetPeerMaj23
<1>2. CASE vs.peerMaj23s[p] = None
  <2> DEFINE old == vs.votesByBlock[b]
             new == IF old = None THEN newBlockVotes(TRUE) ELSE [old EXCEPT !.peerMaj23 = TRUE]
  <2>1. /\ vs \in VoteSets /\ b # None
        /\ vs.votesByBlock \in [Values -> blockVotes \cup {None}]
        /\ vs.peerMaj23s \in [Peers -> Values \cup {None}]
    BY Zenon, NilNoneAssumption DEF SetOK, VoteSets, Values
  <2>2. /\ n.votes = vs.votes /\ n.sum = vs.sum /\ n.maj23 = vs.maj23
        /\ n.peerMaj23s = [vs.peerMaj23s EXCEPT ![p] = b]
        /\ n.votesByBlock = [vs.votesByBlock EXCEPT ![b] = new]
        /\ n = [votes |-> n.votes, sum |-> n.sum, maj23 |-> n.maj23,
                votesByBlock |-> n.votesByBlock, peerMaj23s |-> n.peerMaj23s]
    BY Zenon, <1>2, <2>1 DEF SetPeerMaj23, VoteSets
  <2>3. /\ new \in blockVotes /\ new # None /\ new.peerMaj23 = TRUE
        /\ b \in Tracked(vs) => new.voters = old.voters /\ new.sum = old.sum
        /\ b \notin Tracked(vs) => new.voters = {} /\ new.sum = 0
    <3>1. CASE old = None
      <4>1. new = newBlockVotes(TRUE) /\ b \notin Tracked(vs)
        BY Zenon, <3>1 DEF Tracked
      <4> HIDE DEF new
      <4>2. new \in blockVotes
        BY <4>1, TotalPower DEF newBlockVotes, blockVotes
      <4> QED
        BY Zenon, <4>1, <4>2, NoneAssumption DEF newBlockVotes
    <3>2. CASE old # None
      <4>1. new = [old EXCEPT !.peerMaj23 = TRUE] /\ b \in Tracked(vs) /\ old \in blockVotes
        BY Zenon, <2>1, <3>2 DEF Tracked
      <4> HIDE DEF new, old
      <4>2. new \in blockVotes /\ new.voters = old.voters /\ new.sum = old.sum /\ new.peerMaj23 = TRUE
        BY Zenon, <4>1 DEF blockVotes
      <4> QED
        BY Zenon, <4>1, <4>2, NoneAssumption
    <3> QED
      BY Zenon, <3>1, <3>2
  <2>4. /\ n.votesByBlock[b] = new /\ \A c \in Values \ {b} : n.votesByBlock[c] = vs.votesByBlock[c]
        /\ n.peerMaj23s[p] = b /\ \A q \in Peers \ {p} : n.peerMaj23s[q] = vs.peerMaj23s[q]
    BY Zenon, <2>1, <2>2
  <2> HIDE DEF new
  <2>5. n \in VoteSets
    <3>1. n.votesByBlock \in [Values -> blockVotes \cup {None}] /\ n.peerMaj23s \in [Peers -> Values \cup {None}]
      BY <2>1, <2>2, <2>3
    <3>2. /\ vs.votes \in [Validators -> Values \cup {None}] /\ vs.sum \in 0 .. TotalVotingPower
          /\ vs.maj23 \in Values \cup {None}
      BY Zenon, <2>1 DEF VoteSets
    <3> QED
      BY Zenon, <2>2, <3>1, <3>2 DEF VoteSets
  <2>6. Tracked(n) = Tracked(vs) \cup {b} /\ HeardFrom(n) = HeardFrom(vs)
    BY <2>2, <2>3, <2>4 DEF Tracked, HeardFrom
  <2>7. \A w, c : CountedFor(n, w, c) <=> CountedFor(vs, w, c)
    BY Zenon, <2>3, <2>4, <2>6 DEF CountedFor, Tracked
  <2>8. Claimed(n) = Claimed(vs) \cup {b}
    BY <1>2, <2>1, <2>4 DEF Claimed
  <2>9. \A c \in Tracked(n) \ {b} : c \in Tracked(vs) /\ c \in Values /\ n.votesByBlock[c] = vs.votesByBlock[c]
    BY Zenon, <2>4, <2>6 DEF Tracked
  <2>10. \A c \in Tracked(n) :
            /\ n.votesByBlock[c].sum = PowerOf(n.votesByBlock[c].voters)
            /\ n.votesByBlock[c].voters \subseteq HeardFrom(n)
            /\ n.votesByBlock[c].sum >= Quorum => n.maj23 # None
    <3>1. /\ new.sum = PowerOf(new.voters) /\ new.voters \subseteq HeardFrom(n)
          /\ new.sum >= Quorum => n.maj23 # None
      <4>1. CASE b \in Tracked(vs)
        <5>1. old.sum = PowerOf(old.voters) /\ old.voters \subseteq HeardFrom(vs) /\ (old.sum >= Quorum => vs.maj23 # None)
          BY Zenon, <4>1 DEF SetOK, SumsOK
        <5> HIDE DEF old
        <5> QED
          BY Zenon, <2>2, <2>3, <2>6, <4>1, <5>1
      <4>2. CASE b \notin Tracked(vs)
        <5>1. new.voters = {} /\ new.sum = 0
          BY Zenon, <2>3, <4>2
        <5>2. ~(0 >= Quorum)
          BY TotalPower
        <5> QED
          BY Zenon, <5>1, <5>2, PowerOfNone
      <4> QED
        BY Zenon, <4>1, <4>2
    <3> QED
      BY <2>2, <2>4, <2>6, <2>9, <3>1 DEF SetOK, SumsOK
  <2>11. n.maj23 # None => /\ n.maj23 \in Tracked(n)
                           /\ n.votesByBlock[n.maj23].sum >= Quorum
                           /\ \A v \in n.votesByBlock[n.maj23].voters : n.votes[v] = n.maj23
    BY <2>2, <2>3, <2>4, <2>6, <2>9 DEF SetOK, MajorityOK
  <2>12. \A v \in HeardFrom(n) : n.votes[v] = n.maj23 \/ CountedFor(n, v, n.votes[v])
    BY Zenon, <2>2, <2>6, <2>7 DEF SetOK, SharedOK
  <2>13. \A q \in Peers : n.peerMaj23s[q] # None =>
            n.peerMaj23s[q] \in Tracked(n) /\ n.votesByBlock[n.peerMaj23s[q]].peerMaj23
    BY <2>3, <2>4, <2>6, <2>9 DEF SetOK, ClaimsOK
  <2>14. \A c \in Tracked(n) :
            IF n.votesByBlock[c].peerMaj23 THEN c \in Claimed(n)
            ELSE /\ n.votesByBlock[c].voters # {}
                 /\ \A d \in Tracked(n) \ {c} :
                       ~n.votesByBlock[d].peerMaj23 => n.votesByBlock[c].voters \cap n.votesByBlock[d].voters = {}
    <3> SUFFICES ASSUME NEW c \in Tracked(n) \ {b}
                 PROVE  IF n.votesByBlock[c].peerMaj23 THEN c \in Claimed(vs)
                        ELSE /\ n.votesByBlock[c].voters # {}
                             /\ \A d \in Tracked(n) \ {c, b} :
                                   ~n.votesByBlock[d].peerMaj23 => n.votesByBlock[c].voters \cap n.votesByBlock[d].voters = {}
      BY <2>3, <2>4, <2>8
    <3> QED
      BY <2>9 DEF SetOK, BlocksOK
  <2> QED
    <3>1. n.sum = PowerOf(HeardFrom(n))
      BY Zenon, <2>2, <2>6 DEF SetOK, SumsOK
    <3> QED
      BY Zenon, <2>2, <2>5, <2>6, <2>7, <2>10, <2>11, <2>12, <2>13, <2>14, <3>1 DEF SetOK, SumsOK, MajorityOK, SharedOK, ClaimsOK, BlocksOK
<1> QED
  BY Zenon, <1>1, <1>2

-----------------------------------------------------------------------------
(***************************************************************************)
(* HeightVoteSet                                                           *)
(***************************************************************************)

LEMMA RoundsAreInts ==
    /\ TrackableRounds \subseteq Int /\ 0 .. MaxRound \subseteq TrackableRounds
    /\ 0 .. MaxRound + 1 \subseteq TrackableRounds /\ 0 \in TrackableRounds
BY MaxRoundAssumption DEF TrackableRounds

LEMMA NewRoundVoteSet ==
    /\ RoundVoteSet \in RoundVoteSets /\ RoundVoteSet # None
    /\ \A t \in VoteTypes : RoundVoteSet[t] = NewVoteSet
<1>1. NewVoteSet \in VoteSets
  BY Zenon, NewSetOK DEF SetOK
<1>2. RoundVoteSet \in RoundVoteSets
  BY Zenon, <1>1 DEF RoundVoteSet, RoundVoteSets
<1> QED
  BY Zenon, <1>2, NoRoundAssumption DEF RoundVoteSet

\* A set that is there has the majority it holds.
LEMMA MajorityOf ==
    ASSUME NEW h, VotesOK(h), NEW t \in VoteTypes, NEW r \in Int
    PROVE  /\ Majority(h, t, r) \in Values \cup {None}
           /\ r \in TrackableRounds /\ h.roundVoteSets[r] # None =>
                 /\ getVoteSet(h, r, t) = h.roundVoteSets[r][t] /\ getVoteSet(h, r, t) # None
                 /\ Majority(h, t, r) = h.roundVoteSets[r][t].maj23
           /\ Majority(h, t, r) # None => r \in TrackableRounds /\ h.roundVoteSets[r] # None
<1>1. CASE r \in TrackableRounds /\ h.roundVoteSets[r] # None
  <2>1. /\ getVoteSet(h, r, t) = h.roundVoteSets[r][t] /\ SetOK(h.roundVoteSets[r][t])
    BY Zenon, <1>1 DEF getVoteSet, VotesOK
  <2>2. h.roundVoteSets[r][t] \in VoteSets
    BY Zenon, <2>1 DEF SetOK
  <2>3. h.roundVoteSets[r][t].maj23 \in Values \cup {None}
    BY Zenon, <2>2 DEF VoteSets
  <2> QED
    BY Zenon, <1>1, <2>1, <2>2, <2>3, NoneAssumption DEF Majority, TwoThirdsMajority
<1>2. CASE ~(r \in TrackableRounds /\ h.roundVoteSets[r] # None)
  BY Zenon, <1>2 DEF getVoteSet, Majority, TwoThirdsMajority
<1> QED
  BY Zenon, <1>1, <1>2

\* A fresh height has no votes and no majorities.
LEMMA NewVotesOK ==
    /\ VotesOK(NewHeightVoteSet) /\ NewHeightVoteSet.round = 0
    /\ \A t \in VoteTypes, r \in TrackableRounds, v \in Validators :
          /\ ~Heard(NewHeightVoteSet, t, r, v)
          /\ \A b \in Values : ~Voted(NewHeightVoteSet, t, r, v, b)
    /\ \A t \in VoteTypes, r \in Int : Majority(NewHeightVoteSet, t, r) = None
<1> DEFINE h == NewHeightVoteSet
<1>1. /\ h.round = 0 /\ \A r \in TrackableRounds : h.roundVoteSets[r] = IF r = 0 THEN RoundVoteSet ELSE None
      /\ \A p \in Peers : h.peerCatchupRounds[p] = <<>>
  BY Zenon DEF NewHeightVoteSet
<1>2. h \in HeightVoteSets
  <2>1. \A r \in TrackableRounds : (IF r = 0 THEN RoundVoteSet ELSE None) \in RoundVoteSets \cup {None}
    BY Zenon, NewRoundVoteSet
  <2>2. 0 \in 0 .. MaxRound + 1 /\ <<>> \in Seq(0 .. MaxRound)
    BY MaxRoundAssumption
  <2> QED
    BY Zenon, <2>1, <2>2 DEF NewHeightVoteSet, HeightVoteSets
<1> HIDE DEF h
<1>3. \A r \in TrackableRounds, t \in VoteTypes : h.roundVoteSets[r] # None => h.roundVoteSets[r][t] = NewVoteSet
  BY Zenon, <1>1, NewRoundVoteSet
<1>4. VotesOK(h)
  <2>1. \A r \in 0 .. h.round : h.roundVoteSets[r] # None
    BY <1>1, NewRoundVoteSet, RoundsAreInts
  <2>2. \A r \in h.round + 1 .. MaxRound + 1 : h.roundVoteSets[r] = None
    BY <1>1, RoundsAreInts
  <2>3. \A p \in Peers : Len(h.peerCatchupRounds[p]) <= MaxCatchup
    BY <1>1, MaxRoundAssumption
  <2> QED
    BY Zenon, <1>2, <1>3, <2>1, <2>2, <2>3, NewSetOK DEF VotesOK
<1>5. \A t \in VoteTypes, r \in Int : Majority(h, t, r) = None
  BY <1>3, <1>4, MajorityOf, NewSetOK
<1>6. \A t \in VoteTypes, r \in TrackableRounds, v \in Validators :
          ~Heard(h, t, r, v) /\ \A b \in Values : ~Voted(h, t, r, v, b)
  BY Zenon, <1>3, NewSetOK DEF Heard, Voted, CountedFor
<1> QED
  BY Zenon, <1>1, <1>4, <1>5, <1>6 DEF h

\* Opening rounds adds empty sets only: nothing is made anew.
LEMMA OpenedRounds ==
    ASSUME NEW h, VotesOK(h), NEW g, VotesOK(g),
           \A r \in TrackableRounds :
              \/ g.roundVoteSets[r] = h.roundVoteSets[r]
              \/ h.roundVoteSets[r] = None /\ g.roundVoteSets[r] = RoundVoteSet
    PROVE  SameVotes(h, g)
<1>1. ASSUME NEW t \in VoteTypes, NEW r \in TrackableRounds, NEW v \in Validators
      PROVE  /\ Heard(h, t, r, v) <=> Heard(g, t, r, v)
             /\ \A b \in Values : Voted(h, t, r, v, b) <=> Voted(g, t, r, v, b)
  BY Zenon, <1>1, NewRoundVoteSet, NewSetOK DEF Heard, Voted, CountedFor
<1>2. ASSUME NEW t \in VoteTypes, NEW r \in Int
      PROVE  Majority(g, t, r) = Majority(h, t, r)
  <2>1. CASE r \in TrackableRounds
    BY <2>1, MajorityOf, NewRoundVoteSet, NewSetOK
  <2>2. CASE r \notin TrackableRounds
    BY Zenon, <2>2, MajorityOf
  <2> QED
    BY Zenon, <2>1, <2>2
<1> QED
  BY Zenon, <1>1, <1>2 DEF SameVotes

LEMMA SetRoundOK ==
    ASSUME NEW h, VotesOK(h), NEW r \in 0 .. MaxRound + 1, h.round <= r,
           NEW g, g = SetRound(h, r)
    PROVE  VotesOK(g) /\ g.round = r /\ SameVotes(h, g)
<1>1. /\ h \in HeightVoteSets /\ h.round \in 0 .. MaxRound + 1
      /\ h.roundVoteSets \in [TrackableRounds -> RoundVoteSets \cup {None}]
      /\ h.peerCatchupRounds \in [Peers -> Seq(0 .. MaxRound)]
  BY Zenon DEF VotesOK, HeightVoteSets
<1>2. /\ g.round = r /\ g.peerCatchupRounds = h.peerCatchupRounds
      /\ g.roundVoteSets = [s \in TrackableRounds |->
             IF h.round - 1 <= s /\ s <= r /\ h.roundVoteSets[s] = None THEN RoundVoteSet ELSE h.roundVoteSets[s]]
      /\ g = [round |-> g.round, roundVoteSets |-> g.roundVoteSets, peerCatchupRounds |-> g.peerCatchupRounds]
  BY Zenon, <1>1 DEF SetRound, HeightVoteSets
<1>3. \A s \in TrackableRounds :
          \/ g.roundVoteSets[s] = h.roundVoteSets[s]
          \/ h.roundVoteSets[s] = None /\ g.roundVoteSets[s] = RoundVoteSet
  BY Zenon, <1>2
<1>4. VotesOK(g)
  <2>1. g \in HeightVoteSets
    BY <1>1, <1>2, NewRoundVoteSet DEF HeightVoteSets
  <2>2. \A s \in TrackableRounds, t \in VoteTypes : g.roundVoteSets[s] # None => SetOK(g.roundVoteSets[s][t])
    BY <1>3, NewRoundVoteSet, NewSetOK DEF VotesOK
  <2>3. ASSUME NEW s \in 0 .. g.round
        PROVE  g.roundVoteSets[s] # None
    <3>1. s \in TrackableRounds /\ s <= r /\ s \in Int
      BY <1>1, <1>2, MaxRoundAssumption DEF TrackableRounds
    <3>2. CASE s <= h.round
      BY <1>1, <1>3, <3>1, <3>2, NewRoundVoteSet DEF VotesOK
    <3>3. CASE s > h.round
      BY <1>1, <1>2, <3>1, <3>3, NewRoundVoteSet
    <3> QED
      BY <1>1, <3>1, <3>2, <3>3
  <2>4. ASSUME NEW s \in g.round + 1 .. MaxRound + 1
        PROVE  s \in h.round + 1 .. MaxRound + 1 /\ g.roundVoteSets[s] = h.roundVoteSets[s]
    <3>1. s \in TrackableRounds /\ s > r /\ s \in h.round + 1 .. MaxRound + 1
      BY <1>1, <1>2, MaxRoundAssumption DEF TrackableRounds
    <3> QED
      BY <1>2, <3>1
  <2>5. ASSUME NEW s \in g.round + 1 .. MaxRound + 1, g.roundVoteSets[s] # None
        PROVE  \E p \in Peers : \E i \in 1 .. Len(g.peerCatchupRounds[p]) : g.peerCatchupRounds[p][i] = s
    <3>1. s \in h.round + 1 .. MaxRound + 1 /\ h.roundVoteSets[s] # None
      BY Zenon, <2>4, <2>5
    <3> QED
      BY <1>2, <3>1 DEF VotesOK
  <2>6. \A p \in Peers : Len(g.peerCatchupRounds[p]) <= MaxCatchup
    BY Zenon, <1>2 DEF VotesOK
  <2> QED
    BY Zenon, <2>1, <2>2, <2>3, <2>5, <2>6 DEF VotesOK
<1> QED
  BY Zenon, <1>2, <1>3, <1>4, OpenedRounds

LEMMA OpenRoundOK ==
    ASSUME NEW h, VotesOK(h), NEW r \in 0 .. MaxRound, NEW p \in Peers, h.roundVoteSets[r] = None,
           NEW g, g = openRound(h, r, p)
    PROVE  /\ VotesOK(g) /\ g.round = h.round /\ SameVotes(h, g)
           /\ \A s \in TrackableRounds \ {r} : g.roundVoteSets[s] = h.roundVoteSets[s]
<1>1. /\ h \in HeightVoteSets /\ h.round \in 0 .. MaxRound + 1
      /\ h.roundVoteSets \in [TrackableRounds -> RoundVoteSets \cup {None}]
      /\ h.peerCatchupRounds \in [Peers -> Seq(0 .. MaxRound)]
      /\ r \in TrackableRounds
  BY Zenon, RoundsAreInts DEF VotesOK, HeightVoteSets
<1>2. CASE ~(Len(h.peerCatchupRounds[p]) < MaxCatchup)
  BY Zenon, <1>2 DEF openRound, SameVotes
<1>3. CASE Len(h.peerCatchupRounds[p]) < MaxCatchup
  <2> DEFINE rounds == h.peerCatchupRounds[p]
  <2>1. /\ g.round = h.round /\ g.roundVoteSets = [h.roundVoteSets EXCEPT ![r] = RoundVoteSet]
        /\ g.peerCatchupRounds = [h.peerCatchupRounds EXCEPT ![p] = Append(rounds, r)]
        /\ g = [round |-> g.round, roundVoteSets |-> g.roundVoteSets, peerCatchupRounds |-> g.peerCatchupRounds]
    BY Zenon, <1>1, <1>3 DEF openRound, addRound, HeightVoteSets
  <2>2. /\ rounds \in Seq(0 .. MaxRound) /\ Append(rounds, r) \in Seq(0 .. MaxRound)
        /\ Len(Append(rounds, r)) = Len(rounds) + 1 /\ Len(rounds) \in Nat
        /\ Append(rounds, r)[Len(rounds) + 1] = r
        /\ \A i \in 1 .. Len(rounds) : Append(rounds, r)[i] = rounds[i]
    BY <1>1
  <2>3. /\ g.peerCatchupRounds[p] = Append(rounds, r)
        /\ \A q \in Peers \ {p} : g.peerCatchupRounds[q] = h.peerCatchupRounds[q]
        /\ g.roundVoteSets[r] = RoundVoteSet
        /\ \A s \in TrackableRounds \ {r} : g.roundVoteSets[s] = h.roundVoteSets[s]
    BY Zenon, <1>1, <2>1
  <2>4. g \in HeightVoteSets
    <3>1. g.roundVoteSets \in [TrackableRounds -> RoundVoteSets \cup {None}]
      BY Zenon, <1>1, <2>1, NewRoundVoteSet
    <3>2. g.peerCatchupRounds \in [Peers -> Seq(0 .. MaxRound)]
      BY Zenon, <1>1, <2>1, <2>2
    <3> QED
      BY Zenon, <1>1, <2>1, <3>1, <3>2 DEF HeightVoteSets
  <2>5. \A s \in TrackableRounds, t \in VoteTypes : g.roundVoteSets[s] # None => SetOK(g.roundVoteSets[s][t])
    BY Zenon, <2>3, NewRoundVoteSet, NewSetOK DEF VotesOK
  <2>6. \A s \in 0 .. g.round : g.roundVoteSets[s] # None
    <3>1. \A s \in 0 .. h.round : s \in TrackableRounds
      BY <1>1, MaxRoundAssumption DEF TrackableRounds
    <3>2. \A s \in 0 .. h.round : h.roundVoteSets[s] # None
      BY Zenon DEF VotesOK
    <3> QED
      BY <2>1, <2>3, <3>1, <3>2, NewRoundVoteSet
  <2>7. \A q \in Peers : Len(g.peerCatchupRounds[q]) <= MaxCatchup
    <3>1. \A q \in Peers : Len(h.peerCatchupRounds[q]) <= MaxCatchup
      BY Zenon DEF VotesOK
    <3>2. Len(Append(rounds, r)) <= MaxCatchup
      BY <1>3, <2>2, MaxRoundAssumption
    <3> QED
      BY Zenon, <2>3, <3>1, <3>2
  <2>8. ASSUME NEW s \in g.round + 1 .. MaxRound + 1, g.roundVoteSets[s] # None
        PROVE  \E q \in Peers : \E i \in 1 .. Len(g.peerCatchupRounds[q]) : g.peerCatchupRounds[q][i] = s
    <3>1. CASE s = r
      <4>1. Len(rounds) + 1 \in 1 .. Len(g.peerCatchupRounds[p])
        BY <2>2, <2>3
      <4> QED
        BY Zenon, <2>2, <2>3, <3>1, <4>1
    <3>2. CASE s # r
      <4>1. s \in TrackableRounds /\ s \in h.round + 1 .. MaxRound + 1
        BY <1>1, <2>1, MaxRoundAssumption DEF TrackableRounds
      <4>2. PICK q \in Peers : \E i \in 1 .. Len(h.peerCatchupRounds[q]) : h.peerCatchupRounds[q][i] = s
        BY Zenon, <2>3, <2>8, <3>2, <4>1 DEF VotesOK
      <4>3. PICK i \in 1 .. Len(h.peerCatchupRounds[q]) : h.peerCatchupRounds[q][i] = s
        BY Zenon, <4>2
      <4>4. i \in 1 .. Len(g.peerCatchupRounds[q]) /\ g.peerCatchupRounds[q][i] = s
        <5>1. CASE q = p
          <6>1. i \in 1 .. Len(rounds) /\ rounds[i] = s
            BY Zenon, <4>3, <5>1
          <6> HIDE DEF rounds
          <6>2. i \in 1 .. Len(Append(rounds, r)) /\ Append(rounds, r)[i] = s
            BY <2>2, <6>1
          <6> QED
            BY Zenon, <2>3, <5>1, <6>2
        <5>2. CASE q # p
          BY Zenon, <2>3, <4>3, <5>2
        <5> QED
          BY Zenon, <5>1, <5>2
      <4> QED
        BY Zenon, <4>4
    <3> QED
      BY Zenon, <3>1, <3>2
  <2>9. VotesOK(g)
    BY Zenon, <2>4, <2>5, <2>6, <2>7, <2>8 DEF VotesOK
  <2> QED
    BY Zenon, <2>1, <2>3, <2>9, OpenedRounds
<1> QED
  BY Zenon, <1>2, <1>3

LEMMA VotesType ==
    ASSUME NEW h, VotesOK(h)
    PROVE  /\ h \in HeightVoteSets /\ h.round \in 0 .. MaxRound + 1
           /\ h.roundVoteSets \in [TrackableRounds -> RoundVoteSets \cup {None}]
           /\ h.peerCatchupRounds \in [Peers -> Seq(0 .. MaxRound)]
           /\ h = [round |-> h.round, roundVoteSets |-> h.roundVoteSets, peerCatchupRounds |-> h.peerCatchupRounds]
<1>1. h \in HeightVoteSets
  BY Zenon DEF VotesOK
<1> QED
  BY Zenon, <1>1 DEF HeightVoteSets

ReplaceSet(h, r, t, n) == [h EXCEPT !.roundVoteSets[r][t] = n]

Replaced(h, r, t, n, g) ==
    /\ VotesOK(g) /\ g.round = h.round
    /\ g.roundVoteSets[r] # None /\ g.roundVoteSets[r][t] = n
    /\ \A s \in TrackableRounds, u \in VoteTypes :
          /\ g.roundVoteSets[s] = None <=> h.roundVoteSets[s] = None
          /\ (s # r \/ u # t) => g.roundVoteSets[s][u] = h.roundVoteSets[s][u]
    /\ Majority(g, t, r) = n.maj23 /\ KeepsMajorities(h, g)
    /\ \A s \in Int, u \in VoteTypes : (s # r \/ u # t) => Majority(g, u, s) = Majority(h, u, s)

\* One set of h is replaced by one with the same majority, if it had one.
LEMMA ReplacedSet ==
    ASSUME NEW h, VotesOK(h), NEW r \in TrackableRounds, h.roundVoteSets[r] # None, NEW t \in VoteTypes,
           NEW n, SetOK(n), h.roundVoteSets[r][t].maj23 # None => n.maj23 = h.roundVoteSets[r][t].maj23
    PROVE  Replaced(h, r, t, n, ReplaceSet(h, r, t, n))
<1>0. PICK g : g = ReplaceSet(h, r, t, n)
  BY Zenon
<1>1. /\ h \in HeightVoteSets /\ h.roundVoteSets \in [TrackableRounds -> RoundVoteSets \cup {None}]
      /\ h.roundVoteSets[r] \in RoundVoteSets /\ n \in VoteSets /\ h.round \in 0 .. MaxRound + 1
  <2>1. n \in VoteSets
    BY Zenon DEF SetOK
  <2> QED
    BY Zenon, <2>1, VotesType
<1> DEFINE sets == [h.roundVoteSets[r] EXCEPT ![t] = n]
<1>2. /\ g.round = h.round /\ g.roundVoteSets = [h.roundVoteSets EXCEPT ![r] = sets]
      /\ g.peerCatchupRounds = h.peerCatchupRounds
      /\ g = [round |-> g.round, roundVoteSets |-> g.roundVoteSets, peerCatchupRounds |-> g.peerCatchupRounds]
  BY Zenon, <1>0, <1>1 DEF HeightVoteSets, ReplaceSet
<1>3. /\ sets \in RoundVoteSets /\ sets[t] = n
      /\ \A u \in VoteTypes \ {t} : sets[u] = h.roundVoteSets[r][u]
  BY Zenon, <1>1 DEF RoundVoteSets
<1>4. sets # None
  BY Zenon, <1>3, NoRoundAssumption
<1> HIDE DEF sets
<1>5. /\ g.roundVoteSets[r] = sets
      /\ \A s \in TrackableRounds \ {r} : g.roundVoteSets[s] = h.roundVoteSets[s]
      /\ g.roundVoteSets \in [TrackableRounds -> RoundVoteSets \cup {None}]
  BY Zenon, <1>1, <1>2, <1>3
<1>6. \A s \in TrackableRounds, u \in VoteTypes :
          /\ g.roundVoteSets[s] = None <=> h.roundVoteSets[s] = None
          /\ (s # r \/ u # t) => g.roundVoteSets[s][u] = h.roundVoteSets[s][u]
  BY Zenon, <1>3, <1>4, <1>5
<1>7. VotesOK(g)
  <2>1. g \in HeightVoteSets
    BY Zenon, <1>1, <1>2, <1>5 DEF HeightVoteSets
  <2>2. \A s \in TrackableRounds, u \in VoteTypes : g.roundVoteSets[s] # None => SetOK(g.roundVoteSets[s][u])
    BY Zenon, <1>3, <1>5 DEF VotesOK
  <2>3. ASSUME NEW s \in 0 .. g.round
        PROVE  g.roundVoteSets[s] # None
    <3>1. s \in TrackableRounds
      BY <1>1, <1>2, MaxRoundAssumption DEF TrackableRounds
    <3>2. h.roundVoteSets[s] # None
      BY Zenon, <1>2 DEF VotesOK
    <3> QED
      BY Zenon, <1>4, <1>5, <3>1, <3>2
  <2>4. ASSUME NEW s \in g.round + 1 .. MaxRound + 1, g.roundVoteSets[s] # None
        PROVE  \E p \in Peers : \E i \in 1 .. Len(g.peerCatchupRounds[p]) : g.peerCatchupRounds[p][i] = s
    <3>1. s \in TrackableRounds
      BY <1>1, <1>2, MaxRoundAssumption DEF TrackableRounds, HeightVoteSets
    <3>2. s \in h.round + 1 .. MaxRound + 1 /\ h.roundVoteSets[s] # None
      BY Zenon, <1>2, <1>5, <2>4, <3>1
    <3> QED
      BY <1>2, <3>2 DEF VotesOK
  <2>5. \A p \in Peers : Len(g.peerCatchupRounds[p]) <= MaxCatchup
    BY Zenon, <1>2 DEF VotesOK
  <2> QED
    BY Zenon, <2>1, <2>2, <2>3, <2>4, <2>5 DEF VotesOK
<1>8. Majority(g, t, r) = n.maj23 /\ Majority(h, t, r) = h.roundVoteSets[r][t].maj23
  <2>1. r \in Int /\ g.roundVoteSets[r] # None /\ g.roundVoteSets[r][t] = n
    BY Zenon, <1>3, <1>4, <1>5, RoundsAreInts
  <2>2. Majority(g, t, r) = g.roundVoteSets[r][t].maj23
    BY Zenon, <1>7, <2>1, MajorityOf
  <2>3. Majority(h, t, r) = h.roundVoteSets[r][t].maj23
    BY Zenon, <2>1, MajorityOf
  <2> QED
    BY Zenon, <2>1, <2>2, <2>3
<1>9. ASSUME NEW s \in Int, NEW u \in VoteTypes, (s # r \/ u # t)
      PROVE  Majority(g, u, s) = Majority(h, u, s)
  <2>1. CASE s \in TrackableRounds
    <3>1. /\ g.roundVoteSets[s] = None <=> h.roundVoteSets[s] = None
          /\ g.roundVoteSets[s][u] = h.roundVoteSets[s][u]
      BY Zenon, <1>6, <1>9, <2>1
    <3>2. CASE h.roundVoteSets[s] = None
      <4>1. Majority(g, u, s) = None
        BY Zenon, <1>7, <3>1, <3>2, MajorityOf
      <4>2. Majority(h, u, s) = None
        BY Zenon, <3>2, MajorityOf
      <4> QED
        BY Zenon, <4>1, <4>2
    <3>3. CASE h.roundVoteSets[s] # None
      <4>1. Majority(g, u, s) = g.roundVoteSets[s][u].maj23
        BY Zenon, <1>7, <2>1, <3>1, <3>3, MajorityOf
      <4>2. Majority(h, u, s) = h.roundVoteSets[s][u].maj23
        BY Zenon, <2>1, <3>3, MajorityOf
      <4> QED
        BY Zenon, <3>1, <4>1, <4>2
    <3> QED
      BY Zenon, <3>2, <3>3
  <2>2. CASE s \notin TrackableRounds
    BY <1>7, <2>2, MajorityOf
  <2> QED
    BY Zenon, <2>1, <2>2
<1>10. KeepsMajorities(h, g)
  BY Zenon, <1>8, <1>9 DEF KeepsMajorities
<1>11. g.roundVoteSets[r] # None /\ g.roundVoteSets[r][t] = n
  BY Zenon, <1>3, <1>4, <1>5
<1> QED
  BY Zenon, <1>0, <1>2, <1>6, <1>7, <1>8, <1>9, <1>10, <1>11 DEF Replaced

LEMMA SetPeerMaj23ForOK ==
    ASSUME NEW h, VotesOK(h), NEW t \in VoteTypes, NEW r \in 0 .. MaxRound, NEW p \in Peers, NEW b \in Values,
           NEW g, g = SetPeerMaj23For(h, t, r, p, b)
    PROVE  VotesOK(g) /\ g.round = h.round /\ SameVotes(h, g)
<1>1. CASE h.roundVoteSets[r] = None
  BY Zenon, <1>1 DEF SetPeerMaj23For, SameVotes
<1>2. CASE h.roundVoteSets[r] # None
  <2>1. PICK n : n = SetPeerMaj23(h.roundVoteSets[r][t], p, b)
    BY Zenon
  <2>2. r \in TrackableRounds /\ SetOK(h.roundVoteSets[r][t])
    BY Zenon, <1>2, RoundsAreInts DEF VotesOK
  <2>3. g = ReplaceSet(h, r, t, n)
    BY Zenon, <1>2, <2>1, <2>2 DEF SetPeerMaj23For, ReplaceSet
  <2>4. /\ SetOK(n) /\ n.maj23 = h.roundVoteSets[r][t].maj23 /\ HeardFrom(n) = HeardFrom(h.roundVoteSets[r][t])
        /\ \A w, c : CountedFor(n, w, c) <=> CountedFor(h.roundVoteSets[r][t], w, c)
    BY <2>1, <2>2, SetPeerMaj23OK
  <2>5. Replaced(h, r, t, n, g)
    BY Zenon, <1>2, <2>2, <2>3, <2>4, ReplacedSet
  <2>5a. /\ VotesOK(g) /\ g.round = h.round
         /\ Majority(g, t, r) = n.maj23
         /\ \A s \in Int, u \in VoteTypes : (s # r \/ u # t) => Majority(g, u, s) = Majority(h, u, s)
    BY Zenon, <2>5 DEF Replaced
  <2>5b. /\ g.roundVoteSets[r] # None /\ g.roundVoteSets[r][t] = n
         /\ \A s \in TrackableRounds, u \in VoteTypes :
               /\ g.roundVoteSets[s] = None <=> h.roundVoteSets[s] = None
               /\ (s # r \/ u # t) => g.roundVoteSets[s][u] = h.roundVoteSets[s][u]
    BY Zenon, <2>5 DEF Replaced
  <2>6. \A u \in VoteTypes, s \in Int : Majority(g, u, s) = Majority(h, u, s)
    <3>1. Majority(h, t, r) = h.roundVoteSets[r][t].maj23
      BY Zenon, <1>2, <2>2, MajorityOf, RoundsAreInts
    <3> QED
      BY Zenon, <2>4, <2>5a, <3>1
  <2>7. ASSUME NEW u \in VoteTypes, NEW s \in TrackableRounds, NEW v \in Validators
        PROVE  /\ Heard(h, u, s, v) <=> Heard(g, u, s, v)
               /\ \A c \in Values : Voted(h, u, s, v, c) <=> Voted(g, u, s, v, c)
    <3>1. CASE s = r /\ u = t
      BY Zenon, <1>2, <2>4, <2>5b, <3>1 DEF Heard, Voted
    <3>2. CASE (s # r \/ u # t)
      BY Zenon, <2>5b, <3>2 DEF Heard, Voted
    <3> QED
      BY Zenon, <3>1, <3>2
  <2> QED
    BY Zenon, <2>5a, <2>6, <2>7 DEF SameVotes
<1> QED
  BY Zenon, <1>1, <1>2

LEMMA AddVoteFromOK ==
    ASSUME NEW h, VotesOK(h), NEW t \in VoteTypes, NEW r \in 0 .. MaxRound, NEW v \in Validators,
           NEW b \in Values, NEW p \in Peers, NEW result, result = AddVoteFrom(h, t, r, v, b, p)
    PROVE  VoteAdded(h, t, r, v, b, result.set, result.added, result.conflicting)
<1>2. PICK open : open = IF h.roundVoteSets[r] = None THEN openRound(h, r, p) ELSE h
  BY Zenon
<1>3. r \in TrackableRounds /\ r \in Int
  BY Zenon, RoundsAreInts
<1>4. /\ VotesOK(open) /\ open.round = h.round /\ SameVotes(h, open)
      /\ h.roundVoteSets[r] # None => open = h
  <2>1. CASE h.roundVoteSets[r] = None
    BY <1>2, <2>1, OpenRoundOK
  <2>2. CASE h.roundVoteSets[r] # None
    BY Zenon, <1>2, <2>2 DEF SameVotes
  <2> QED
    BY Zenon, <2>1, <2>2
<1>5. CASE open.roundVoteSets[r] = None
  <2>1. result = [set |-> h, added |-> FALSE, conflicting |-> FALSE] /\ h.roundVoteSets[r] = None
    BY Zenon, <1>2, <1>4, <1>5 DEF AddVoteFrom
  <2>2. result.set = h /\ result.added = FALSE /\ result.conflicting = FALSE
    BY <2>1
  <2> QED
    <3>1. ~Heard(h, t, r, v) /\ KeepsMajorities(h, h)
      BY Zenon, <2>1 DEF Heard, KeepsMajorities
    <3>2. VoteAdded(h, t, r, v, b, h, FALSE, FALSE)
      BY Zenon, <2>1, <3>1 DEF VoteAdded
    <3> QED
      BY Zenon, <2>2, <3>2
<1>6. CASE open.roundVoteSets[r] # None
  <2>1. PICK vs : vs = open.roundVoteSets[r][t]
    BY Zenon
  <2>2. PICK res : res = AddVote(vs, v, b)
    BY Zenon
  <2>3. SetOK(vs)
    BY Zenon, <1>3, <1>4, <1>6, <2>1 DEF VotesOK
  <2>3a. Added(vs, v, b, res)
    BY Zenon, <2>2, <2>3, AddVoteOK
  <2>4. /\ SetOK(res.set)
        /\ res.added \in BOOLEAN /\ res.conflicting \in BOOLEAN
        /\ \A w \in Validators, c \in Values :
              CountedFor(res.set, w, c) <=> CountedFor(vs, w, c) \/ (res.added /\ w = v /\ c = b)
        /\ vs.maj23 # None => res.set.maj23 = vs.maj23
        /\ HeardFrom(res.set) = HeardFrom(vs) \cup {v}
        /\ b \in Claimed(vs) => res.set.maj23 = b \/ CountedFor(res.set, v, b)
        /\ res.conflicting => vs.votes[v] \notin {None, b}
        /\ res.added /\ v \in HeardFrom(vs) => res.conflicting
    BY Zenon, <2>3a DEF Added
  <2>5. /\ result.set = ReplaceSet(open, r, t, res.set)
        /\ result.added = res.added /\ result.conflicting = res.conflicting
    <3>1. result = [res EXCEPT !.set = ReplaceSet(open, r, t, res.set)]
      BY Zenon, <1>2, <1>6, <2>1, <2>2 DEF AddVoteFrom, ReplaceSet
    <3>2. res = [set |-> res.set, added |-> res.added, conflicting |-> res.conflicting]
      BY Zenon, <2>2 DEF AddVote, addVerifiedVote
    <3> QED
      BY Zenon, <3>1, <3>2
  <2>6. PICK n, g : n = res.set /\ g = result.set
    BY Zenon
  <2>7. Replaced(open, r, t, n, g)
    <3>1. SetOK(n) /\ (open.roundVoteSets[r][t].maj23 # None => n.maj23 = open.roundVoteSets[r][t].maj23)
      BY Zenon, <2>1, <2>4, <2>6
    <3> QED
      BY Zenon, <1>3, <1>4, <1>6, <2>5, <2>6, <3>1, ReplacedSet
  <2>7a. /\ VotesOK(g) /\ g.round = open.round
         /\ Majority(g, t, r) = n.maj23 /\ KeepsMajorities(open, g)
         /\ \A s \in Int, u \in VoteTypes : (s # r \/ u # t) => Majority(g, u, s) = Majority(open, u, s)
    BY Zenon, <2>7 DEF Replaced
  <2>7b. /\ g.roundVoteSets[r] # None /\ g.roundVoteSets[r][t] = n
         /\ \A s \in TrackableRounds, u \in VoteTypes :
               /\ g.roundVoteSets[s] = None <=> open.roundVoteSets[s] = None
               /\ (s # r \/ u # t) => g.roundVoteSets[s][u] = open.roundVoteSets[s][u]
    BY Zenon, <2>7 DEF Replaced
  <2>8. ASSUME NEW u \in VoteTypes, NEW s \in TrackableRounds, NEW w \in Validators
        PROVE  /\ Heard(open, u, s, w) => Heard(g, u, s, w)
               /\ \A c \in Values : Voted(g, u, s, w, c) <=>
                    \/ Voted(open, u, s, w, c)
                    \/ result.added /\ u = t /\ s = r /\ w = v /\ c = b
    <3>1. CASE s = r /\ u = t
      BY Zenon, <1>6, <2>1, <2>4, <2>5, <2>6, <2>7b, <3>1 DEF Heard, Voted
    <3>2. CASE s # r \/ u # t
      BY Zenon, <2>7b, <3>2 DEF Heard, Voted
    <3> QED
      BY Zenon, <3>1, <3>2
  <2>9. Heard(g, t, r, v) /\ (Heard(open, t, r, v) <=> v \in HeardFrom(vs))
    BY Zenon, <1>6, <2>1, <2>4, <2>6, <2>7b DEF Heard
  <2>10. res.conflicting => Heard(open, t, r, v) /\ vs.votes[v] # b
    BY Zenon, <2>4, <2>9 DEF HeardFrom
  <2>11. CountedFor(n, v, b) <=> Voted(g, t, r, v, b)
    BY Zenon, <2>7b DEF Voted
  <2>12. /\ \A u \in VoteTypes, s \in TrackableRounds, w \in Validators :
              /\ Heard(h, u, s, w) <=> Heard(open, u, s, w)
              /\ \A c \in Values : Voted(h, u, s, w, c) <=> Voted(open, u, s, w, c)
         /\ \A u \in VoteTypes, s \in Int : Majority(open, u, s) = Majority(h, u, s)
    BY Zenon, <1>4 DEF SameVotes
  <2>13. KeepsMajorities(h, g)
    BY Zenon, <2>7a, <2>12 DEF KeepsMajorities
  <2>14. h.roundVoteSets[r] = None => ~Heard(h, t, r, v)
    BY Zenon DEF Heard
  <2>15. h.roundVoteSets[r] # None => h.roundVoteSets[r][t] = vs
    BY Zenon, <1>4, <2>1
  <2> QED
    <3>1. /\ VotesOK(g) /\ g.round = h.round /\ result.added \in BOOLEAN /\ result.conflicting \in BOOLEAN
      BY Zenon, <1>4, <2>4, <2>5, <2>7a
    <3>2. /\ result.conflicting => Heard(h, t, r, v) /\ h.roundVoteSets[r][t].votes[v] # b
          /\ result.added /\ Heard(h, t, r, v) => result.conflicting
      <4>1. Heard(h, t, r, v) <=> Heard(open, t, r, v)
        BY Zenon, <1>3, <2>12
      <4>2. res.added /\ v \in HeardFrom(vs) => res.conflicting
        BY Zenon, <2>4
      <4> QED
        BY Zenon, <2>5, <2>9, <2>10, <2>14, <2>15, <4>1, <4>2
    <3>3. h.roundVoteSets[r] # None /\ b \in Claimed(h.roundVoteSets[r][t]) =>
              Majority(g, t, r) = b \/ Voted(g, t, r, v, b)
      BY Zenon, <2>4, <2>6, <2>7a, <2>11, <2>15
    <3>4. \A s \in Int, u \in VoteTypes : s # r \/ u # t => Majority(g, u, s) = Majority(h, u, s)
      BY Zenon, <2>7a, <2>12
    <3>5. \A u \in VoteTypes, s \in TrackableRounds, w \in Validators :
              /\ Heard(h, u, s, w) => Heard(g, u, s, w)
              /\ \A c \in Values : Voted(g, u, s, w, c) <=>
                    \/ Voted(h, u, s, w, c)
                    \/ result.added /\ u = t /\ s = r /\ w = v /\ c = b
      BY <2>8, <2>12
    <3> QED
      <4>1. VoteAdded(h, t, r, v, b, g, result.added, result.conflicting)
        BY Zenon, <2>9, <2>13, <3>1, <3>2, <3>3, <3>4, <3>5 DEF VoteAdded
      <4> QED
        BY Zenon, <2>6, <4>1
<1> QED
  BY Zenon, <1>5, <1>6

-----------------------------------------------------------------------------
(***************************************************************************)
(* What the state machine asks of the vote sets                            *)
(***************************************************************************)

\* +2/3 for one value are +2/3 of any votes.
LEMMA MajorityIsAny ==
    ASSUME NEW h, VotesOK(h), NEW t \in VoteTypes, NEW r \in Int, Majority(h, t, r) # None
    PROVE  HasTwoThirdsAny(getVoteSet(h, r, t))
<1>1. PICK vs : vs = getVoteSet(h, r, t)
  BY Zenon
<1>2. vs # None /\ SetOK(vs) /\ vs.maj23 # None
  BY <1>1, MajorityOf DEF VotesOK
<1>3. vs.sum = PowerOf(HeardFrom(vs)) /\ HeardFrom(vs) \subseteq Validators
  BY Zenon, <1>2 DEF SetOK, SumsOK, HeardFrom
<1>4. PICK S : S = vs.votesByBlock[vs.maj23].voters
  BY Zenon
<1>5. PowerOf(S) >= Quorum /\ S \subseteq HeardFrom(vs)
  BY Zenon, <1>2, <1>4 DEF SetOK, SumsOK, MajorityOK
<1>6. PowerOf(S) \in Nat /\ vs.sum \in Nat /\ PowerOf(S) <= vs.sum
  BY Zenon, <1>3, <1>5, PowerMonotone, PowerType
<1>7. vs.sum > (TotalVotingPower * 2) \div 3
  BY <1>5, <1>6, TotalPower DEF Quorum
<1> QED
  BY Zenon, <1>1, <1>2, <1>7 DEF HasTwoThirdsAny

\* The sets count the same power when they hold the same votes.
LEMMA SameVotesSamePower ==
    ASSUME NEW h, VotesOK(h), NEW g, VotesOK(g), SameVotes(h, g), NEW t \in VoteTypes, NEW r \in Int,
           HasTwoThirdsAny(getVoteSet(h, r, t))
    PROVE  HasTwoThirdsAny(getVoteSet(g, r, t))
<1>1. PICK vs : vs = getVoteSet(h, r, t)
  BY Zenon
<1>2. r \in TrackableRounds /\ h.roundVoteSets[r] # None /\ vs = h.roundVoteSets[r][t]
  BY Zenon, <1>1 DEF HasTwoThirdsAny, getVoteSet
<1>3. SetOK(vs)
  BY Zenon, <1>2 DEF VotesOK
<1>4. vs.sum = PowerOf(HeardFrom(vs)) /\ HeardFrom(vs) \subseteq Validators
  BY Zenon, <1>3 DEF SetOK, SumsOK, HeardFrom
<1>5. vs.sum > (TotalVotingPower * 2) \div 3
  BY Zenon, <1>1 DEF HasTwoThirdsAny
<1>6. HeardFrom(vs) # {}
  BY <1>4, <1>5, PowerOfNone, TotalPower
<1>7. g.roundVoteSets[r] # None
  BY Zenon, <1>2, <1>4, <1>6 DEF SameVotes, Heard
<1>8. PICK n : n = getVoteSet(g, r, t)
  BY Zenon
<1>9. n = g.roundVoteSets[r][t] /\ n # None /\ SetOK(n)
  BY <1>2, <1>7, <1>8, MajorityOf DEF VotesOK
<1>10. HeardFrom(n) = HeardFrom(vs)
  <2>1. HeardFrom(n) \subseteq Validators
    BY Zenon DEF HeardFrom
  <2> QED
    BY Zenon, <1>2, <1>4, <1>7, <1>9, <2>1 DEF SameVotes, Heard
<1>11. n.sum = vs.sum
  BY Zenon, <1>4, <1>9, <1>10 DEF SetOK, SumsOK
<1> QED
  BY Zenon, <1>5, <1>8, <1>9, <1>11 DEF HasTwoThirdsAny

\* POLRound is no earlier than any tracked round with a polka.
LEMMA POLRoundOK ==
    ASSUME NEW h, VotesOK(h), NEW r \in 0 .. h.round, Majority(h, "prevote", r) # None
    PROVE  POLRound(h) \in Int /\ POLRound(h) >= r
<1>1. PICK S : S = {s \in 0 .. h.round : TwoThirdsMajority(Prevotes(h, s)) # None}
  BY Zenon
<1>2. h.round \in Nat
  BY VotesType, MaxRoundAssumption
<1>3. r \in S /\ S \in SUBSET Nat /\ \A s \in S : s <= h.round
  BY <1>1, <1>2 DEF Majority, Prevotes
<1>4. POLRound(h) = Max(S)
  BY Zenon, <1>1, <1>3 DEF POLRound
<1>5. PICK T : T = {m \in Nat : \A s \in S : s <= m}
  BY Zenon
<1>6. T \in SUBSET Nat /\ h.round \in T
  BY Zenon, <1>2, <1>3, <1>5
<1>7. PICK m \in T : \A n \in T : m <= n
  BY Zenon, <1>6, SmallestNat
<1>8. m \in Nat /\ \A s \in S : s <= m
  BY Zenon, <1>5, <1>6
<1>9. m \in S
  <2> SUFFICES ASSUME m \notin S
               PROVE  FALSE
    BY Zenon
  <2>1. \A s \in S : s \in Nat /\ s <= m /\ s # m
    BY Zenon, <1>3, <1>8
  <2>2. \A s \in S : s <= m - 1
    BY <1>8, <2>1
  <2>3. m - 1 \in Nat
    BY <1>3, <1>8, <2>2
  <2>4. m - 1 \in T
    BY Zenon, <1>5, <2>2, <2>3
  <2> QED
    BY <1>7, <1>8, <2>4
<1>10. \E x \in S : \A y \in S : x >= y
  BY Zenon, <1>3, <1>8, <1>9
<1>11. Max(S) \in S /\ \A y \in S : Max(S) >= y
  BY Zenon, <1>10 DEF Max
<1>12. Max(S) \in Nat /\ Max(S) >= r
  BY Zenon, <1>3, <1>11
<1> QED
  BY <1>4, <1>12

-----------------------------------------------------------------------------
\* The facts above, as ConsensusStateProofs uses them.
LEMMA VoteLawsHold == VoteLaws
<1>1. NewVotesLaw
  BY Zenon, NewVotesOK DEF NewVotesLaw
<1>2. MajorityLaw
  BY MajorityOf DEF MajorityLaw
<1>3. SetRoundLaw
  BY Zenon, SetRoundOK DEF SetRoundLaw
<1>4. ClaimLaw
  BY Zenon, SetPeerMaj23ForOK DEF ClaimLaw
<1>5. AddVoteLaw
  BY Zenon, AddVoteOK DEF AddVoteLaw
<1>6. AddVoteFromLaw
  BY AddVoteFromOK DEF AddVoteFromLaw
<1>7. PowerLaw
  BY Zenon, MajorityIsAny, SameVotesSamePower DEF PowerLaw
<1>8. POLRoundLaw
  BY Zenon, POLRoundOK DEF POLRoundLaw
<1> QED
  BY Zenon, <1>1, <1>2, <1>3, <1>4, <1>5, <1>6, <1>7, <1>8 DEF VoteLaws
=============================================================================

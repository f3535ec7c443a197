-------------------------- MODULE StandingsProofs --------------------------
(***************************************************************************)
(* Proofs about Standings: what the pages show of a bracket, for any       *)
(* players, rounds and results.                                            *)
(***************************************************************************)
EXTENDS Standings, FiniteSetTheorems, WellFoundedInduction, TLAPS

-----------------------------------------------------------------------------
(* The inductive invariant.                                                 *)

\* A race that is complete has the outcome of its results.
RaceOk(br) ==
    /\ br \in Race /\ br.p1 < br.p2
    /\ br.outcome = "none" => br.r1 = Missing /\ br.r2 = Missing /\ br.state # "Finished"
    /\ br.outcome # "none" => /\ br.r1 \in Results /\ br.r2 \in Results
                              /\ br.outcome = OutcomeOf(br.r1, br.r2)

Plays(p, br) == p \in {br.p1, br.p2}
Raced == {p \in Players : \E i \in Ids : Plays(p, race[i])}

RowsInv ==
    /\ bracket \in [state : {"Unstarted", "Started", "Finished"}, type : {"Swiss", "RoundRobin"}]
    /\ entered \subseteq Players /\ Raced \subseteq entered
    /\ race \in Seq(Race) /\ \A i \in Ids : RaceOk(race[i])
    /\ bracket.state = "Unstarted" <=> race = <<>>

\* A round is drawn when the one before is complete, and in a Swiss round
\* everybody who has raced races once.
RoundsInv ==
    /\ \A i, j \in Ids : race[i].round < race[j].round => race[i].outcome # "none"
    /\ bracket.type = "RoundRobin" => \A i \in Ids : race[i].round = 1
    /\ bracket.type = "Swiss" =>
         \A i \in Ids, p \in Raced : \E j \in OfRound(race[i].round) :
            /\ Plays(p, race[j])
            /\ \A k \in OfRound(race[i].round) : Plays(p, race[k]) => k = j

\* Races that a page counts are complete races of the bracket; only their
\* results may have changed since.
CountedOk(cs) ==
    /\ \A c \in cs :
         /\ c \in Counted /\ c.id \in Ids /\ RaceOk(c.race) /\ c.race.outcome # "none"
         /\ race[c.id].outcome # "none" /\ race[c.id].round = c.race.round
         /\ race[c.id].p1 = c.race.p1 /\ race[c.id].p2 = c.race.p2
    /\ \A c, d \in cs : c.id = d.id => c = d

\* A Swiss round is counted as a whole.
Whole(cs) ==
    bracket.type = "Swiss" =>
        \A c \in cs : \A i \in OfRound(c.race.round) : \E d \in cs : d.id = i

PageInv ==
    /\ page \in Page
    /\ page.started => bracket.state # "Unstarted"
    /\ page.pc \in {"rounds", "races"} => page.started /\ Raced \subseteq page.players
    /\ page.pc # "races" => page.counted = {} /\ page.next = 1
    /\ CountedOk(page.counted) /\ Whole(page.counted)
    /\ \A c \in page.counted : c.race.round < page.next

\* What the last page showed; the next one, when it has passed a round, has
\* counted what the last one counted of it.
ListedInv ==
    /\ CountedOk(listed.counted) /\ Whole(listed.counted)
    /\ listed.counted # {} => /\ listed.unknown = {}
                              /\ listed.players = UNION {PlayersOf(c) : c \in listed.counted}
    /\ page.pc = "players" /\ ~page.started => listed.counted = {}
    /\ page.pc = "races" => \A d \in listed.counted :
         /\ d.race.round <= page.rounds
         /\ d.race.round < page.next => \E c \in page.counted : c.id = d.id

IInv == RowsInv /\ RoundsInv /\ PageInv /\ ListedInv

-----------------------------------------------------------------------------
(* Induction, over sets of numbers and over the subsets of a finite set.   *)

LEMMA NatSet ==
    ASSUME NEW T, 0 \in T, \A n \in Nat : n \in T => n + 1 \in T
    PROVE  \A n \in Nat : n \in T
<1> DEFINE R == OpToRel(<, Nat)
           Bad == Nat \ T
<1>1. IsWellFoundedOn(R, Nat)
  BY NatLessThanWellFounded
<1>2. ASSUME Bad # {} PROVE FALSE
  <2>1. PICK n \in Bad : \A m \in Bad : ~ (<<m, n>> \in R)
    <3> HIDE DEF R
    <3> QED BY <1>1, <1>2, WFMin
  <2>2. n \in Nat /\ n # 0
    OBVIOUS
  <2>3. n - 1 \in Nat /\ <<n - 1, n>> \in R /\ n = (n - 1) + 1
    BY <2>2 DEF OpToRel
  <2>4. n - 1 \in T
    BY <2>1, <2>3
  <2> QED BY <2>3, <2>4
<1> QED BY <1>2

LEMMA Smaller ==
    ASSUME NEW s, IsFiniteSet(s), NEW n \in Nat, Cardinality(s) = n + 1
    PROVE  s # {} /\ \A x \in s : Cardinality(s \ {x}) = n
<1>1. s # {}
  <2>1. CASE s = {}
    <3>1. Cardinality(s) = 0
      BY <2>1, FS_EmptySet
    <3> QED BY <3>1
  <2> QED BY <2>1
<1>2. ASSUME NEW x \in s PROVE Cardinality(s \ {x}) = n
  <2>1. Cardinality(s \ {x}) = Cardinality(s) - 1
    BY FS_RemoveElement
  <2> QED BY <2>1
<1> QED BY <1>1, <1>2

\* What holds of the empty set, and of a set with one more element if it
\* holds of the set, holds of all subsets of a finite set.
LEMMA Subsets ==
    ASSUME NEW S, IsFiniteSet(S), NEW T, {} \in T,
           \A s \in SUBSET S, x \in S : s \in T /\ x \notin s => s \cup {x} \in T
    PROVE  \A s \in SUBSET S : s \in T
<1> DEFINE N == {n \in Nat : \A s \in SUBSET S : Cardinality(s) = n => s \in T}
<1>1. \A s \in SUBSET S : IsFiniteSet(s) /\ Cardinality(s) \in Nat
  BY FS_Subset, FS_CardinalityType
<1>2. 0 \in N
  BY <1>1, FS_EmptySet
<1>3. ASSUME NEW n \in Nat, \A u \in SUBSET S : Cardinality(u) = n => u \in T,
             NEW s \in SUBSET S, Cardinality(s) = n + 1
      PROVE  s \in T
  <2>1. s # {} /\ \A x \in s : Cardinality(s \ {x}) = n
    <3> HIDE DEF N
    <3> QED BY <1>1, <1>3, Smaller
  <2>2. PICK x \in s : TRUE
    BY <2>1
  <2>3. Cardinality(s \ {x}) = n
    BY <2>1
  <2>4. s \ {x} \in T /\ s = (s \ {x}) \cup {x}
    BY <1>3, <2>3
  <2>5. s \ {x} \in SUBSET S /\ x \in S /\ x \notin s \ {x}
    OBVIOUS
  <2> QED BY <2>4, <2>5
<1>4. \A n \in Nat : n \in N => n + 1 \in N
  BY <1>3
<1> HIDE DEF N
<1>5. \A n \in Nat : n \in N
  BY <1>2, <1>4, NatSet
<1> QED BY <1>1, <1>5 DEF N

-----------------------------------------------------------------------------
(* Sums.  A sum is a recursive function over the subsets; it exists, and    *)
(* there is one.                                                            *)

Some(s) == CHOOSE x \in s : TRUE

Sums(it, f, S) ==
    it = [s \in SUBSET S |-> IF s = {} THEN 0 ELSE f[Some(s)] + it[s \ {Some(s)}]]

Total(f, S) == MapThenSumSet(LAMBDA x : f[x], S)

LEMMA SomeOf == ASSUME NEW s, s # {} PROVE Some(s) \in s
BY DEF Some

LEMMA OneSum ==
    ASSUME NEW S, IsFiniteSet(S), NEW f, NEW i1, NEW i2, Sums(i1, f, S), Sums(i2, f, S)
    PROVE  i1 = i2
<1> DEFINE N == {n \in Nat : \A s \in SUBSET S : Cardinality(s) = n => i1[s] = i2[s]}
<1>0. \A s \in SUBSET S : IsFiniteSet(s) /\ Cardinality(s) \in Nat
  BY FS_Subset, FS_CardinalityType
<1>1. \A s \in SUBSET S :
        /\ i1[s] = IF s = {} THEN 0 ELSE f[Some(s)] + i1[s \ {Some(s)}]
        /\ i2[s] = IF s = {} THEN 0 ELSE f[Some(s)] + i2[s \ {Some(s)}]
  BY DEF Sums
<1>2. 0 \in N
  BY <1>0, <1>1, FS_EmptySet
<1>3. ASSUME NEW n \in Nat, \A u \in SUBSET S : Cardinality(u) = n => i1[u] = i2[u],
             NEW s \in SUBSET S, Cardinality(s) = n + 1
      PROVE  i1[s] = i2[s]
  <2>1. s # {} /\ \A x \in s : Cardinality(s \ {x}) = n
    BY <1>0, <1>3, Smaller
  <2>2. Some(s) \in s /\ s \ {Some(s)} \in SUBSET S
    BY <2>1, SomeOf
  <2>3. Cardinality(s \ {Some(s)}) = n
    BY <2>1, <2>2
  <2>4. i1[s \ {Some(s)}] = i2[s \ {Some(s)}]
    BY <1>3, <2>2, <2>3
  <2> QED BY <1>1, <2>1, <2>4
<1>4. \A n \in Nat : n \in N => n + 1 \in N
  BY <1>3
<1> HIDE DEF N
<1>5. \A n \in Nat : n \in N
  BY <1>2, <1>4, NatSet
<1>6. \A s \in SUBSET S : i1[s] = i2[s]
  BY <1>0, <1>5 DEF N
<1> QED BY <1>6 DEF Sums

LEMMA SumExists ==
    ASSUME NEW S, IsFiniteSet(S), NEW f, \A x \in S : f[x] \in Int
    PROVE  \E it \in [SUBSET S -> Int] : Sums(it, f, S)
<1> DEFINE Next1(it, s) == IF s = {} THEN 0 ELSE f[Some(s)] + it[s \ {Some(s)}]
           Upto(it, n) == \A s \in SUBSET S : Cardinality(s) <= n => it[s] = Next1(it, s)
           N == {n \in Nat : \E it \in [SUBSET S -> Int] : Upto(it, n)}
<1>0. \A s \in SUBSET S : IsFiniteSet(s) /\ Cardinality(s) \in Nat
  BY FS_Subset, FS_CardinalityType
<1>1. 0 \in N
  <2>1. [s \in SUBSET S |-> 0] \in [SUBSET S -> Int]
    OBVIOUS
  <2>2. Upto([s \in SUBSET S |-> 0], 0)
    BY <1>0, FS_EmptySet
  <2> HIDE DEF Upto
  <2> QED BY <2>1, <2>2
<1>2. ASSUME NEW n \in Nat, NEW it \in [SUBSET S -> Int], Upto(it, n)
      PROVE  \E jt \in [SUBSET S -> Int] : Upto(jt, n + 1)
  <2> DEFINE jt == [s \in SUBSET S |-> Next1(it, s)]
  <2>1. \A s \in SUBSET S : s # {} => Some(s) \in s /\ Some(s) \in S /\ s \ {Some(s)} \in SUBSET S
    BY SomeOf
  <2>2. jt \in [SUBSET S -> Int]
    BY <2>1
  <2>3. ASSUME NEW s \in SUBSET S, Cardinality(s) <= n + 1
        PROVE  jt[s] = Next1(jt, s)
    <3>1. CASE s = {}
      BY <3>1
    <3>2. CASE s # {}
      <4> DEFINE u == s \ {Some(s)}
      <4>1. Some(s) \in s /\ u \in SUBSET S
        BY <2>1, <3>2
      <4>2. Cardinality(u) = Cardinality(s) - 1
        BY <1>0, <4>1, FS_RemoveElement
      <4>3. Cardinality(u) <= n
        BY <1>0, <2>3, <4>2
      <4>4. it[u] = Next1(it, u)
        BY <1>2, <4>1, <4>3
      <4>5. jt[u] = Next1(it, u)
        BY <4>1
      <4>6. jt[s] = Next1(it, s) /\ Next1(it, s) = f[Some(s)] + it[u]
        BY <3>2
      <4>7. Next1(jt, s) = f[Some(s)] + jt[u]
        BY <3>2
      <4> HIDE DEF jt, Next1, u
      <4> QED BY <4>4, <4>5, <4>6, <4>7
    <3> QED BY <3>1, <3>2
  <2> HIDE DEF jt
  <2>4. Upto(jt, n + 1)
    BY <2>3
  <2> QED BY <2>2, <2>4
<1>3. ASSUME NEW n \in Nat, n \in N PROVE n + 1 \in N
  <2>1. PICK it \in [SUBSET S -> Int] : Upto(it, n)
    BY <1>3
  <2>2. \E jt \in [SUBSET S -> Int] : Upto(jt, n + 1)
    BY <1>2, <2>1
  <2> HIDE DEF Upto
  <2> QED BY <2>2
<1> HIDE DEF N
<1>4. \A n \in Nat : n \in N
  BY <1>1, <1>3, NatSet
<1>5. PICK it \in [SUBSET S -> Int] : Upto(it, Cardinality(S))
  BY <1>0, <1>4 DEF N
<1>6. \A s \in SUBSET S : Cardinality(s) <= Cardinality(S)
  BY FS_Subset
<1>7. it = [s \in SUBSET S |-> Next1(it, s)]
  BY <1>5, <1>6
<1> QED BY <1>7 DEF Sums

LEMMA TotalIs ==
    ASSUME NEW S, NEW f, NEW it, Sums(it, f, S), IsFiniteSet(S)
    PROVE  Total(f, S) = it[S]
<1> DEFINE jt == CHOOSE jt : Sums(jt, f, S)
<1>1. Total(f, S) = jt[S]
  BY SMT DEF Total, MapThenSumSet, MapThenFoldSet, Sums, Some
<1>2. Sums(jt, f, S)
  BY Zenon
<1> HIDE DEF jt
<1> QED BY <1>1, <1>2, OneSum

\* The sum of nothing, and the sum with one chosen element taken out.
LEMMA TotalSome ==
    ASSUME NEW S, IsFiniteSet(S), NEW f, \A x \in S : f[x] \in Int
    PROVE  /\ Total(f, S) \in Int
           /\ Total(f, {}) = 0
           /\ S # {} => Total(f, S) = f[Some(S)] + Total(f, S \ {Some(S)})
<1>1. PICK it \in [SUBSET S -> Int] : Sums(it, f, S)
  BY SumExists
<1>2. \A s \in SUBSET S : it[s] = IF s = {} THEN 0 ELSE f[Some(s)] + it[s \ {Some(s)}]
  BY <1>1 DEF Sums
<1>3. ASSUME NEW u \in SUBSET S PROVE Total(f, u) = it[u]
  <2> DEFINE jt == [s \in SUBSET u |-> it[s]]
  <2>1. \A s \in SUBSET u : s # {} => s \ {Some(s)} \in SUBSET u
    OBVIOUS
  <2>2. jt = [s \in SUBSET u |-> IF s = {} THEN 0 ELSE f[Some(s)] + jt[s \ {Some(s)}]]
    BY <1>2, <2>1
  <2>3. IsFiniteSet(u) /\ jt[u] = it[u]
    BY FS_Subset
  <2> HIDE DEF jt
  <2>4. Sums(jt, f, u)
    BY <2>2 DEF Sums
  <2> QED BY <2>3, <2>4, TotalIs
<1>4. S \ {Some(S)} \in SUBSET S /\ S \in SUBSET S /\ {} \in SUBSET S
  OBVIOUS
<1>5. /\ Total(f, S) = it[S] /\ Total(f, {}) = it[{}]
      /\ Total(f, S \ {Some(S)}) = it[S \ {Some(S)}]
  BY <1>3, <1>4
<1>6. it[{}] = 0 /\ it[S] \in Int
  BY <1>2, <1>4
<1>7. S # {} => it[S] = f[Some(S)] + it[S \ {Some(S)}]
  BY <1>2, <1>4
<1> QED BY <1>5, <1>6, <1>7

LEMMA TotalEmpty == ASSUME NEW f PROVE Total(f, {}) = 0
<1>1. IsFiniteSet({}) /\ \A x \in {} : f[x] \in Int
  BY FS_EmptySet
<1> QED BY <1>1, TotalSome

LEMMA TotalType ==
    ASSUME NEW S, IsFiniteSet(S), NEW f, \A x \in S : f[x] \in Int
    PROVE  \A s \in SUBSET S : IsFiniteSet(s) /\ Total(f, s) \in Int
<1> TAKE s \in SUBSET S
<1>1. IsFiniteSet(s) /\ \A x \in s : f[x] \in Int
  BY FS_Subset
<1> QED BY <1>1, TotalSome

\* ... and with any element taken out.
LEMMA TotalAny ==
    ASSUME NEW S, IsFiniteSet(S), NEW f, \A x \in S : f[x] \in Int, NEW x \in S
    PROVE  Total(f, S) = f[x] + Total(f, S \ {x})
<1> DEFINE Ok(s) == \A y \in s : Total(f, s) = f[y] + Total(f, s \ {y})
           N == {n \in Nat : \A s \in SUBSET S : Cardinality(s) = n => Ok(s)}
<1>0. \A s \in SUBSET S : IsFiniteSet(s) /\ Cardinality(s) \in Nat
  BY FS_Subset, FS_CardinalityType
<1>1. 0 \in N
  <2>1. \A s \in SUBSET S : Cardinality(s) = 0 => s = {}
    BY <1>0, FS_EmptySet
  <2> QED BY <2>1
<1>2. ASSUME NEW n \in Nat, \A s \in SUBSET S : Cardinality(s) = n => Ok(s),
             NEW s \in SUBSET S, Cardinality(s) = n + 1, NEW y \in s
      PROVE  Total(f, s) = f[y] + Total(f, s \ {y})
  <2> DEFINE z == Some(s)
  <2>1. /\ s # {} /\ \A w \in s : Cardinality(s \ {w}) = n
    BY <1>0, <1>2, Smaller
  <2>2. z \in s
    BY SomeOf
  <2> HIDE DEF z
  <2>3. Total(f, s) = f[z] + Total(f, s \ {z})
    <3>1. IsFiniteSet(s) /\ \A w \in s : f[w] \in Int
      BY <1>0
    <3> QED BY <2>1, <3>1, TotalSome DEF z
  <2>4. CASE y = z
    BY <2>3, <2>4
  <2>5. CASE y # z
    <3>1. Total(f, s \ {z}) = f[y] + Total(f, (s \ {z}) \ {y})
      <4>1. s \ {z} \in SUBSET S /\ Cardinality(s \ {z}) = n /\ y \in s \ {z}
        BY <2>1, <2>2, <2>5
      <4> QED BY <1>2, <4>1
    <3>2. Total(f, s \ {y}) = f[z] + Total(f, (s \ {y}) \ {z})
      <4>1. s \ {y} \in SUBSET S /\ Cardinality(s \ {y}) = n /\ z \in s \ {y}
        BY <2>1, <2>2, <2>5
      <4> QED BY <1>2, <4>1
    <3>3. (s \ {z}) \ {y} = (s \ {y}) \ {z}
      OBVIOUS
    <3>4. /\ f[y] \in Int /\ f[z] \in Int
          /\ Total(f, (s \ {y}) \ {z}) \in Int
      <4>1. (s \ {y}) \ {z} \in SUBSET S
        OBVIOUS
      <4> QED BY <2>2, <4>1, TotalType
    <3> DEFINE rest == Total(f, (s \ {y}) \ {z})
    <3>5. Total(f, s) = f[z] + (f[y] + rest) /\ Total(f, s \ {y}) = f[z] + rest
      BY <2>3, <3>1, <3>2, <3>3
    <3>6. \A a, b, c \in Int : a + (b + c) = b + (a + c)
      OBVIOUS
    <3> HIDE DEF rest
    <3>7. f[z] + (f[y] + rest) = f[y] + (f[z] + rest)
      BY <3>4, <3>6 DEF rest
    <3> QED BY <3>5, <3>7
  <2> QED BY <2>4, <2>5
<1>3. \A n \in Nat : n \in N => n + 1 \in N
  BY <1>2
<1> HIDE DEF N
<1>4. \A n \in Nat : n \in N
  BY <1>1, <1>3, NatSet
<1>5. S \in SUBSET S /\ Cardinality(S) \in Nat
  BY <1>0
<1> HIDE DEF Ok
<1>6. Ok(S)
  BY <1>4, <1>5 DEF N
<1> QED BY <1>6 DEF Ok

\* The form in which it is used: an element is added.
LEMMA TotalPlus ==
    ASSUME NEW S, IsFiniteSet(S), NEW f, \A x \in S : f[x] \in Int
    PROVE  /\ Total(f, {}) = 0
           /\ \A s \in SUBSET S, x \in S :
                x \notin s => Total(f, s \cup {x}) = Total(f, s) + f[x]
<1>1. ASSUME NEW s \in SUBSET S, NEW x \in S, x \notin s
      PROVE  Total(f, s \cup {x}) = Total(f, s) + f[x]
  <2> DEFINE u == s \cup {x}
  <2>1. u \in SUBSET S /\ x \in u /\ u \ {x} = s
    BY <1>1
  <2>2. IsFiniteSet(u) /\ Total(f, s) \in Int /\ \A y \in u : f[y] \in Int
    BY <2>1, TotalType
  <2> HIDE DEF u
  <2>3. Total(f, u) = f[x] + Total(f, u \ {x})
    BY <2>1, <2>2, TotalAny
  <2>4. Total(f, u) = Total(f, s) + f[x]
    <3>1. Total(f, u) = f[x] + Total(f, s)
      BY <2>1, <2>3
    <3>2. f[x] \in Int /\ Total(f, s) \in Int
      BY <2>1, <2>2
    <3> QED BY <3>1, <3>2
  <2> QED BY <2>4 DEF u
<1> QED BY <1>1, TotalEmpty

\* Sums of functions that agree, or one of which is nowhere greater.
LEMMA TotalLeq ==
    ASSUME NEW S, IsFiniteSet(S), NEW f, NEW g,
           \A x \in S : f[x] \in Int /\ g[x] \in Int /\ f[x] <= g[x]
    PROVE  Total(f, S) <= Total(g, S)
<1> DEFINE T == {s \in SUBSET S : Total(f, s) <= Total(g, s)}
<1>1. \A s \in SUBSET S : Total(f, s) \in Int /\ Total(g, s) \in Int
  BY TotalType
<1>2. {} \in T
  BY TotalEmpty
<1>3. ASSUME NEW s \in SUBSET S, NEW x \in S, s \in T, x \notin s
      PROVE  s \cup {x} \in T
  <2>1. Total(f, s \cup {x}) = Total(f, s) + f[x] /\ Total(g, s \cup {x}) = Total(g, s) + g[x]
    BY <1>3, TotalPlus
  <2>2. Total(f, s) <= Total(g, s)
    BY <1>3
  <2>3. Total(f, s \cup {x}) <= Total(g, s \cup {x})
    BY <1>1, <2>1, <2>2
  <2> QED BY <2>3
<1> HIDE DEF T
<1>4. S \in T
  BY <1>2, <1>3, Subsets
<1> QED BY <1>4 DEF T

LEMMA TotalSame ==
    ASSUME NEW S, IsFiniteSet(S), NEW f, NEW g,
           \A x \in S : f[x] \in Int /\ f[x] = g[x]
    PROVE  Total(f, S) = Total(g, S)
<1>1. Total(f, S) <= Total(g, S) /\ Total(g, S) <= Total(f, S)
  <2>1. \A x \in S : f[x] \in Int /\ g[x] \in Int /\ f[x] <= g[x] /\ g[x] <= f[x]
    OBVIOUS
  <2> QED BY <2>1, TotalLeq
<1>2. Total(f, S) \in Int /\ Total(g, S) \in Int
  BY TotalType
<1> QED BY <1>1, <1>2

\* One element makes the difference.
LEMMA TotalLess ==
    ASSUME NEW S, IsFiniteSet(S), NEW f, NEW g, NEW y \in S,
           \A x \in S : f[x] \in Int /\ g[x] \in Int /\ f[x] <= g[x], f[y] < g[y]
    PROVE  Total(f, S) < Total(g, S)
<1>1. Total(f, S) = f[y] + Total(f, S \ {y}) /\ Total(g, S) = g[y] + Total(g, S \ {y})
  BY TotalAny
<1>2. /\ S \ {y} \in SUBSET S /\ IsFiniteSet(S \ {y})
      /\ Total(f, S \ {y}) \in Int /\ Total(g, S \ {y}) \in Int
  BY TotalType
<1>3. Total(f, S \ {y}) <= Total(g, S \ {y})
  BY <1>2, TotalLeq
<1> QED BY <1>1, <1>2, <1>3

\* Elements renamed one to one.
LEMMA TotalRenamed ==
    ASSUME NEW S, IsFiniteSet(S), NEW f, NEW g, NEW ren,
           \A x \in S : f[x] \in Int /\ f[x] = g[ren[x]],
           \A x, y \in S : ren[x] = ren[y] => x = y
    PROVE  Total(f, S) = Total(g, {ren[x] : x \in S})
<1> DEFINE Im(s) == {ren[x] : x \in s}
           T == {s \in SUBSET S : IsFiniteSet(Im(s)) /\ Total(f, s) = Total(g, Im(s))}
<1>1. {} \in T
  <2>1. Im({}) = {} /\ {} \in SUBSET S
    OBVIOUS
  <2>2. IsFiniteSet({}) /\ Total(f, {}) = 0 /\ Total(g, {}) = 0
    BY FS_EmptySet, TotalEmpty
  <2> HIDE DEF Im
  <2> QED BY <2>1, <2>2
<1>2. ASSUME NEW s \in SUBSET S, NEW x \in S, s \in T, x \notin s
      PROVE  s \cup {x} \in T
  <2>1. Im(s \cup {x}) = Im(s) \cup {ren[x]} /\ ren[x] \notin Im(s)
    BY <1>2
  <2>2. IsFiniteSet(Im(s)) /\ Total(f, s) = Total(g, Im(s))
    BY <1>2
  <2>3. \A y \in Im(s) \cup {ren[x]} : g[y] \in Int
    OBVIOUS
  <2> HIDE DEF Im
  <2> DEFINE U == Im(s) \cup {ren[x]}
  <2>4. IsFiniteSet(U)
    BY <2>2, FS_AddElement
  <2>5. Total(g, Im(s) \cup {ren[x]}) = Total(g, Im(s)) + g[ren[x]]
    <3>1. Im(s) \in SUBSET U /\ ren[x] \in U
      OBVIOUS
    <3> QED BY <2>1, <2>3, <2>4, <3>1, TotalPlus
  <2>6. Total(f, s \cup {x}) = Total(f, s) + f[x]
    BY <1>2, TotalPlus
  <2>7. Total(f, s \cup {x}) = Total(g, Im(s \cup {x}))
    BY <2>1, <2>2, <2>5, <2>6
  <2> QED BY <2>1, <2>4, <2>7
<1> HIDE DEF T
<1>3. S \in T
  BY <1>1, <1>2, Subsets
<1> QED BY <1>3 DEF T

\* A sum of wins and draws.
LEMMA TotalCounts ==
    ASSUME NEW S, IsFiniteSet(S), NEW f, \A x \in S : f[x] \in {0, 1, 2}
    PROVE  Total(f, S) = 2 * Cardinality({x \in S : f[x] = 2})
                           + Cardinality({x \in S : f[x] = 1})
<1> DEFINE Val(s, v) == {x \in s : f[x] = v}
           T == {s \in SUBSET S :
                   Total(f, s) = 2 * Cardinality(Val(s, 2)) + Cardinality(Val(s, 1))}
<1>0. \A s \in SUBSET S : \A v \in {1, 2} :
        IsFiniteSet(Val(s, v)) /\ Cardinality(Val(s, v)) \in Nat
  <2>1. \A s \in SUBSET S : \A v \in {1, 2} : Val(s, v) \in SUBSET S
    OBVIOUS
  <2> HIDE DEF Val
  <2> QED BY <2>1, FS_Subset, FS_CardinalityType
<1>1. {} \in T
  <2>1. Val({}, 1) = {} /\ Val({}, 2) = {}
    OBVIOUS
  <2> HIDE DEF Val
  <2>2. Total(f, {}) = 0
    BY TotalEmpty
  <2> QED BY <2>1, <2>2, FS_EmptySet
<1>2. ASSUME NEW s \in SUBSET S, NEW x \in S, s \in T, x \notin s
      PROVE  s \cup {x} \in T
  <2>1. /\ Total(f, s \cup {x}) = Total(f, s) + f[x]
        /\ Total(f, s) = 2 * Cardinality(Val(s, 2)) + Cardinality(Val(s, 1))
    BY <1>2, TotalPlus
  <2>2. ASSUME NEW v \in {1, 2}
        PROVE  Cardinality(Val(s \cup {x}, v))
                 = Cardinality(Val(s, v)) + (IF f[x] = v THEN 1 ELSE 0)
    <3>1. CASE f[x] = v
      <4>1. Val(s \cup {x}, v) = Val(s, v) \cup {x} /\ x \notin Val(s, v)
        BY <1>2, <3>1
      <4> HIDE DEF Val
      <4> QED BY <1>0, <3>1, <4>1, FS_AddElement
    <3>2. CASE f[x] # v
      <4>1. Val(s \cup {x}, v) = Val(s, v)
        BY <3>2
      <4> HIDE DEF Val
      <4> QED BY <1>0, <3>2, <4>1
    <3> QED BY <3>1, <3>2
  <2> HIDE DEF Val
  <2>3. Total(f, s \cup {x}) = 2 * Cardinality(Val(s \cup {x}, 2)) + Cardinality(Val(s \cup {x}, 1))
    BY <1>0, <2>1, <2>2
  <2> QED BY <2>3
<1> HIDE DEF T
<1>3. S \in T
  BY <1>1, <1>2, Subsets
<1> QED BY <1>3 DEF T

-----------------------------------------------------------------------------
(* The sums of the standings.                                               *)

\* What a race that counts is worth to player p.
LEMMA PointsInType ==
    ASSUME NEW c, NEW p
    PROVE  /\ PointsIn(c, p) \in {0, 1, 2}
           /\ PointsIn(c, p) = 1 <=> c.race.outcome = "Tie"
           /\ PointsIn(c, p) = 2 <=> c.race.outcome = (IF c.race.p1 = p THEN "P1Win" ELSE "P2Win")
BY DEF PointsIn

WorthOf(cs, p) == [c \in Of(cs, p) |-> PointsIn(c, p)]

LEMMA PointsAreTotal ==
    ASSUME NEW cs, IsFiniteSet(cs), NEW p
    PROVE  /\ IsFiniteSet(Of(cs, p))
           /\ \A c \in Of(cs, p) : WorthOf(cs, p)[c] \in {0, 1, 2}
           /\ points(cs, p) = Total(WorthOf(cs, p), Of(cs, p))
           /\ points(cs, p) \in Int
<1> DEFINE S == Of(cs, p)
           Eq(it) == it = [s \in SUBSET S |->
                            IF s = {} THEN 0 ELSE PointsIn(Some(s), p) + it[s \ {Some(s)}]]
           jt == CHOOSE it : Eq(it)
           f == WorthOf(cs, p)
<1>1. IsFiniteSet(S)
  <2>1. S \in SUBSET cs
    BY DEF Of
  <2> HIDE DEF S
  <2> QED BY <2>1, FS_Subset
<1>2. \A c \in S : f[c] = PointsIn(c, p) /\ f[c] \in {0, 1, 2}
  BY PointsInType DEF WorthOf
<1>3. points(cs, p) = jt[S]
  BY SMT DEF points, MapThenSumSet, MapThenFoldSet, Some
<1> HIDE DEF S, f
<1>4. \A it : Sums(it, f, S) <=> Eq(it)
  <2>1. \A s \in SUBSET S : s # {} => Some(s) \in S
    BY SomeOf
  <2>2. \A s \in SUBSET S : s # {} => f[Some(s)] = PointsIn(Some(s), p)
    BY <1>2, <2>1
  <2> QED BY <2>2 DEF Sums
<1>5. \E it : Eq(it)
  <2>1. \A c \in S : f[c] \in Int
    BY <1>2
  <2> HIDE DEF Eq
  <2> QED BY <1>1, <1>4, <2>1, SumExists
<1> HIDE DEF Eq
<1>6. Eq(jt)
  BY <1>5
<1> HIDE DEF jt
<1>7. points(cs, p) = Total(f, S)
  BY <1>1, <1>3, <1>4, <1>6, TotalIs
<1>8. Total(f, S) \in Int
  <2>1. \A c \in S : f[c] \in Int
    BY <1>2
  <2> QED BY <1>1, <2>1, TotalSome
<1> QED BY <1>1, <1>2, <1>7, <1>8 DEF S, f
-----------------------------------------------------------------------------
(* Rows.                                                                    *)

LEMMA RaceFields ==
    ASSUME NEW br \in Race
    PROVE  /\ br.round \in 1..MaxRounds /\ br.p1 \in Players /\ br.p2 \in Players
           /\ br.state \in {"New", "Scheduled", "Finished"} /\ br.outcome \in Outcomes
           /\ br.r1 \in Results \cup {Missing} /\ br.r2 \in Results \cup {Missing}
BY DEF Race

LEMMA ResultsAre ==
    /\ Results \subseteq Int /\ Missing \notin Results /\ Forfeit \in Results
    /\ \A r \in Results : r # Forfeit => r \in Times /\ r \in Nat
    /\ \A r \in Results : time(r) \in Nat
BY DataAssumption DEF DataAssumption, Results, Missing, Forfeit, time

\* The outcome of two results, either way it is asked.
LEMMA OutcomeIs ==
    ASSUME NEW r1 \in Results, NEW r2 \in Results
    PROVE  /\ OutcomeOf(r1, r2) \in {"Tie", "P1Win", "P2Win"}
           /\ OutcomeOf(r1, r2) = "Tie" <=> r1 = r2
           /\ OutcomeOf(r1, r2) = "P1Win" <=> r1 # Forfeit /\ (r2 = Forfeit \/ r1 < r2)
           /\ OutcomeOf(r1, r2) = "P2Win" <=> r2 # Forfeit /\ (r1 = Forfeit \/ r2 < r1)
<1>1. r1 \in Int /\ r2 \in Int
  BY ResultsAre
<1>2. CASE r1 = r2
  BY <1>1, <1>2 DEF OutcomeOf
<1>3. CASE r1 = Forfeit /\ r2 # Forfeit
  BY <1>3 DEF OutcomeOf
<1>4. CASE r2 = Forfeit /\ r1 # Forfeit
  BY <1>4 DEF OutcomeOf
<1>5. CASE r1 # Forfeit /\ r2 # Forfeit /\ r1 < r2
  BY <1>1, <1>5 DEF OutcomeOf
<1>6. CASE r1 # Forfeit /\ r2 # Forfeit /\ r1 > r2
  BY <1>1, <1>6 DEF OutcomeOf
<1> QED BY <1>1, <1>2, <1>3, <1>4, <1>5, <1>6

LEMMA ReportOk ==
    ASSUME NEW br, RaceOk(br), NEW r1 \in Results, NEW r2 \in Results
    PROVE  LET new == add_results(br, r1, r2)
           IN  /\ RaceOk(new) /\ new.outcome = OutcomeOf(r1, r2) /\ new.outcome # "none"
               /\ new.round = br.round /\ new.p1 = br.p1 /\ new.p2 = br.p2
               /\ new.r1 = r1 /\ new.r2 = r2
<1> DEFINE new == add_results(br, r1, r2)
<1>1. br \in Race
  BY DEF RaceOk
<1>2. OutcomeOf(r1, r2) \in {"Tie", "P1Win", "P2Win"}
  BY OutcomeIs
<1>3. /\ new.round = br.round /\ new.p1 = br.p1 /\ new.p2 = br.p2 /\ new.r1 = r1 /\ new.r2 = r2
      /\ new.outcome = OutcomeOf(r1, r2)
  BY <1>1 DEF add_results, Race
<1>4. new \in Race
  BY <1>1, <1>2 DEF add_results, Race, Outcomes
<1> HIDE DEF new
<1>5. RaceOk(new)
  BY <1>2, <1>3, <1>4 DEF RaceOk
<1> QED BY <1>2, <1>3, <1>5 DEF new

\* A race that is complete has its results.
LEMMA UsableIs ==
    ASSUME NEW i \in Ids, RaceOk(race[i])
    PROVE  Usable(i) <=> race[i].outcome # "none"
BY ResultsAre DEF RaceOk, Usable

\* A set of natural numbers that is bounded and not empty has a greatest one.
LEMMA GreatestOf ==
    ASSUME NEW n \in Nat, NEW S \in SUBSET (0..n), S # {}
    PROVE  Max(S) \in S /\ \A y \in S : Max(S) >= y
<1> DEFINE U == {m \in Nat : \E x \in S : x >= m}
<1>1. ASSUME \A x \in S : \E y \in S : ~ (x >= y) PROVE FALSE
  <2>1. 0 \in U
    <3>1. PICK x \in S : x \in 0..n
      OBVIOUS
    <3>2. x >= 0
      BY <3>1
    <3> QED BY <3>2
  <2>2. ASSUME NEW m \in Nat, m \in U PROVE m + 1 \in U
    <3>1. PICK x \in S : x >= m
      BY <2>2
    <3>2. PICK y \in S : ~ (x >= y)
      BY <1>1
    <3> QED BY <3>1, <3>2
  <2> HIDE DEF U
  <2>3. n + 1 \in U
    BY <2>1, <2>2, NatSet
  <2> QED BY <2>3 DEF U
<1> QED BY <1>1 DEF Max

-----------------------------------------------------------------------------
(* What a step keeps.                                                       *)

\* Races stay; only their results and states change, and what is complete
\* stays complete.
Later ==
    /\ Ids \subseteq Ids'
    /\ \A i \in Ids : /\ race'[i].round = race[i].round
                      /\ race'[i].p1 = race[i].p1 /\ race'[i].p2 = race[i].p2
                      /\ race[i].outcome # "none" => race'[i].outcome # "none"

Kept == Later /\ race' \in Seq(Race) /\ Ids' = Ids /\ \A i \in Ids : RaceOk(race'[i])

LEMMA RaceSeq ==
    ASSUME race \in Seq(Race)
    PROVE  /\ Len(race) \in Nat /\ Ids = 1..Len(race) /\ Ids \subseteq Nat
           /\ \A i \in Ids : race[i] \in Race
           /\ race = <<>> <=> Ids = {}
<1>1. Len(race) \in Nat /\ race \in [1..Len(race) -> Race]
  OBVIOUS
<1>2. race = <<>> <=> Len(race) = 0
  OBVIOUS
<1>3. Ids = {} <=> Len(race) = 0
  <2>1. Len(race) = 0 => 1..Len(race) = {}
    BY <1>1
  <2>2. Len(race) # 0 => 1 \in 1..Len(race)
    BY <1>1
  <2> QED BY <2>1, <2>2 DEF Ids
<1> QED BY <1>1, <1>2, <1>3 DEF Ids

LEMMA CountedStays ==
    ASSUME NEW cs, CountedOk(cs), Later
    PROVE  CountedOk(cs)'
BY DEF CountedOk, Later

LEMMA KeptSame ==
    ASSUME Kept
    PROVE  Raced' = Raced /\ \A n : OfRound(n)' = OfRound(n)
<1>1. Raced' = Raced
  BY DEF Kept, Later, Raced, Plays
<1>2. ASSUME NEW n PROVE OfRound(n)' = OfRound(n)
  BY DEF Kept, Later, OfRound
<1> QED BY <1>1, <1>2

LEMMA KeptRows ==
    ASSUME RowsInv, RoundsInv, Kept, entered \subseteq entered', entered' \subseteq Players,
           bracket'.type = bracket.type,
           bracket' \in [state : {"Unstarted", "Started", "Finished"}, type : {"Swiss", "RoundRobin"}],
           bracket.state = "Unstarted" <=> bracket'.state = "Unstarted"
    PROVE  RowsInv' /\ RoundsInv'
<1>0. Raced' = Raced /\ \A n : OfRound(n)' = OfRound(n)
  BY KeptSame
<1>1. race \in Seq(Race) /\ race' \in Seq(Race) /\ Ids' = Ids
  BY DEF RowsInv, Kept
<1>2. race = <<>> <=> race' = <<>>
  <2>1. race' = <<>> <=> Ids' = {}
    BY <1>1 DEF Ids
  <2> QED BY <1>1, <2>1, RaceSeq
<1>3. RowsInv'
  BY <1>0, <1>1, <1>2 DEF RowsInv, Kept
<1>4. /\ \A i, j \in Ids' : race'[i].round < race'[j].round => race'[i].outcome # "none"
      /\ bracket'.type = "RoundRobin" => \A i \in Ids' : race'[i].round = 1
  BY <1>1 DEF RoundsInv, Kept, Later
<1>5. ASSUME bracket'.type = "Swiss", NEW i \in Ids', NEW p \in Raced'
      PROVE  \E j \in Ids : /\ race[j].round = race[i].round /\ Plays(p, race'[j])
                            /\ \A k \in Ids : race[k].round = race[i].round /\ Plays(p, race'[k])
                                                => k = j
  <2>1. i \in Ids /\ p \in Raced
    BY <1>0, <1>1, <1>5
  <2>2. PICK j \in OfRound(race[i].round) :
            /\ Plays(p, race[j])
            /\ \A k \in OfRound(race[i].round) : Plays(p, race[k]) => k = j
    BY <1>5, <2>1 DEF RoundsInv
  <2>3. \A k \in Ids : Plays(p, race'[k]) <=> Plays(p, race[k])
    BY DEF Kept, Later, Plays
  <2> QED BY <2>2, <2>3 DEF OfRound
<1>6. \A i \in Ids : race'[i].round = race[i].round
  BY DEF Kept, Later
<1>7. RoundsInv'
  <2>1. ASSUME bracket'.type = "Swiss", NEW i \in Ids', NEW p \in Raced'
        PROVE  \E j \in OfRound(race[i].round)' :
                  /\ Plays(p, race'[j])
                  /\ \A k \in OfRound(race[i].round)' : Plays(p, race'[k]) => k = j
    BY <1>1, <1>5, <1>6, <2>1 DEF OfRound
  <2> QED BY <1>4, <2>1 DEF RoundsInv
<1> QED BY <1>3, <1>7

LEMMA KeptPages ==
    ASSUME PageInv, ListedInv, Kept, page' = page, listed' = listed, bracket'.type = bracket.type,
           bracket.state # "Unstarted" => bracket'.state # "Unstarted"
    PROVE  PageInv' /\ ListedInv'
<1>0. Raced' = Raced /\ \A n : OfRound(n)' = OfRound(n)
  BY KeptSame
<1>1. CountedOk(page.counted)' /\ CountedOk(listed.counted)'
  <2>1. CountedOk(page.counted) /\ CountedOk(listed.counted) /\ Later
    BY DEF PageInv, ListedInv, Kept
  <2> QED BY <2>1, CountedStays DEF CountedOk
<1>2. Whole(page.counted)' /\ Whole(listed.counted)'
  <2>1. Whole(page.counted) /\ Whole(listed.counted)
    BY DEF PageInv, ListedInv
  <2> QED BY <1>0, <2>1 DEF Whole
<1>3. PageInv'
  BY <1>0, <1>1, <1>2 DEF PageInv
<1>4. ListedInv'
  BY <1>1, <1>2 DEF ListedInv
<1> QED BY <1>3, <1>4

-----------------------------------------------------------------------------
(* A new round.                                                             *)

LEMMA InOrderIs ==
    ASSUME NEW ps, IsFiniteSet(ps)
    PROVE  /\ Cardinality(ps) \in Nat
           /\ InOrder(ps) \in [1..Cardinality(ps) -> ps]
           /\ \A i, j \in 1..Cardinality(ps) : InOrder(ps)[i] = InOrder(ps)[j] => i = j
           /\ \A x \in ps : \E i \in 1..Cardinality(ps) : InOrder(ps)[i] = x
<1> DEFINE n == Cardinality(ps)
<1>1. n \in Nat /\ ExistsBijection(1..n, ps)
  BY FS_CardinalityType
<1>2. \E s \in [1..n -> ps] : \A i, j \in DOMAIN s : i # j => s[i] # s[j]
  BY <1>1 DEF ExistsBijection, Bijection, Injection, IsInjective
<1> DEFINE s == InOrder(ps)
<1>3. s \in [1..n -> ps] /\ \A i, j \in DOMAIN s : i # j => s[i] # s[j]
  BY <1>2 DEF InOrder
<1> HIDE DEF s, n
<1>4. s \in Injection(1..n, ps)
  BY <1>3 DEF Injection, IsInjective
<1>5. IsFiniteSet(1..n) /\ Cardinality(1..n) = n
  BY <1>1, FS_Interval
<1>6. s \in Surjection(1..n, ps)
  BY <1>4, <1>5, FS_Injection DEF n
<1>7. \A x \in ps : \E i \in 1..n : s[i] = x
  BY <1>6 DEF Surjection
<1>8. \A i, j \in 1..n : s[i] = s[j] => i = j
  BY <1>3
<1> QED BY <1>1, <1>3, <1>7, <1>8 DEF s, n

LEMMA OneTwo == IsFiniteSet({1, 2}) /\ Cardinality({1, 2}) = 2
<1>1. {1, 2} = {1} \cup {2} /\ 2 \notin {1}
  OBVIOUS
<1> DEFINE one == {1}
<1>2. IsFiniteSet(one) /\ Cardinality(one) = 1
  BY FS_Singleton
<1>3. 2 \notin one
  OBVIOUS
<1> HIDE DEF one
<1>4. IsFiniteSet(one \cup {2}) /\ Cardinality(one \cup {2}) = Cardinality(one) + 1
  BY <1>2, <1>3, FS_AddElement
<1>5. IsFiniteSet(one \cup {2}) /\ Cardinality(one \cup {2}) = 2
  BY <1>2, <1>4
<1> QED BY <1>1, <1>5 DEF one

\* When pairs cover twice as many as there are pairs, nobody is in two.
LEMMA OncePaired ==
    ASSUME NEW who, NEW ps \in SUBSET (who \X who), IsFiniteSet(ps), IsFiniteSet(who),
           2 * Cardinality(ps) = Cardinality(who), UNION {{pq[1], pq[2]} : pq \in ps} = who
    PROVE  \A x, y \in ps : \A p \in {x[1], x[2]} : p \in {y[1], y[2]} => x = y
<1> DEFINE D == ps \X {1, 2}
           f == [d \in D |-> d[1][d[2]]]
<1>1. IsFiniteSet(D) /\ Cardinality(D) = Cardinality(who)
  <2>1. IsFiniteSet({1, 2}) /\ Cardinality({1, 2}) = 2
    BY OneTwo
  <2>2. IsFiniteSet(D) /\ Cardinality(D) = Cardinality(ps) * Cardinality({1, 2})
    BY <2>1, FS_Product
  <2>3. Cardinality(ps) \in Nat
    BY FS_CardinalityType
  <2> HIDE DEF D
  <2> QED BY <2>1, <2>2, <2>3
<1>2. \A x \in ps : x \in who \X who /\ x[1] \in who /\ x[2] \in who
  OBVIOUS
<1>3. f \in [D -> who]
  BY <1>2
<1>4. \A p \in who : \E d \in D : f[d] = p
  <2> TAKE p \in who
  <2>1. PICK x \in ps : p \in {x[1], x[2]}
    OBVIOUS
  <2>2. CASE p = x[1]
    <3>1. <<x, 1>> \in D /\ f[<<x, 1>>] = p
      BY <2>2
    <3> QED BY <3>1
  <2>3. CASE p = x[2]
    <3>1. <<x, 2>> \in D /\ f[<<x, 2>>] = p
      BY <2>3
    <3> QED BY <3>1
  <2> QED BY <2>1, <2>2, <2>3
<1>5. ASSUME NEW x \in ps, NEW y \in ps, NEW i \in {1, 2}, NEW j \in {1, 2}, x[i] = y[j]
      PROVE  x = y
  <2>1. <<x, i>> \in D /\ <<y, j>> \in D /\ f[<<x, i>>] = f[<<y, j>>]
    BY <1>5
  <2>2. f \in Surjection(D, who)
    <3> HIDE DEF f, D
    <3> QED BY <1>3, <1>4 DEF Surjection
  <2> HIDE DEF f, D
  <2>3. f \in Injection(D, who)
    BY <1>1, <2>2, FS_SurjSameCardinalityImpliesInj
  <2>4. <<x, i>> = <<y, j>>
    BY <2>1, <2>3 DEF Injection, IsInjective
  <2> QED BY <2>4
<1> HIDE DEF D, f
<1> QED BY <1>5

LEMMA Drawn ==
    ASSUME RowsInv
    PROVE  /\ RoundsDrawn \in 0..MaxRounds
           /\ \A i \in Ids : race[i].round \in 1..MaxRounds /\ race[i].round <= RoundsDrawn
           /\ Ids = {} => RoundsDrawn = 0
<1> DEFINE S == {0} \cup {race[i].round : i \in Ids}
<1>1. MaxRounds \in Nat
  BY DataAssumption DEF DataAssumption
<1>2. \A i \in Ids : race[i].round \in 1..MaxRounds
  BY RaceSeq, RaceFields DEF RowsInv
<1>3. S \in SUBSET (0..MaxRounds) /\ S # {}
  BY <1>1, <1>2
<1>4. \A i \in Ids : race[i].round \in S
  OBVIOUS
<1>5. Ids = {} => S = {0}
  OBVIOUS
<1> HIDE DEF S
<1>6. Max(S) \in S /\ \A y \in S : Max(S) >= y
  BY <1>1, <1>3, GreatestOf
<1>7. RoundsDrawn = Max(S)
  BY DEF RoundsDrawn, S
<1> HIDE DEF RoundsDrawn
<1>8. \A i \in Ids : race[i].round <= RoundsDrawn
  BY <1>1, <1>2, <1>3, <1>4, <1>6, <1>7
<1>9. RoundsDrawn \in 0..MaxRounds
  BY <1>3, <1>6, <1>7
<1>10. Ids = {} => RoundsDrawn = 0
  BY <1>5, <1>6, <1>7
<1> HIDE DEF Ids
<1> QED BY <1>2, <1>8, <1>9, <1>10

LEMMA Appended ==
    ASSUME NEW S, NEW a \in Seq(S), NEW n \in Nat, NEW f \in [1..n -> S]
    PROVE  /\ a \o f \in Seq(S) /\ Len(a \o f) = Len(a) + n
           /\ \A i \in 1..Len(a) : (a \o f)[i] = a[i]
           /\ \A i \in (1..Len(a \o f)) \ (1..Len(a)) : i - Len(a) \in 1..n /\ (a \o f)[i] = f[i - Len(a)]
<1>1. f \in Seq(S) /\ Len(f) = n
  OBVIOUS
<1> QED BY <1>1

Who == IF race = <<>> THEN entered ELSE Raced

LEMMA WhoIs ==
    ASSUME RowsInv
    PROVE  /\ Who \subseteq entered /\ IsFiniteSet(Who)
           /\ Pairings = LET pairs == {pq \in Who \X Who : pq[1] < pq[2]}
                         IN  IF bracket.type = "RoundRobin" THEN {pairs}
                             ELSE {ps \in SUBSET pairs :
                                     /\ 2 * Cardinality(ps) = Cardinality(Who)
                                     /\ UNION {{pq[1], pq[2]} : pq \in ps} = Who}
<1>1. Who \subseteq entered /\ Who \in SUBSET Players /\ IsFiniteSet(Players)
  BY DataAssumption DEF DataAssumption, RowsInv, Who
<1>2. IsFiniteSet(Who)
  BY <1>1, FS_Subset
<1>3. \A i \in Ids : race[i].p1 \in Players /\ race[i].p2 \in Players
  BY RaceSeq, RaceFields DEF RowsInv
<1>4. Raced = UNION {{race[i].p1, race[i].p2} : i \in Ids}
  BY <1>3 DEF Raced, Plays
<1> QED BY <1>1, <1>2, <1>4 DEF Pairings, Who

\* The races that are drawn: one for each pair, and in a Swiss round one for
\* each player.
LEMMA NewRound ==
    ASSUME RowsInv, generate_pairings
    PROVE  /\ RoundsDrawn + 1 \in 1..MaxRounds
           /\ race' \in Seq(Race) /\ Ids \subseteq Ids' /\ Ids' # {}
           /\ \A i \in Ids : race'[i] = race[i]
           /\ \A i \in Ids' \ Ids :
                /\ RaceOk(race'[i]) /\ race'[i].round = RoundsDrawn + 1
                /\ race'[i].p1 \in Who /\ race'[i].p2 \in Who
           /\ bracket.type = "Swiss" =>
                \A p \in Who : \E j \in Ids' \ Ids :
                    /\ Plays(p, race'[j])
                    /\ \A k \in Ids' \ Ids : Plays(p, race'[k]) => k = j
<1> DEFINE R == RoundsDrawn + 1
<1>1. PICK ps \in Pairings :
        /\ ps # {}
        /\ race' = race \o [i \in 1..Cardinality(ps) |->
                              NewRace(R, InOrder(ps)[i][1], InOrder(ps)[i][2])]
  BY DEF generate_pairings
<1>2. RoundsDrawn \in 0..MaxRounds /\ RoundsDrawn < MaxRounds /\ MaxRounds \in Nat
  BY Drawn, DataAssumption DEF DataAssumption, generate_pairings
<1> HIDE DEF RoundsDrawn
<1>3. R \in 1..MaxRounds
  BY <1>2
<1>4. /\ \A pq \in ps : pq \in Who \X Who /\ pq[1] < pq[2]
      /\ bracket.type = "Swiss" => /\ 2 * Cardinality(ps) = Cardinality(Who)
                                   /\ UNION {{pq[1], pq[2]} : pq \in ps} = Who
  BY <1>1, WhoIs
<1>5. IsFiniteSet(ps)
  <2>1. ps \in SUBSET (Who \X Who)
    BY <1>4
  <2>2. IsFiniteSet(Who)
    BY WhoIs
  <2>3. IsFiniteSet(Who \X Who)
    BY <2>2, FS_Product
  <2> QED BY <2>1, <2>3, FS_Subset
<1> DEFINE n == Cardinality(ps)
           s == InOrder(ps)
           new == [i \in 1..n |-> NewRace(R, s[i][1], s[i][2])]
<1>6. /\ n \in Nat /\ s \in [1..n -> ps]
      /\ \A i, j \in 1..n : s[i] = s[j] => i = j
      /\ \A x \in ps : \E i \in 1..n : s[i] = x
  BY <1>5, InOrderIs
<1>7. \A i \in 1..n : /\ s[i] \in ps /\ s[i][1] \in Who /\ s[i][2] \in Who
                      /\ s[i][1] < s[i][2] /\ s[i][1] \in Players /\ s[i][2] \in Players
  <2>1. Who \subseteq Players
    BY WhoIs DEF RowsInv
  <2> HIDE DEF s, n
  <2> QED BY <1>4, <1>6, <2>1
<1> HIDE DEF s, n, R
<1>8. ASSUME NEW p \in Players, NEW q \in Players, p < q
      PROVE  /\ NewRace(R, p, q) \in Race /\ RaceOk(NewRace(R, p, q)) /\ NewRace(R, p, q).round = R
             /\ NewRace(R, p, q).p1 = p /\ NewRace(R, p, q).p2 = q
  <2>1. NewRace(R, p, q) \in Race
    BY <1>3 DEF NewRace, Race, Outcomes
  <2> QED BY <1>8, <2>1 DEF NewRace, RaceOk
<1>9. \A i \in 1..n : /\ new[i] \in Race /\ RaceOk(new[i]) /\ new[i].round = R
                      /\ new[i].p1 = s[i][1] /\ new[i].p2 = s[i][2]
  BY <1>7, <1>8
<1>10. new \in [1..n -> Race] /\ race' = race \o new
  BY <1>1, <1>9 DEF s, n
<1> HIDE DEF new
<1>11. race \in Seq(Race) /\ Ids = 1..Len(race) /\ Len(race) \in Nat
  BY RaceSeq DEF RowsInv
<1>12. /\ race' \in Seq(Race) /\ Len(race') = Len(race) + n
       /\ \A i \in 1..Len(race) : race'[i] = race[i]
       /\ \A i \in (1..Len(race')) \ (1..Len(race)) :
            i - Len(race) \in 1..n /\ race'[i] = new[i - Len(race)]
  <2> DEFINE both == race \o new
  <2>1. /\ both \in Seq(Race) /\ Len(both) = Len(race) + n
        /\ \A i \in 1..Len(race) : both[i] = race[i]
        /\ \A i \in (1..Len(both)) \ (1..Len(race)) :
             i - Len(race) \in 1..n /\ both[i] = new[i - Len(race)]
    BY <1>6, <1>10, <1>11, Appended
  <2> HIDE DEF both
  <2>2. race' = both
    BY <1>10 DEF both
  <2> QED BY <2>1, <2>2
<1>13. Ids' = 1..Len(race')
  BY DEF Ids
<1>14. \E i \in 1..n : TRUE
  BY <1>1, <1>6
<1>15. \A k \in 1..n : k + Len(race) \in Ids' \ Ids /\ (k + Len(race)) - Len(race) = k
  BY <1>6, <1>11, <1>12, <1>13
<1>16. Ids \subseteq Ids' /\ Ids' # {}
  <2>1. Ids' # {}
    BY <1>14, <1>15
  <2> QED BY <1>6, <1>11, <1>12, <1>13, <2>1
<1> HIDE DEF Ids
<1>17. \A i \in Ids' \ Ids : i - Len(race) \in 1..n /\ race'[i] = new[i - Len(race)]
  BY <1>11, <1>12, <1>13
<1>18. \A i \in Ids' \ Ids : /\ RaceOk(race'[i]) /\ race'[i].round = R
                             /\ race'[i].p1 \in Who /\ race'[i].p2 \in Who
  BY <1>7, <1>9, <1>17
<1>19. ASSUME bracket.type = "Swiss", NEW p \in Who
       PROVE  \E j \in Ids' \ Ids : /\ Plays(p, race'[j])
                                    /\ \A k \in Ids' \ Ids : Plays(p, race'[k]) => k = j
  <2>1. PICK x \in ps : p \in {x[1], x[2]}
    BY <1>4, <1>19
  <2>2. PICK i \in 1..n : s[i] = x
    BY <1>6
  <2>3. \A y \in ps : p \in {y[1], y[2]} => y = x
    <3>1. ps \in SUBSET (Who \X Who) /\ IsFiniteSet(Who)
      BY <1>4, WhoIs
    <3> QED BY <1>4, <1>5, <1>19, <2>1, <3>1, OncePaired
  <2> DEFINE j == i + Len(race)
  <2>4. j \in Ids' \ Ids /\ j - Len(race) = i
    BY <1>15
  <2>5. Plays(p, race'[j])
    BY <1>9, <1>17, <2>1, <2>2, <2>4 DEF Plays
  <2>6. ASSUME NEW k \in Ids' \ Ids, Plays(p, race'[k])
        PROVE  k = j
    <3>1. k - Len(race) \in 1..n /\ race'[k] = new[k - Len(race)]
      BY <1>17
    <3>2. p \in {s[k - Len(race)][1], s[k - Len(race)][2]} /\ s[k - Len(race)] \in ps
      BY <1>7, <1>9, <2>6, <3>1 DEF Plays
    <3>3. k - Len(race) = i
      BY <1>6, <2>2, <2>3, <3>1, <3>2
    <3>4. k \in Nat
      BY <1>13, <1>12, <1>11
    <3> QED BY <1>11, <3>3, <3>4
  <2> QED BY <2>4, <2>5, <2>6
<1> QED BY <1>3, <1>11, <1>12, <1>16, <1>18, <1>19 DEF R

LEMMA DrawRows ==
    ASSUME RowsInv, RoundsInv, generate_pairings
    PROVE  /\ Later /\ RowsInv' /\ RoundsInv' /\ bracket' = [bracket EXCEPT !.state = "Started"]
           /\ \A n \in Int : n <= RoundsDrawn => OfRound(n)' = OfRound(n)
           /\ race # <<>> => Raced' = Raced
<1>0. /\ entered' = entered /\ bracket' = [bracket EXCEPT !.state = "Started"]
      /\ bracket.state = "Unstarted" \/ bracket.type = "Swiss"
      /\ \A i \in Ids : race[i].state = "Finished"
  BY DEF generate_pairings
<1>1. /\ RoundsDrawn \in Int
      /\ \A i \in Ids : race[i].round \in Int /\ race[i].round <= RoundsDrawn
      /\ Ids = {} => RoundsDrawn = 0
  BY Drawn
<1>2. /\ race' \in Seq(Race) /\ Ids \subseteq Ids' /\ Ids' # {}
      /\ \A i \in Ids : race'[i] = race[i]
      /\ \A i \in Ids' \ Ids :
           /\ RaceOk(race'[i]) /\ race'[i].round = RoundsDrawn + 1
           /\ race'[i].p1 \in Who /\ race'[i].p2 \in Who
  BY NewRound
<1>3. bracket.type = "Swiss" =>
        \A p \in Who : \E j \in Ids' \ Ids :
            /\ Plays(p, race'[j])
            /\ \A k \in Ids' \ Ids : Plays(p, race'[k]) => k = j
  BY NewRound
<1>4. race = <<>> <=> Ids = {}
  BY RaceSeq DEF RowsInv
<1>5. race' # <<>>
  <2>1. race' = <<>> => Ids' = {}
    BY DEF Ids
  <2> QED BY <1>2, <2>1
<1>6. Who \subseteq entered
  BY WhoIs
<1> HIDE DEF Ids, RoundsDrawn
<1>7. Raced' \subseteq Who
  <2>1. ASSUME NEW p \in Raced' PROVE p \in Who
    <3>1. PICK i \in Ids' : Plays(p, race'[i])
      BY <2>1 DEF Raced
    <3>2. p \in Players
      BY <2>1 DEF Raced
    <3>3. CASE i \in Ids
      <4>1. p \in Raced /\ race # <<>>
        BY <1>2, <1>4, <3>1, <3>2, <3>3 DEF Raced
      <4> QED BY <4>1 DEF Who
    <3>4. CASE i \notin Ids
      BY <1>2, <3>1, <3>4 DEF Plays
    <3> QED BY <3>3, <3>4
  <2> QED BY <2>1
<1>8. race # <<>> => Who = Raced /\ Raced' = Raced
  <2>1. Raced \subseteq Raced'
    BY <1>2 DEF Raced
  <2> QED BY <1>7, <2>1 DEF Who
<1>9. Later
  BY <1>2 DEF Later
<1>10. bracket' \in [state : {"Unstarted", "Started", "Finished"}, type : {"Swiss", "RoundRobin"}]
       /\ bracket'.state = "Started" /\ bracket'.type = bracket.type
  BY <1>0 DEF RowsInv
<1>11. RowsInv'
  <2>1. \A i \in Ids' : RaceOk(race'[i])
    BY <1>2 DEF RowsInv
  <2> QED BY <1>0, <1>2, <1>5, <1>6, <1>7, <1>10, <2>1 DEF RowsInv
<1>12. \A n \in Int : n <= RoundsDrawn => OfRound(n)' = OfRound(n)
  <2> TAKE n \in Int
  <2> HAVE n <= RoundsDrawn
  <2>1. n # RoundsDrawn + 1
    BY <1>1
  <2> QED BY <1>2, <2>1 DEF OfRound
<1>13. RoundsInv'
  <2>1. ASSUME NEW i \in Ids', NEW j \in Ids', race'[i].round < race'[j].round
        PROVE  race'[i].outcome # "none"
    <3>1. CASE i \in Ids
      <4>1. RaceOk(race[i]) /\ race[i].state = "Finished"
        BY <1>0, <3>1 DEF RowsInv
      <4> QED BY <1>2, <3>1, <4>1 DEF RaceOk
    <3>2. CASE i \notin Ids
      <4>1. race'[i].round = RoundsDrawn + 1
        BY <1>2, <3>2
      <4>2. race'[j].round \in Int /\ race'[j].round <= RoundsDrawn + 1
        <5>1. CASE j \in Ids
          BY <1>1, <1>2, <5>1
        <5>2. CASE j \notin Ids
          BY <1>1, <1>2, <5>2
        <5> QED BY <5>1, <5>2
      <4> QED BY <1>1, <2>1, <4>1, <4>2
    <3> QED BY <3>1, <3>2
  <2>2. ASSUME bracket'.type = "RoundRobin", NEW i \in Ids'
        PROVE  race'[i].round = 1
    <3>1. bracket.state = "Unstarted"
      BY <1>0, <1>10, <2>2
    <3>2. Ids = {} /\ RoundsDrawn = 0
      BY <1>1, <1>4, <3>1 DEF RowsInv
    <3> QED BY <1>2, <3>2
  <2>3. ASSUME bracket'.type = "Swiss", NEW i \in Ids', NEW p \in Raced'
        PROVE  \E j \in OfRound(race[i].round)' :
                  /\ Plays(p, race'[j])
                  /\ \A k \in OfRound(race[i].round)' : Plays(p, race'[k]) => k = j
    <3>1. CASE i \in Ids
      <4>1. p \in Raced
        BY <1>4, <1>8, <2>3, <3>1
      <4>2. PICK j \in OfRound(race[i].round) :
              /\ Plays(p, race[j])
              /\ \A k \in OfRound(race[i].round) : Plays(p, race[k]) => k = j
        BY <1>10, <2>3, <3>1, <4>1 DEF RoundsInv
      <4>3. OfRound(race[i].round)' = OfRound(race[i].round)
        <5>1. race'[i].round = race[i].round /\ race[i].round # RoundsDrawn + 1
          BY <1>1, <1>2, <3>1
        <5> QED BY <1>2, <5>1 DEF OfRound
      <4>4. \A k \in OfRound(race[i].round) : race'[k] = race[k]
        BY <1>2 DEF OfRound
      <4> QED BY <4>2, <4>3, <4>4
    <3>2. CASE i \notin Ids
      <4>1. OfRound(race[i].round)' = Ids' \ Ids
        <5>1. race'[i].round = RoundsDrawn + 1
          BY <1>2, <3>2
        <5>2. \A k \in Ids : race'[k].round # RoundsDrawn + 1
          BY <1>1, <1>2
        <5> QED BY <1>2, <5>1, <5>2 DEF OfRound
      <4>2. p \in Who
        BY <1>7
      <4> QED BY <1>3, <1>10, <2>3, <4>1, <4>2
    <3> QED BY <3>1, <3>2
  <2> QED BY <2>1, <2>2, <2>3 DEF RoundsInv
<1> QED BY <1>0, <1>8, <1>9, <1>11, <1>12, <1>13

LEMMA DrawPages ==
    ASSUME RowsInv, RoundsInv, PageInv, ListedInv, generate_pairings
    PROVE  PageInv' /\ ListedInv'
<1>0. page' = page /\ listed' = listed
  BY DEF generate_pairings
<1>1. /\ Later /\ RowsInv' /\ bracket' = [bracket EXCEPT !.state = "Started"]
      /\ \A n \in Int : n <= RoundsDrawn => OfRound(n)' = OfRound(n)
      /\ race # <<>> => Raced' = Raced
  BY DrawRows
<1>2. bracket'.state = "Started" /\ bracket'.type = bracket.type
  BY <1>1 DEF RowsInv
<1>3. \A cs : CountedOk(cs) => \A c \in cs : OfRound(c.race.round)' = OfRound(c.race.round)
  <2> TAKE cs
  <2> HAVE CountedOk(cs)
  <2> TAKE c \in cs
  <2>1. c.id \in Ids /\ race[c.id].round = c.race.round
    BY DEF CountedOk
  <2>2. c.race.round \in Int /\ c.race.round <= RoundsDrawn
    BY <2>1, Drawn
  <2> HIDE DEF RoundsDrawn, OfRound
  <2> QED BY <1>1, <2>2
<1>4. \A cs : CountedOk(cs) /\ Whole(cs) =>
        /\ \A c \in cs :
             /\ c \in Counted /\ c.id \in Ids' /\ RaceOk(c.race) /\ c.race.outcome # "none"
             /\ race'[c.id].outcome # "none" /\ race'[c.id].round = c.race.round
             /\ race'[c.id].p1 = c.race.p1 /\ race'[c.id].p2 = c.race.p2
        /\ \A c, d \in cs : c.id = d.id => c = d
        /\ bracket'.type = "Swiss" =>
             \A c \in cs : \A i \in OfRound(c.race.round)' : \E d \in cs : d.id = i
  <2> TAKE cs
  <2> HAVE CountedOk(cs) /\ Whole(cs)
  <2>1. \A c \in cs : OfRound(c.race.round)' = OfRound(c.race.round)
    BY <1>3
  <2>2. bracket'.type = "Swiss" =>
           \A c \in cs : \A i \in OfRound(c.race.round)' : \E d \in cs : d.id = i
    BY <1>2, <2>1 DEF Whole
  <2> QED BY <1>1, <2>2 DEF CountedOk, Later
<1>5. /\ CountedOk(page.counted)' /\ CountedOk(listed.counted)'
      /\ Whole(page.counted)' /\ Whole(listed.counted)'
  <2>1. CountedOk(page.counted) /\ CountedOk(listed.counted) /\ Whole(page.counted) /\ Whole(listed.counted)
    BY DEF PageInv, ListedInv
  <2>2. CountedOk(page.counted)' /\ CountedOk(listed.counted)'
    BY <1>0, <1>4, <2>1 DEF CountedOk
  <2>3. Whole(page.counted)' /\ Whole(listed.counted)'
    BY <1>0, <1>4, <2>1 DEF Whole, OfRound
  <2> QED BY <2>2, <2>3
<1>6. page.pc \in {"rounds", "races"} => Raced' \subseteq page.players
  BY <1>1 DEF PageInv, RowsInv
<1>7. PageInv'
  BY <1>0, <1>2, <1>5, <1>6 DEF PageInv
<1>8. ListedInv'
  BY <1>0, <1>5 DEF ListedInv
<1> QED BY <1>7, <1>8

-----------------------------------------------------------------------------
(* Reading a page.                                                          *)

LEMMA PageFields ==
    ASSUME NEW pg \in Page
    PROVE  /\ pg.pc \in {"idle", "players", "rounds", "races"} /\ pg.started \in BOOLEAN
           /\ pg.players \in SUBSET Players /\ pg.rounds \in 0..MaxRounds
           /\ pg.next \in 1..(MaxRounds + 1) /\ pg.counted \in SUBSET Counted
BY DEF Page

LEMMA NoPageIs ==
    /\ NoPage \in Page /\ NoPage.pc = "idle" /\ ~NoPage.started /\ NoPage.counted = {} /\ NoPage.next = 1
    /\ \A b \in BOOLEAN : LET pg == [NoPage EXCEPT !.pc = "players", !.started = b]
                          IN  /\ pg \in Page /\ pg.pc = "players" /\ pg.started = b
                              /\ pg.counted = {} /\ pg.next = 1
<1>1. MaxRounds \in Nat
  BY DataAssumption DEF DataAssumption
<1>2. 0 \in 0..MaxRounds /\ 1 \in 1..(MaxRounds + 1)
  BY <1>1
<1> QED BY <1>2 DEF NoPage, Page

LEMMA NothingCounted ==
    ASSUME NEW cs, cs = {} PROVE CountedOk(cs) /\ Whole(cs)
BY DEF CountedOk, Whole

\* What a page counts of races that have not changed since it counts still.
LEMMA SameRaces ==
    ASSUME race' = race, bracket' = bracket
    PROVE  /\ Ids' = Ids /\ Raced' = Raced
           /\ \A cs : CountedOk(cs) =>
                /\ \A c \in cs :
                     /\ c \in Counted /\ c.id \in Ids' /\ RaceOk(c.race) /\ c.race.outcome # "none"
                     /\ race'[c.id].outcome # "none" /\ race'[c.id].round = c.race.round
                     /\ race'[c.id].p1 = c.race.p1 /\ race'[c.id].p2 = c.race.p2
                /\ \A c, d \in cs : c.id = d.id => c = d
BY DEF Ids, Raced, CountedOk

LEMMA ReadRows ==
    ASSUME RowsInv, RoundsInv, race' = race, bracket' = bracket, entered' = entered
    PROVE  RowsInv' /\ RoundsInv'
BY DEF RowsInv, RoundsInv, Ids, Raced, OfRound

\* The page step by step: a page that keeps what it has counted.
LEMMA ReadPages ==
    ASSUME IInv, race' = race, bracket' = bracket, entered' = entered, listed' = listed,
           page' \in Page, page'.counted = page.counted,
           page'.started => bracket.state # "Unstarted",
           page'.pc \in {"rounds", "races"} => page'.started /\ Raced \subseteq page'.players,
           page'.pc # "races" => page'.counted = {} /\ page'.next = 1,
           \A c \in page'.counted : c.race.round < page'.next,
           page'.pc = "players" /\ ~page'.started => listed.counted = {},
           page'.pc = "races" => \A d \in listed.counted :
             /\ d.race.round <= page'.rounds
             /\ d.race.round < page'.next => \E c \in page'.counted : c.id = d.id
    PROVE  IInv'
<1>1. RowsInv' /\ RoundsInv'
  BY ReadRows DEF IInv
<1>2. Ids' = Ids /\ Raced' = Raced
  BY SameRaces
<1>3. CountedOk(page.counted) /\ CountedOk(listed.counted) /\ Whole(page.counted) /\ Whole(listed.counted)
  BY DEF IInv, PageInv, ListedInv
<1>4. CountedOk(page.counted)' /\ CountedOk(listed.counted)'
  BY <1>2, <1>3 DEF CountedOk
<1>5. Whole(page.counted)' /\ Whole(listed.counted)'
  BY <1>2, <1>3 DEF Whole, OfRound
<1>6. PageInv'
  BY <1>2, <1>4, <1>5 DEF PageInv
<1>7. ListedInv'
  BY <1>4, <1>5 DEF ListedInv, IInv
<1> QED BY <1>1, <1>6, <1>7 DEF IInv

LEMMA ListedDrawn ==
    ASSUME IInv
    PROVE  /\ \A cs : CountedOk(cs) => \A c \in cs : /\ c.race.round \in 1..MaxRounds
                                                     /\ c.race.round <= RoundsDrawn
           /\ race = <<>> => \A cs : CountedOk(cs) => cs = {}
<1>1. \A cs : CountedOk(cs) => \A c \in cs : c.id \in Ids /\ race[c.id].round = c.race.round
  BY DEF CountedOk
<1>2. \A i \in Ids : race[i].round \in 1..MaxRounds /\ race[i].round <= RoundsDrawn
  BY Drawn DEF IInv
<1>3. race = <<>> => Ids = {}
  BY RaceSeq DEF IInv, RowsInv
<1> QED BY <1>1, <1>2, <1>3

LEMMA LoadBracketKeeps == ASSUME IInv, LoadBracket PROVE IInv'
<1>1. /\ page' = [NoPage EXCEPT !.pc = "players", !.started = bracket.state # "Unstarted"]
      /\ bracket' = bracket /\ entered' = entered /\ race' = race /\ listed' = listed
      /\ page.pc = "idle"
  BY DEF LoadBracket
<1>2. /\ page' \in Page /\ page'.pc = "players" /\ page'.started = (bracket.state # "Unstarted")
      /\ page'.counted = {} /\ page'.next = 1
  BY <1>1, NoPageIs
<1>3. page.counted = {}
  BY <1>1 DEF IInv, PageInv
<1>4. bracket.state = "Unstarted" => listed.counted = {}
  BY ListedDrawn DEF IInv, RowsInv, ListedInv
<1> QED BY <1>1, <1>2, <1>3, <1>4, ReadPages

LEMMA LoadPlayersKeeps == ASSUME IInv, LoadPlayers PROVE IInv'
<1>1. /\ page.pc = "players"
      /\ bracket' = bracket /\ entered' = entered /\ race' = race
  BY DEF LoadPlayers
<1>2. page \in Page /\ page.counted = {} /\ page.next = 1 /\ (page.started => bracket.state # "Unstarted")
  BY <1>1 DEF IInv, PageInv
<1>3. CASE page.started
  <2>1. page' = [page EXCEPT !.pc = "rounds", !.players = entered] /\ listed' = listed
    BY <1>3 DEF LoadPlayers
  <2>2. entered \in SUBSET Players /\ Raced \subseteq entered
    BY DEF IInv, RowsInv
  <2>3. /\ page' \in Page /\ page'.pc = "rounds" /\ page'.players = entered
        /\ page'.started = page.started /\ page'.counted = {} /\ page'.next = 1
    BY <1>2, <2>1, <2>2 DEF Page
  <2> QED BY <1>1, <1>2, <1>3, <2>1, <2>2, <2>3, ReadPages
<1>4. CASE ~page.started
  <2>1. page' = NoPage /\ listed' = [counted |-> {}, players |-> entered, unknown |-> {}]
    BY <1>4 DEF LoadPlayers
  <2>2. listed'.counted = {} /\ page'.counted = {}
    BY <2>1, NoPageIs
  <2>3. RowsInv' /\ RoundsInv'
    BY <1>1, ReadRows DEF IInv
  <2>4. CountedOk(page.counted)' /\ CountedOk(listed.counted)'
    BY <2>2 DEF CountedOk
  <2>5. Whole(page.counted)' /\ Whole(listed.counted)'
    BY <2>2 DEF Whole
  <2>6. page' \in Page /\ page'.pc = "idle" /\ ~page'.started /\ page'.next = 1
    BY <2>1, NoPageIs
  <2>7. PageInv'
    BY <2>2, <2>4, <2>5, <2>6 DEF PageInv
  <2>8. ListedInv'
    BY <2>2, <2>4, <2>5, <2>6 DEF ListedInv
  <2> QED BY <2>3, <2>7, <2>8 DEF IInv
<1> QED BY <1>3, <1>4

LEMMA LoadRoundsKeeps == ASSUME IInv, LoadRounds PROVE IInv'
<1>1. /\ page.pc = "rounds" /\ page' = [page EXCEPT !.pc = "races", !.rounds = RoundsDrawn]
      /\ bracket' = bracket /\ entered' = entered /\ race' = race /\ listed' = listed
  BY DEF LoadRounds
<1>2. /\ page \in Page /\ page.counted = {} /\ page.next = 1
      /\ page.started /\ bracket.state # "Unstarted" /\ Raced \subseteq page.players
  BY <1>1 DEF IInv, PageInv
<1>3. RoundsDrawn \in 0..MaxRounds
  BY Drawn DEF IInv
<1> HIDE DEF RoundsDrawn
<1>4. /\ page' \in Page /\ page'.pc = "races" /\ page'.rounds = RoundsDrawn
      /\ page'.players = page.players /\ page'.started = page.started
      /\ page'.counted = {} /\ page'.next = 1
  BY <1>1, <1>2, <1>3 DEF Page
<1>5. \A d \in listed.counted : d.race.round <= RoundsDrawn /\ ~ (d.race.round < 1)
  <2>1. CountedOk(listed.counted)
    BY DEF IInv, ListedInv
  <2>2. \A d \in listed.counted : d.race.round \in 1..MaxRounds /\ d.race.round <= RoundsDrawn
    BY <2>1, ListedDrawn
  <2> QED BY <2>2
<1> QED BY <1>1, <1>2, <1>4, <1>5, ReadPages

LEMMA LoadRacesKeeps == ASSUME IInv, LoadRacesOfRound PROVE IInv'
<1> DEFINE n == page.next
           new == {[id |-> i, race |-> race[i]] : i \in {j \in OfRound(n) : Usable(j)}}
<1>1. /\ page.pc = "races" /\ n <= page.rounds
      /\ page' = IF MidRound(n) THEN [page EXCEPT !.next = page.rounds + 1]
                 ELSE [page EXCEPT !.next = n + 1, !.counted = @ \cup new]
      /\ bracket' = bracket /\ entered' = entered /\ race' = race /\ listed' = listed
  BY DEF LoadRacesOfRound
<1>2. /\ page \in Page /\ page.started /\ bracket.state # "Unstarted" /\ Raced \subseteq page.players
      /\ CountedOk(page.counted) /\ Whole(page.counted)
      /\ \A c \in page.counted : c.race.round < n
  BY <1>1 DEF IInv, PageInv
<1>3. /\ n \in 1..(MaxRounds + 1) /\ page.rounds \in 0..MaxRounds /\ MaxRounds \in Nat
      /\ page.counted \in SUBSET Counted
  BY <1>2, PageFields, DataAssumption DEF DataAssumption
<1>4. /\ CountedOk(listed.counted) /\ Whole(listed.counted)
      /\ \A d \in listed.counted :
           /\ d.race.round <= page.rounds
           /\ d.race.round < n => \E c \in page.counted : c.id = d.id
  BY <1>1 DEF IInv, ListedInv
<1>5. \A cs : CountedOk(cs) => \A c \in cs : c.race.round \in 1..MaxRounds
  BY ListedDrawn
<1>6. /\ \A i \in Ids : RaceOk(race[i]) /\ race[i] \in Race /\ i \in Nat
      /\ \A i \in Ids : Usable(i) <=> race[i].outcome # "none"
  BY RaceSeq, UsableIs DEF IInv, RowsInv
<1>7. \A i \in OfRound(n) : i \in Ids /\ race[i].round = n
  BY DEF OfRound
<1>8. \A d \in listed.counted : /\ d.id \in Ids /\ race[d.id].round = d.race.round
                                /\ race[d.id].outcome # "none"
  BY <1>4 DEF CountedOk
<1>9. bracket.type \in {"Swiss", "RoundRobin"} /\ RowsInv /\ RoundsInv
  BY DEF IInv, RowsInv
<1> HIDE DEF n, new
<1>10. CASE MidRound(n)
  <2>1. page' = [page EXCEPT !.next = page.rounds + 1]
    BY <1>1, <1>10
  <2>2. page.rounds + 1 \in 1..(MaxRounds + 1)
    BY <1>3
  <2>3. /\ page' \in Page /\ page'.next = page.rounds + 1 /\ page'.pc = "races"
        /\ page'.counted = page.counted /\ page'.rounds = page.rounds
        /\ page'.players = page.players /\ page'.started = page.started
    BY <1>1, <1>2, <2>1, <2>2 DEF Page
  <2>4. \A c \in page.counted : c.race.round < page.rounds + 1
    <3>1. \A c \in page.counted : c.race.round \in 1..MaxRounds
      BY <1>2, <1>5
    <3> QED BY <1>1, <1>2, <1>3, <3>1 DEF n
  <2>5. PICK i \in OfRound(n) : ~ (race[i].outcome # "none")
    BY <1>10 DEF MidRound, is_complete
  <2>6. ASSUME NEW d \in listed.counted PROVE d.race.round < n
    <3>1. d.race.round \in 1..MaxRounds /\ n \in Int
      BY <1>3, <1>4, <1>5
    <3>2. d.race.round # n
      <4>1. ASSUME d.race.round = n PROVE FALSE
        <5>1. PICK c \in listed.counted : c.id = i
          BY <1>4, <1>10, <2>5, <4>1 DEF Whole, MidRound
        <5> QED BY <1>8, <2>5, <5>1
      <4> QED BY <4>1
    <3>3. ~ (n < d.race.round)
      <4>1. n < d.race.round => race[i].outcome # "none"
        BY <1>7, <1>8, <1>9, <2>5 DEF RoundsInv
      <4> QED BY <2>5, <4>1
    <3> QED BY <3>1, <3>2, <3>3
  <2>7. \A d \in listed.counted : \E c \in page'.counted : c.id = d.id
    BY <1>4, <2>3, <2>6
  <2> QED BY <1>1, <1>2, <1>4, <2>3, <2>4, <2>7, ReadPages DEF n
<1>11. CASE ~ MidRound(n)
  <2>1. page' = [page EXCEPT !.next = n + 1, !.counted = @ \cup new]
    BY <1>1, <1>11
  <2>2. \A c \in new : \E i \in OfRound(n) : c = [id |-> i, race |-> race[i]] /\ Usable(i)
    BY DEF new
  <2>3. \A i \in OfRound(n) : race[i].outcome # "none" => [id |-> i, race |-> race[i]] \in new
    BY <1>6, <1>7 DEF new
  <2>4. \A c \in new : /\ c \in Counted /\ c.id \in OfRound(n) /\ c.id \in Ids /\ c.race = race[c.id]
                       /\ c.race.round = n /\ c.race.outcome # "none" /\ RaceOk(c.race)
    BY <1>6, <1>7, <2>2 DEF Counted
  <2>5. \A c, d \in new : c.id = d.id => c = d
    BY <2>2
  <2> DEFINE all == page.counted \cup new
  <2>6. \A c \in page.counted : c.race.round \in Int /\ n \in Int /\ c.race.round # n
    BY <1>2, <1>3, <1>5
  <2>7. CountedOk(all)
    <3>1. \A c \in page.counted, d \in new : c.id # d.id
      <4>1. \A c \in page.counted : race[c.id].round = c.race.round
        BY <1>2 DEF CountedOk
      <4> QED BY <2>4, <2>6, <4>1
    <3> QED BY <1>2, <2>4, <2>5, <3>1 DEF CountedOk
  <2>8. Whole(all)
    <3>1. ASSUME bracket.type = "Swiss", NEW c \in new, NEW i \in OfRound(c.race.round)
          PROVE  \E d \in all : d.id = i
      <4>1. i \in OfRound(n) /\ race[i].outcome # "none"
        BY <1>11, <2>4, <3>1 DEF MidRound, is_complete
      <4>2. [id |-> i, race |-> race[i]] \in new
        BY <2>3, <4>1
      <4> QED BY <4>2
    <3> QED BY <1>2, <3>1 DEF Whole
  <2>9. n + 1 \in 1..(MaxRounds + 1) /\ \A c \in new : c \in Counted
    BY <1>1, <1>3, <2>4
  <2>10. /\ page' \in Page /\ page'.next = n + 1 /\ page'.pc = "races"
         /\ page'.counted = all /\ page'.rounds = page.rounds
         /\ page'.players = page.players /\ page'.started = page.started
    <3>1. all \in SUBSET Counted
      BY <1>3, <2>9
    <3> QED BY <1>1, <1>2, <2>1, <2>9, <3>1 DEF Page
  <2>11. \A c \in all : c.race.round < n + 1
    <3>1. ASSUME NEW c \in page.counted PROVE c.race.round < n + 1
      BY <1>2, <2>6
    <3>2. ASSUME NEW c \in new PROVE c.race.round < n + 1
      BY <1>3, <2>4
    <3> QED BY <3>1, <3>2
  <2>12. ASSUME NEW d \in listed.counted, d.race.round < n + 1
         PROVE  \E c \in all : c.id = d.id
    <3>1. d.race.round \in Int /\ n \in Int
      BY <1>3, <1>4, <1>5
    <3>2. CASE d.race.round < n
      BY <1>4, <3>2
    <3>3. CASE d.race.round = n
      <4>1. d.id \in OfRound(n) /\ race[d.id].outcome # "none"
        BY <1>8, <3>3 DEF OfRound
      <4>2. [id |-> d.id, race |-> race[d.id]] \in new
        BY <2>3, <4>1
      <4> QED BY <4>2
    <3> QED BY <2>12, <3>1, <3>2, <3>3
  <2> HIDE DEF all
  <2>13. RowsInv' /\ RoundsInv' /\ Ids' = Ids /\ Raced' = Raced
    BY <1>1, <1>9, ReadRows, SameRaces
  <2>14. CountedOk(page.counted)' /\ CountedOk(listed.counted)'
    BY <1>1, <1>4, <2>7, <2>10, <2>13 DEF CountedOk
  <2>15. Whole(page.counted)' /\ Whole(listed.counted)'
    BY <1>1, <1>4, <2>8, <2>10, <2>13 DEF Whole, OfRound
  <2>16. PageInv'
    BY <1>1, <1>2, <2>10, <2>11, <2>13, <2>14, <2>15 DEF PageInv
  <2>17. ListedInv'
    BY <1>1, <1>4, <2>10, <2>12, <2>14, <2>15 DEF ListedInv, IInv
  <2> QED BY <2>13, <2>16, <2>17 DEF IInv
<1> QED BY <1>10, <1>11

\* Who is on a page has raced, and was among the players that it loaded.
LEMMA ListedRaced ==
    ASSUME RowsInv, NEW cs, CountedOk(cs)
    PROVE  UNION {PlayersOf(c) : c \in cs} \subseteq Raced
<1>1. \A c \in cs : /\ c.id \in Ids /\ race[c.id].p1 = c.race.p1 /\ race[c.id].p2 = c.race.p2
  BY DEF CountedOk
<1>2. \A i \in Ids : race[i].p1 \in Raced /\ race[i].p2 \in Raced
  BY RaceSeq, RaceFields DEF RowsInv, Raced, Plays
<1> QED BY <1>1, <1>2 DEF PlayersOf

LEMMA ShowKeeps == ASSUME IInv, Show PROVE IInv'
<1> DEFINE who == UNION {PlayersOf(c) : c \in page.counted}
<1>1. /\ page.pc = "races" /\ page' = NoPage
      /\ listed' = [counted |-> page.counted, players |-> IF who = {} THEN page.players ELSE who,
                    unknown |-> who \ page.players]
      /\ bracket' = bracket /\ entered' = entered /\ race' = race
  BY DEF Show
<1>2. who \subseteq page.players
  BY <1>1, ListedRaced DEF IInv, PageInv
<1>3. ASSUME NEW c \in page.counted PROVE c.race.p1 \in who
  BY DEF PlayersOf
<1>4. /\ listed'.counted = page.counted
      /\ page.counted # {} => listed'.players = who /\ listed'.unknown = {}
  <2>1. page.counted # {} => who # {}
    BY <1>3
  <2> HIDE DEF who
  <2> QED BY <1>1, <1>2, <2>1
<1>5. page' \in Page /\ page'.pc = "idle" /\ ~page'.started /\ page'.next = 1 /\ page'.counted = {}
  BY <1>1, NoPageIs
<1>6. RowsInv' /\ RoundsInv' /\ Ids' = Ids /\ Raced' = Raced
  BY <1>1, ReadRows, SameRaces DEF IInv
<1>7. CountedOk(page.counted) /\ Whole(page.counted)
  BY DEF IInv, PageInv
<1>8. CountedOk(page.counted)' /\ CountedOk(listed.counted)'
  BY <1>1, <1>4, <1>5, <1>6, <1>7 DEF CountedOk
<1>9. Whole(page.counted)' /\ Whole(listed.counted)'
  BY <1>1, <1>4, <1>5, <1>6, <1>7 DEF Whole, OfRound
<1>10. PageInv'
  BY <1>5, <1>8, <1>9 DEF PageInv
<1>11. listed'.counted # {} => /\ listed'.unknown = {}
                               /\ listed'.players = UNION {PlayersOf(c) : c \in listed'.counted}
  BY <1>4
<1>12. ListedInv'
  BY <1>5, <1>8, <1>9, <1>11 DEF ListedInv, PlayersOf
<1> QED BY <1>6, <1>10, <1>12 DEF IInv

-----------------------------------------------------------------------------
(* The invariant.                                                           *)

LEMMA InitOk == Init => IInv
<1> SUFFICES ASSUME Init PROVE IInv
  OBVIOUS
<1>1. PICK b \in Brackets : bracket = [state |-> "Unstarted", type |-> b.type] /\ entered = b.players
  BY DEF Init
<1>2. b.type \in {"Swiss", "RoundRobin"} /\ b.players \in SUBSET Players
  BY <1>1, DataAssumption DEF DataAssumption
<1>3. race = <<>> /\ page = NoPage /\ listed = [counted |-> {}, players |-> {}, unknown |-> {}]
  BY DEF Init
<1>4. race \in Seq(Race) /\ Ids = {}
  BY <1>3 DEF Ids
<1>5. Raced = {}
  BY <1>4 DEF Raced
<1>6. RowsInv
  BY <1>1, <1>2, <1>3, <1>4, <1>5 DEF RowsInv
<1>7. RoundsInv
  BY <1>4 DEF RoundsInv
<1>8. page.counted = {} /\ listed.counted = {}
  BY <1>3, NoPageIs
<1>9. /\ CountedOk(page.counted) /\ CountedOk(listed.counted)
      /\ Whole(page.counted) /\ Whole(listed.counted)
  BY <1>8, NothingCounted
<1>10. page \in Page /\ page.pc = "idle" /\ ~page.started /\ page.next = 1
  BY <1>3, NoPageIs
<1>11. PageInv
  BY <1>8, <1>9, <1>10 DEF PageInv
<1>12. ListedInv
  BY <1>8, <1>9, <1>10 DEF ListedInv
<1> QED BY <1>6, <1>7, <1>11, <1>12 DEF IInv

\* One race gets results or another state.
LEMMA UpdateKeeps ==
    ASSUME IInv, NEW i \in Ids, NEW br, RaceOk(br), race' = [race EXCEPT ![i] = br],
           br.round = race[i].round, br.p1 = race[i].p1, br.p2 = race[i].p2,
           race[i].outcome # "none" => br.outcome # "none",
           bracket' = bracket, entered' = entered, page' = page, listed' = listed
    PROVE  IInv'
<1>1. race \in Seq(Race) /\ br \in Race /\ \A j \in Ids : RaceOk(race[j])
  BY DEF IInv, RowsInv, RaceOk
<1>2. race' \in Seq(Race) /\ Ids' = Ids /\ \A j \in Ids : race'[j] = IF j = i THEN br ELSE race[j]
  BY <1>1 DEF Ids
<1>3. Kept
  BY <1>1, <1>2 DEF Kept, Later
<1>4. RowsInv' /\ RoundsInv'
  BY <1>3, KeptRows DEF IInv, RowsInv
<1>5. PageInv' /\ ListedInv'
  BY <1>3, KeptPages DEF IInv
<1> QED BY <1>4, <1>5 DEF IInv

\* Neither the races nor a page change.
LEMMA SameKeeps ==
    ASSUME IInv, race' = race, page' = page, listed' = listed,
           entered \subseteq entered', entered' \subseteq Players, bracket'.type = bracket.type,
           bracket' \in [state : {"Unstarted", "Started", "Finished"}, type : {"Swiss", "RoundRobin"}],
           bracket.state = "Unstarted" <=> bracket'.state = "Unstarted"
    PROVE  IInv'
<1>1. Kept
  BY DEF Kept, Later, IInv, RowsInv, Ids
<1>2. RowsInv' /\ RoundsInv'
  BY <1>1, KeptRows DEF IInv
<1>3. PageInv' /\ ListedInv'
  BY <1>1, KeptPages DEF IInv
<1> QED BY <1>2, <1>3 DEF IInv

LEMMA ReportsAre == \A rs \in Reports : rs[1] \in Results /\ rs[2] \in Results
BY DataAssumption DEF DataAssumption

LEMMA ReportKeeps ==
    ASSUME IInv, NEW i \in Ids, Report(i) \/ Correct(i) \/ LateSave(i)
    PROVE  IInv'
<1>0. RaceOk(race[i]) /\ race[i] \in Race
  BY DEF IInv, RowsInv, RaceOk
<1>1. CASE Report(i) \/ Correct(i)
  <2>1. PICK rs \in Reports : race' = [race EXCEPT ![i] = add_results(@, rs[1], rs[2])]
    BY <1>1 DEF Report, Correct
  <2>2. bracket' = bracket /\ entered' = entered /\ page' = page /\ listed' = listed
    BY <1>1 DEF Report, Correct
  <2>3. rs[1] \in Results /\ rs[2] \in Results
    BY ReportsAre
  <2> DEFINE br == add_results(race[i], rs[1], rs[2])
  <2>4. /\ RaceOk(br) /\ br.outcome # "none"
        /\ br.round = race[i].round /\ br.p1 = race[i].p1 /\ br.p2 = race[i].p2
    BY <1>0, <2>3, ReportOk
  <2>5. race' = [race EXCEPT ![i] = br]
    BY <2>1
  <2> HIDE DEF br
  <2> QED BY <2>2, <2>4, <2>5, UpdateKeeps
<1>2. CASE LateSave(i)
  <2> DEFINE br == [race[i] EXCEPT !.state = "Scheduled"]
  <2>1. /\ race' = [race EXCEPT ![i] = br]
        /\ bracket' = bracket /\ entered' = entered /\ page' = page /\ listed' = listed
    BY <1>2 DEF LateSave
  <2>2. br \in Race
    BY <1>0 DEF Race
  <2>3. /\ br.round = race[i].round /\ br.p1 = race[i].p1 /\ br.p2 = race[i].p2
        /\ br.r1 = race[i].r1 /\ br.r2 = race[i].r2 /\ br.outcome = race[i].outcome
        /\ br.state = "Scheduled"
    BY <1>0 DEF Race
  <2> HIDE DEF br
  <2>4. RaceOk(br)
    BY <1>0, <2>2, <2>3 DEF RaceOk
  <2> QED BY <2>1, <2>3, <2>4, UpdateKeeps
<1> QED BY <1>1, <1>2

LEMMA StepOk == IInv /\ [Next]_vars => IInv'
<1> SUFFICES ASSUME IInv, [Next]_vars PROVE IInv'
  OBVIOUS
<1>0. /\ bracket \in [state : {"Unstarted", "Started", "Finished"}, type : {"Swiss", "RoundRobin"}]
      /\ entered \subseteq Players
  BY DEF IInv, RowsInv
<1>1. ASSUME NEW p \in Players, Enter(p) PROVE IInv'
  <2>1. /\ entered' = entered \cup {p} /\ race' = race /\ page' = page /\ listed' = listed
        /\ bracket' = bracket
    BY <1>1 DEF Enter
  <2> QED BY <1>0, <2>1, SameKeeps
<1>2. CASE generate_pairings
  <2>1. RowsInv /\ RoundsInv /\ PageInv /\ ListedInv
    BY DEF IInv
  <2> QED BY <1>2, <2>1, DrawRows, DrawPages DEF IInv
<1>3. CASE Finish
  <2>1. /\ bracket.state = "Started" /\ bracket' = [bracket EXCEPT !.state = "Finished"]
        /\ entered' = entered /\ race' = race /\ page' = page /\ listed' = listed
    BY <1>3 DEF Finish
  <2>2. /\ bracket' \in [state : {"Unstarted", "Started", "Finished"}, type : {"Swiss", "RoundRobin"}]
        /\ bracket'.type = bracket.type /\ bracket'.state = "Finished"
    BY <1>0, <2>1
  <2> QED BY <1>0, <2>1, <2>2, SameKeeps
<1>4. ASSUME NEW i \in Ids, Report(i) \/ Correct(i) \/ LateSave(i) PROVE IInv'
  BY <1>4, ReportKeeps
<1>5. CASE LoadBracket
  BY <1>5, LoadBracketKeeps
<1>6. CASE LoadPlayers
  BY <1>6, LoadPlayersKeeps
<1>7. CASE LoadRounds
  BY <1>7, LoadRoundsKeeps
<1>8. CASE LoadRacesOfRound
  BY <1>8, LoadRacesKeeps
<1>9. CASE Show
  BY <1>9, ShowKeeps
<1>10. CASE UNCHANGED vars
  <2>1. /\ race' = race /\ page' = page /\ listed' = listed
        /\ entered' = entered /\ bracket' = bracket
    BY <1>10 DEF vars
  <2> QED BY <1>0, <2>1, SameKeeps
<1> QED BY <1>1, <1>2, <1>3, <1>4, <1>5, <1>6, <1>7, <1>8, <1>9, <1>10 DEF Next

\* At all times the rows of a bracket are those of whole rounds, each drawn
\* after the one before was complete, and a page, being loaded or shown, has
\* counted complete races, and a Swiss round only as a whole
\* (generate_pairings, get_standings).
THEOREM InvHolds == Spec => []IInv
BY InitOk, StepOk, PTL DEF Spec

\* The page's steps only add to what the page before has shown.
THEOREM NeverGoBack == Spec => PagesNeverGoBack
<1>1. IInv /\ [Next]_vars =>
        [{c.id : c \in listed.counted} \subseteq {c.id : c \in listed'.counted}]_listed
  <2> SUFFICES ASSUME IInv, [Next]_vars, listed' # listed
               PROVE  {c.id : c \in listed.counted} \subseteq {c.id : c \in listed'.counted}
    OBVIOUS
  <2>1. LoadPlayers \/ Show
    BY DEF Next, vars, Enter, generate_pairings, Finish, Report, Correct, LateSave, LoadBracket,
           LoadRounds, LoadRacesOfRound
  <2>2. CASE LoadPlayers
    <3>1. page.pc = "players" /\ ~page.started
      BY <2>2 DEF LoadPlayers
    <3>2. listed.counted = {}
      BY <3>1 DEF IInv, ListedInv
    <3> QED BY <3>2
  <2>3. CASE Show
    <3>1. page.pc = "races" /\ page.next > page.rounds /\ listed'.counted = page.counted
      BY <2>3 DEF Show
    <3>2. page.rounds \in Int /\ page.next \in Int
      BY PageFields, DataAssumption DEF DataAssumption, IInv, PageInv
    <3>3. ASSUME NEW d \in listed.counted PROVE \E c \in page.counted : c.id = d.id
      <4>1. d.race.round <= page.rounds
        BY <3>1 DEF IInv, ListedInv
      <4>2. d.race.round \in Int
        BY ListedDrawn DEF IInv, ListedInv
      <4>3. d.race.round < page.next
        BY <3>1, <3>2, <4>1, <4>2
      <4> QED BY <3>1, <4>3 DEF IInv, ListedInv
    <3> QED BY <3>1, <3>3
  <2> QED BY <2>1, <2>2, <2>3
<1> QED BY <1>1, InvHolds, PTL DEF Spec, PagesNeverGoBack

-----------------------------------------------------------------------------
(* The pages agree.                                                         *)

\* A race that counts: two players, a known outcome, that of the results.
LEMMA CountedIs ==
    ASSUME NEW br, RaceOk(br), br.outcome # "none"
    PROVE  /\ br.p1 \in Players /\ br.p2 \in Players /\ br.p1 # br.p2
           /\ br.r1 \in Results /\ br.r2 \in Results
           /\ br.outcome \in {"Tie", "P1Win", "P2Win"} /\ br.outcome = OutcomeOf(br.r1, br.r2)
<1>1. br \in Race /\ br.p1 < br.p2 /\ Players \subseteq Int
  BY DataAssumption DEF DataAssumption, RaceOk
<1>2. br.p1 \in Players /\ br.p2 \in Players
  BY <1>1, RaceFields
<1>3. br.p1 # br.p2
  <2>1. br.p1 \in Int /\ br.p2 \in Int
    BY <1>1, <1>2
  <2>2. \A a, b \in Int : a < b => a # b
    OBVIOUS
  <2> QED BY <1>1, <2>1, <2>2
<1>4. br.r1 \in Results /\ br.r2 \in Results /\ br.outcome = OutcomeOf(br.r1, br.r2)
  BY DEF RaceOk
<1> QED BY <1>2, <1>3, <1>4, OutcomeIs

LEMMA FinitelyMany ==
    ASSUME NEW cs, CountedOk(cs), race \in Seq(Race)
    PROVE  IsFiniteSet(cs)
<1> DEFINE f == [c \in cs |-> c.id]
<1>1. f \in Injection(cs, Ids)
  BY DEF CountedOk, Injection, IsInjective
<1>2. IsFiniteSet(Ids)
  BY RaceSeq, FS_Interval
<1> HIDE DEF f
<1> QED BY <1>1, <1>2, FS_Injection

LEMMA NowOk == ASSUME RowsInv PROVE CountedOk(Now) /\ IsFiniteSet(Now)
<1>1. \A i \in Ids : RaceOk(race[i]) /\ race[i] \in Race /\ i \in Nat /\ (Usable(i) => race[i].outcome # "none")
  BY RaceSeq, UsableIs DEF RowsInv
<1>2. \A c \in Now : \E i \in Ids : c = [id |-> i, race |-> race[i]] /\ Usable(i)
  BY DEF Now
<1>3. CountedOk(Now)
  BY <1>1, <1>2 DEF CountedOk, Counted
<1> QED BY <1>3, FinitelyMany DEF RowsInv

\* At all times points, history and the marks of the bracket's page are of
\* one mind, and who is said to have won has not forfeited, nor been slower
\* (get_standings, add_race, DisplayRace).
THEOREM AllPagesAgree == Spec => []PagesAgree
<1>1. IInv => PagesAgree
  <2> SUFFICES ASSUME RowsInv, NEW p \in Players
               PROVE  LET mine == Of(Now, p)
                          as(x) == {c \in mine : history(c.race, p) = x}
                      IN /\ points(Now, p) = 2 * Cardinality(as("win")) + Cardinality(as("draw"))
                         /\ as("win") = {c \in mine : p \in DisplayRace(c.race).winner}
                         /\ as("loss") = {c \in mine : p \in DisplayRace(c.race).loser}
                         /\ \A c \in as("win") :
                              /\ ResultOf(c, p) # Forfeit
                              /\ \/ ResultOf(c, Opponent(c, p)) = Forfeit
                                 \/ ResultOf(c, p) < ResultOf(c, Opponent(c, p))
    BY DEF PagesAgree, IInv
  <2> DEFINE mine == Of(Now, p)
             f == WorthOf(Now, p)
             as(x) == {c \in mine : history(c.race, p) = x}
  <2>1. CountedOk(Now) /\ IsFiniteSet(Now)
    BY NowOk
  <2>2. \A c \in mine : /\ RaceOk(c.race) /\ c.race.outcome # "none"
                        /\ p \in {c.race.p1, c.race.p2}
    BY <2>1 DEF CountedOk, Of, PlayersOf
  <2>3. \A c \in mine : /\ c.race.p1 # c.race.p2
                        /\ c.race.outcome \in {"Tie", "P1Win", "P2Win"}
                        /\ c.race.r1 \in Results /\ c.race.r2 \in Results
                        /\ c.race.outcome = OutcomeOf(c.race.r1, c.race.r2)
    BY <2>2, CountedIs
  <2>4. /\ IsFiniteSet(mine) /\ \A c \in mine : f[c] \in {0, 1, 2} /\ f[c] = PointsIn(c, p)
        /\ points(Now, p) = Total(f, mine)
    BY <2>1, PointsAreTotal, PointsInType DEF WorthOf
  <2> HIDE DEF mine, f
  <2>5. Total(f, mine) = 2 * Cardinality({c \in mine : f[c] = 2}) + Cardinality({c \in mine : f[c] = 1})
    BY <2>4, TotalCounts
  <2>6. \A c \in mine : /\ history(c.race, p) = "win" <=> f[c] = 2
                        /\ history(c.race, p) = "draw" <=> f[c] = 1
    BY <2>2, <2>3, <2>4, PointsInType DEF history
  <2>7. as("win") = {c \in mine : f[c] = 2} /\ as("draw") = {c \in mine : f[c] = 1}
    BY <2>6
  <2>8. points(Now, p) = 2 * Cardinality(as("win")) + Cardinality(as("draw"))
    BY <2>4, <2>5, <2>7
  <2>9. \A c \in mine : /\ history(c.race, p) = "win" <=> p \in DisplayRace(c.race).winner
                        /\ history(c.race, p) = "loss" <=> p \in DisplayRace(c.race).loser
    BY <2>2, <2>3 DEF history, DisplayRace
  <2>10. ASSUME NEW c \in mine, history(c.race, p) = "win"
         PROVE  /\ ResultOf(c, p) # Forfeit
                /\ \/ ResultOf(c, Opponent(c, p)) = Forfeit
                   \/ ResultOf(c, p) < ResultOf(c, Opponent(c, p))
    <3>1. CASE p = c.race.p1
      <4>1. c.race.outcome = "P1Win"
        BY <2>2, <2>3, <2>10, <3>1 DEF history
      <4>2. c.race.r1 # Forfeit /\ (c.race.r2 = Forfeit \/ c.race.r1 < c.race.r2)
        BY <2>3, <4>1, OutcomeIs
      <4>3. ResultOf(c, p) = c.race.r1 /\ ResultOf(c, Opponent(c, p)) = c.race.r2
        BY <2>3, <3>1 DEF ResultOf, Opponent
      <4> QED BY <4>2, <4>3
    <3>2. CASE p = c.race.p2
      <4>1. c.race.outcome = "P2Win"
        BY <2>2, <2>3, <2>10, <3>2 DEF history
      <4>2. c.race.r2 # Forfeit /\ (c.race.r1 = Forfeit \/ c.race.r2 < c.race.r1)
        BY <2>3, <4>1, OutcomeIs
      <4>3. ResultOf(c, p) = c.race.r2 /\ ResultOf(c, Opponent(c, p)) = c.race.r1
        BY <2>3, <3>2 DEF ResultOf, Opponent
      <4> QED BY <4>2, <4>3
    <3> QED BY <2>2, <3>1, <3>2
  <2>11. /\ as("win") = {c \in mine : p \in DisplayRace(c.race).winner}
         /\ as("loss") = {c \in mine : p \in DisplayRace(c.race).loser}
    BY <2>9
  <2> QED BY <2>8, <2>10, <2>11 DEF mine
<1> QED BY <1>1, InvHolds, PTL

-----------------------------------------------------------------------------
(* A page is of whole rounds.                                               *)

LEMMA TotalSum ==
    ASSUME NEW S, IsFiniteSet(S), NEW f, NEW g, NEW h,
           \A x \in S : f[x] \in Int /\ g[x] \in Int /\ h[x] = f[x] + g[x]
    PROVE  Total(h, S) = Total(f, S) + Total(g, S)
<1> DEFINE T == {s \in SUBSET S : Total(h, s) = Total(f, s) + Total(g, s)}
<1>0. \A x \in S : h[x] \in Int
  OBVIOUS
<1>1. \A s \in SUBSET S : Total(f, s) \in Int /\ Total(g, s) \in Int /\ Total(h, s) \in Int
  BY <1>0, TotalType
<1>2. {} \in T
  BY TotalEmpty
<1>3. ASSUME NEW s \in SUBSET S, NEW x \in S, s \in T, x \notin s
      PROVE  s \cup {x} \in T
  <2>1. /\ Total(f, s \cup {x}) = Total(f, s) + f[x] /\ Total(g, s \cup {x}) = Total(g, s) + g[x]
        /\ Total(h, s \cup {x}) = Total(h, s) + h[x]
    BY <1>0, <1>3, TotalPlus
  <2>2. Total(h, s) = Total(f, s) + Total(g, s) /\ h[x] = f[x] + g[x]
    BY <1>3
  <2>3. f[x] \in Int /\ g[x] \in Int /\ Total(f, s) \in Int /\ Total(g, s) \in Int
    BY <1>1
  <2>4. \A a, b, c, d \in Int : (a + b) + (c + d) = (a + c) + (b + d)
    OBVIOUS
  <2>5. (Total(f, s) + Total(g, s)) + (f[x] + g[x]) = (Total(f, s) + f[x]) + (Total(g, s) + g[x])
    BY <2>3, <2>4
  <2>6. Total(h, s \cup {x}) = Total(f, s \cup {x}) + Total(g, s \cup {x})
    BY <2>1, <2>2, <2>5
  <2> QED BY <2>6
<1> HIDE DEF T
<1>4. S \in T
  BY <1>2, <1>3, Subsets
<1> QED BY <1>4 DEF T

AllPoints(cs, P) == MapThenSumSet(LAMBDA p : points(cs, p), P)

LEMMA AllPointsAreTotal ==
    ASSUME NEW cs, IsFiniteSet(cs), NEW P, IsFiniteSet(P)
    PROVE  AllPoints(cs, P) = Total([p \in P |-> points(cs, p)], P)
<1> DEFINE Eq(it) == it = [s \in SUBSET P |->
                            IF s = {} THEN 0 ELSE points(cs, Some(s)) + it[s \ {Some(s)}]]
           jt == CHOOSE it : Eq(it)
           f == [p \in P |-> points(cs, p)]
<1>1. \A p \in P : f[p] = points(cs, p) /\ f[p] \in Int
  BY PointsAreTotal
<1>2. AllPoints(cs, P) = jt[P]
  BY SMT DEF AllPoints, MapThenSumSet, MapThenFoldSet, Some
<1> HIDE DEF f
<1>3. \A it : Sums(it, f, P) <=> Eq(it)
  <2>1. \A s \in SUBSET P : s # {} => Some(s) \in P
    BY SomeOf
  <2>2. \A s \in SUBSET P : s # {} => f[Some(s)] = points(cs, Some(s))
    BY <1>1, <2>1
  <2> QED BY <2>2 DEF Sums
<1>4. \E it : Eq(it)
  <2> HIDE DEF Eq
  <2> QED BY <1>1, <1>3, SumExists
<1> HIDE DEF Eq
<1>5. Eq(jt)
  BY <1>4
<1> HIDE DEF jt
<1>6. AllPoints(cs, P) = Total(f, P)
  BY <1>2, <1>3, <1>5, TotalIs
<1> QED BY <1>6 DEF f

\* One more race adds what it is worth to those who played it.
LEMMA PointsAdd ==
    ASSUME NEW s, IsFiniteSet(s), NEW c, c \notin s, NEW p
    PROVE  points(s \cup {c}, p) = points(s, p) + (IF p \in PlayersOf(c) THEN PointsIn(c, p) ELSE 0)
<1> DEFINE t == s \cup {c}
           f == WorthOf(t, p)
           g == WorthOf(s, p)
<1>1. IsFiniteSet(t)
  BY FS_AddElement
<1>2. /\ IsFiniteSet(Of(t, p)) /\ points(t, p) = Total(f, Of(t, p))
      /\ \A d \in Of(t, p) : f[d] \in {0, 1, 2}
  <2> HIDE DEF t
  <2> QED BY <1>1, PointsAreTotal
<1>3. /\ IsFiniteSet(Of(s, p)) /\ points(s, p) = Total(g, Of(s, p)) /\ points(s, p) \in Int
      /\ \A d \in Of(s, p) : g[d] \in {0, 1, 2}
  BY PointsAreTotal
<1>4. \A d \in Of(s, p) : d \in Of(t, p) /\ f[d] = g[d] /\ g[d] \in Int
  BY <1>3 DEF WorthOf, Of
<1>5. CASE p \in PlayersOf(c)
  <2>1. Of(t, p) = Of(s, p) \cup {c} /\ c \notin Of(s, p) /\ f[c] = PointsIn(c, p)
    BY <1>5 DEF Of, WorthOf
  <2> HIDE DEF t, f, g
  <2>2. Total(f, Of(s, p) \cup {c}) = Total(f, Of(s, p)) + f[c]
    <3>1. \A d \in Of(t, p) : f[d] \in Int
      BY <1>2
    <3>2. Of(s, p) \in SUBSET Of(t, p) /\ c \in Of(t, p)
      BY <2>1
    <3> QED BY <1>2, <2>1, <3>1, <3>2, TotalPlus
  <2>3. Total(f, Of(s, p)) = Total(g, Of(s, p))
    <3>1. \A d \in Of(s, p) : f[d] \in Int /\ f[d] = g[d]
      BY <1>4
    <3> QED BY <1>3, <3>1, TotalSame
  <2>4. points(t, p) = points(s, p) + PointsIn(c, p)
    BY <1>2, <1>3, <2>1, <2>2, <2>3
  <2> QED BY <1>5, <2>4 DEF t
<1>6. CASE p \notin PlayersOf(c)
  <2>1. Of(t, p) = Of(s, p)
    BY <1>6 DEF Of
  <2> HIDE DEF t, f, g
  <2>2. Total(f, Of(s, p)) = Total(g, Of(s, p))
    <3>1. \A d \in Of(s, p) : f[d] \in Int /\ f[d] = g[d]
      BY <1>4
    <3> QED BY <1>3, <3>1, TotalSame
  <2>3. points(t, p) = points(s, p) /\ points(s, p) \in Int
    BY <1>2, <1>3, <2>1, <2>2
  <2>4. \A a \in Int : a = a + 0
    OBVIOUS
  <2> QED BY <1>6, <2>3, <2>4 DEF t
<1> QED BY <1>5, <1>6

\* Each race that counts hands out two points.
LEMMA TwoPerRace ==
    ASSUME NEW P, IsFiniteSet(P), NEW cs, IsFiniteSet(cs),
           \A c \in cs : /\ PlayersOf(c) \subseteq P /\ c.race.p1 # c.race.p2
                         /\ c.race.outcome \in {"Tie", "P1Win", "P2Win"}
    PROVE  AllPoints(cs, P) = 2 * Cardinality(cs)
<1> DEFINE F(s) == [p \in P |-> points(s, p)]
           T == {s \in SUBSET cs : Total(F(s), P) = 2 * Cardinality(s)}
<1>0. \A s \in SUBSET cs : IsFiniteSet(s) /\ Cardinality(s) \in Nat
  BY FS_Subset, FS_CardinalityType
<1>1. \A s \in SUBSET cs : \A p \in P : F(s)[p] = points(s, p) /\ F(s)[p] \in Int
  BY <1>0, PointsAreTotal
<1>2. {} \in T
  <2>1. \A p \in P : points({}, p) = 0
    <3> TAKE p \in P
    <3>1. Of({}, p) = {}
      BY DEF Of
    <3>2. points({}, p) = Total(WorthOf({}, p), Of({}, p))
      BY FS_EmptySet, PointsAreTotal
    <3> QED BY <3>1, <3>2, TotalEmpty
  <2> DEFINE z == F({})
  <2>2. \A p \in P : z[p] = 0
    BY <2>1
  <2>3. Cardinality({p \in P : z[p] = 2}) = 0 /\ Cardinality({p \in P : z[p] = 1}) = 0
    <3>1. {p \in P : z[p] = 2} = {} /\ {p \in P : z[p] = 1} = {}
      BY <2>2
    <3> HIDE DEF z
    <3> QED BY <3>1, FS_EmptySet
  <2> HIDE DEF z
  <2>4. Total(z, P) = 2 * Cardinality({p \in P : z[p] = 2}) + Cardinality({p \in P : z[p] = 1})
    <3>1. \A p \in P : z[p] \in {0, 1, 2}
      BY <2>2
    <3> QED BY <3>1, TotalCounts
  <2>5. Total(z, P) = 0
    BY <2>3, <2>4
  <2>6. Total(F({}), P) = 2 * Cardinality({})
    <3>1. Cardinality({}) = 0
      BY FS_EmptySet
    <3> QED BY <2>5, <3>1 DEF z
  <2> QED BY <2>6
<1>3. ASSUME NEW s \in SUBSET cs, NEW c \in cs, s \in T, c \notin s
      PROVE  s \cup {c} \in T
  <2> DEFINE h == [p \in P |-> IF p \in PlayersOf(c) THEN PointsIn(c, p) ELSE 0]
             p1 == c.race.p1
             p2 == c.race.p2
  <2>1. \A p \in P : F(s \cup {c})[p] = F(s)[p] + h[p]
    BY <1>0, <1>3, PointsAdd
  <2>2. \A p \in P : /\ h[p] \in {0, 1, 2} /\ h[p] \in Int
                     /\ p \notin PlayersOf(c) => h[p] = 0
                     /\ p \in PlayersOf(c) => h[p] = PointsIn(c, p)
    BY PointsInType
  <2>3. PlayersOf(c) = {p1, p2} /\ p1 \in P /\ p2 \in P /\ p1 # p2
    BY DEF PlayersOf
  <2> HIDE DEF h
  <2>4. Total(h, P) = 2 * Cardinality({p \in P : h[p] = 2}) + Cardinality({p \in P : h[p] = 1})
    BY <2>2, TotalCounts
  <2>5. Total(h, P) = 2
    <3>1. CASE c.race.outcome = "Tie"
      <4>1. h[p1] = 1 /\ h[p2] = 1
        BY <2>2, <2>3, <3>1, PointsInType
      <4>2. {p \in P : h[p] = 2} = {} /\ {p \in P : h[p] = 1} = {p1} \cup {p2}
        BY <2>2, <2>3, <4>1
      <4>3. IsFiniteSet({p1}) /\ Cardinality({p1}) = 1
        BY FS_Singleton
      <4>4. Cardinality({p1} \cup {p2}) = IF p2 \in {p1} THEN Cardinality({p1}) ELSE Cardinality({p1}) + 1
        BY <4>3, FS_AddElement
      <4>5. Cardinality({p1} \cup {p2}) = 2
        BY <2>3, <4>3, <4>4
      <4>6. Cardinality({p \in P : h[p] = 2}) = 0 /\ Cardinality({p \in P : h[p] = 1}) = 2
        BY <4>2, <4>5, FS_EmptySet
      <4> QED BY <2>4, <4>6
    <3>2. CASE c.race.outcome = "P1Win"
      <4>1. h[p1] = 2 /\ h[p2] # 1 /\ h[p2] # 2
        BY <2>2, <2>3, <3>2, PointsInType
      <4>2. {p \in P : h[p] = 2} = {p1} /\ {p \in P : h[p] = 1} = {}
        BY <2>2, <2>3, <4>1
      <4>3. Cardinality({p1}) = 1
        BY FS_Singleton
      <4>4. Cardinality({p \in P : h[p] = 2}) = 1 /\ Cardinality({p \in P : h[p] = 1}) = 0
        BY <4>2, <4>3, FS_EmptySet
      <4> QED BY <2>4, <4>4
    <3>3. CASE c.race.outcome = "P2Win"
      <4>1. h[p2] = 2 /\ h[p1] # 1 /\ h[p1] # 2
        BY <2>2, <2>3, <3>3, PointsInType
      <4>2. {p \in P : h[p] = 2} = {p2} /\ {p \in P : h[p] = 1} = {}
        BY <2>2, <2>3, <4>1
      <4>3. Cardinality({p2}) = 1
        BY FS_Singleton
      <4>4. Cardinality({p \in P : h[p] = 2}) = 1 /\ Cardinality({p \in P : h[p] = 1}) = 0
        BY <4>2, <4>3, FS_EmptySet
      <4> QED BY <2>4, <4>4
    <3> QED BY <3>1, <3>2, <3>3
  <2> DEFINE f == F(s)
             g == F(s \cup {c})
  <2>6. /\ \A p \in P : f[p] \in Int /\ h[p] \in Int /\ g[p] = f[p] + h[p]
        /\ Total(f, P) = 2 * Cardinality(s)
    BY <1>1, <1>3, <2>1, <2>2
  <2> HIDE DEF f, g
  <2>7. Total(g, P) = Total(f, P) + Total(h, P)
    BY <2>6, TotalSum
  <2>8. Cardinality(s \cup {c}) = Cardinality(s) + 1 /\ Cardinality(s) \in Nat
    BY <1>0, <1>3, FS_AddElement
  <2>9. \A n \in Nat : 2 * n + 2 = 2 * (n + 1)
    OBVIOUS
  <2>10. Total(g, P) = 2 * Cardinality(s \cup {c})
    BY <2>5, <2>6, <2>7, <2>8, <2>9
  <2> QED BY <2>10 DEF g
<1> HIDE DEF T, F
<1>4. \A s \in SUBSET cs, c \in cs : s \in T /\ c \notin s => s \cup {c} \in T
  BY <1>3
<1>5. \A s \in SUBSET cs : s \in T
  BY <1>2, <1>4, Subsets
<1>6. cs \in T
  BY <1>5
<1> QED BY <1>6, AllPointsAreTotal DEF T, F

\* In the races of whole Swiss rounds each player raced once in each round.
LEMMA OnceARound ==
    ASSUME RowsInv, RoundsInv, bracket.type = "Swiss", NEW cs, CountedOk(cs), Whole(cs),
           NEW p \in UNION {PlayersOf(c) : c \in cs}
    PROVE  Cardinality(Of(cs, p)) = Cardinality({c.race.round : c \in cs})
<1> DEFINE mine == Of(cs, p)
           rounds == {c.race.round : c \in cs}
           f == [c \in mine |-> c.race.round]
<1>1. \A c \in cs : /\ c.id \in Ids /\ race[c.id].round = c.race.round
                    /\ \A q : Plays(q, race[c.id]) <=> q \in PlayersOf(c)
  BY DEF CountedOk, Plays, PlayersOf
<1>2. \A c, d \in cs : c.id = d.id => c = d
  BY DEF CountedOk
<1>3. p \in Raced
  BY ListedRaced
<1>4. \A c \in cs : \E j \in OfRound(c.race.round) :
        /\ Plays(p, race[j])
        /\ \A k \in OfRound(c.race.round) : Plays(p, race[k]) => k = j
  BY <1>1, <1>3 DEF RoundsInv
<1>5. \A c \in mine : c \in cs /\ p \in PlayersOf(c) /\ c.id \in OfRound(c.race.round)
  BY <1>1 DEF Of, OfRound
<1>6. f \in [mine -> rounds]
  BY <1>5
<1>7. \A c, d \in mine : f[c] = f[d] => c = d
  <2> SUFFICES ASSUME NEW c \in mine, NEW d \in mine, c.race.round = d.race.round PROVE c = d
    OBVIOUS
  <2>1. c.id = d.id
    BY <1>1, <1>4, <1>5
  <2> QED BY <1>2, <1>5, <2>1
<1>8. \A n \in rounds : \E c \in mine : f[c] = n
  <2> SUFFICES ASSUME NEW c \in cs PROVE \E d \in mine : f[d] = c.race.round
    OBVIOUS
  <2>1. PICK j \in OfRound(c.race.round) : Plays(p, race[j])
    BY <1>4
  <2>2. PICK d \in cs : d.id = j
    BY <2>1 DEF Whole
  <2>3. d \in mine /\ d.race.round = c.race.round
    BY <1>1, <2>1, <2>2 DEF Of, OfRound
  <2> QED BY <2>3
<1>9. IsFiniteSet(mine)
  <2>1. IsFiniteSet(cs) /\ mine \in SUBSET cs
    BY FinitelyMany DEF RowsInv, Of
  <2> HIDE DEF mine
  <2> QED BY <2>1, FS_Subset
<1> HIDE DEF mine, rounds, f
<1>10. f \in Bijection(mine, rounds)
  BY <1>6, <1>7, <1>8 DEF Bijection, Injection, Surjection, IsInjective
<1>11. ExistsBijection(mine, rounds)
  BY <1>10 DEF ExistsBijection
<1>12. Cardinality(rounds) = Cardinality(mine)
  BY <1>9, <1>11, FS_Bijection
<1> QED BY <1>12 DEF mine, rounds

\* At all times the standings of a bracket, if a race counts, are those of
\* whole rounds: each race handed out its two points to players who are
\* listed, and in a Swiss bracket all of them have raced equally often
\* (get_standings).
THEOREM OfWholeRounds == Spec => []PageIsOfWholeRounds
<1>1. IInv => PageIsOfWholeRounds
  <2> SUFFICES ASSUME IInv, listed.counted # {} PROVE PageIsOfWholeRounds
    BY DEF PageIsOfWholeRounds
  <2> DEFINE cs == listed.counted
  <2>1. /\ RowsInv /\ RoundsInv /\ CountedOk(cs) /\ Whole(cs) /\ race \in Seq(Race)
        /\ listed.unknown = {} /\ listed.players = UNION {PlayersOf(c) : c \in cs}
    BY DEF IInv, ListedInv, RowsInv
  <2> HIDE DEF cs
  <2>2. IsFiniteSet(cs)
    BY <2>1, FinitelyMany
  <2>3. IsFiniteSet(listed.players)
    <3>1. listed.players \in SUBSET Players /\ IsFiniteSet(Players)
      BY <2>1, ListedRaced, DataAssumption DEF DataAssumption, Raced
    <3> QED BY <3>1, FS_Subset
  <2>4. \A c \in cs : /\ PlayersOf(c) \subseteq listed.players /\ c.race.p1 # c.race.p2
                      /\ c.race.outcome \in {"Tie", "P1Win", "P2Win"}
    BY <2>1, CountedIs DEF CountedOk
  <2>5. AllPoints(cs, listed.players) = 2 * Cardinality(cs)
    BY <2>2, <2>3, <2>4, TwoPerRace
  <2>6. ASSUME bracket.type = "Swiss"
        PROVE  /\ \A i \in Ids, n \in {c.race.round : c \in cs} : race[i].round = n =>
                    \E c \in cs : c.id = i
               /\ \A p \in listed.players : Cardinality(Of(cs, p)) = Cardinality({c.race.round : c \in cs})
    <3>1. \A p \in listed.players : Cardinality(Of(cs, p)) = Cardinality({c.race.round : c \in cs})
      BY <2>1, <2>6, OnceARound
    <3>2. \A i \in Ids, n \in {c.race.round : c \in cs} : race[i].round = n => \E c \in cs : c.id = i
      BY <2>1, <2>6 DEF Whole, OfRound
    <3> QED BY <3>1, <3>2
  <2> QED BY <2>1, <2>5, <2>6 DEF PageIsOfWholeRounds, AllPoints, cs
<1> QED BY <1>1, InvHolds, PTL

-----------------------------------------------------------------------------
(* A faster finish.                                                         *)

LEMMA OpponentPointsAreTotal ==
    ASSUME NEW cs, IsFiniteSet(cs), NEW p
    PROVE  LET f == [c \in Of(cs, p) |-> points(cs, Opponent(c, p))]
           IN  /\ \A c \in Of(cs, p) : f[c] \in Int
               /\ opponent_points(cs, p) = Total(f, Of(cs, p))
               /\ opponent_points(cs, p) \in Int
<1> DEFINE S == Of(cs, p)
           Eq(it) == it = [s \in SUBSET S |->
                            IF s = {} THEN 0 ELSE points(cs, Opponent(Some(s), p)) + it[s \ {Some(s)}]]
           jt == CHOOSE it : Eq(it)
           f == [c \in S |-> points(cs, Opponent(c, p))]
<1>1. IsFiniteSet(S)
  BY PointsAreTotal
<1>2. \A c \in S : f[c] = points(cs, Opponent(c, p)) /\ f[c] \in Int
  BY PointsAreTotal
<1>3. opponent_points(cs, p) = jt[S]
  BY SMT DEF opponent_points, MapThenSumSet, MapThenFoldSet, Some
<1> HIDE DEF S, f
<1>4. \A it : Sums(it, f, S) <=> Eq(it)
  <2>1. \A s \in SUBSET S : s # {} => Some(s) \in S
    BY SomeOf
  <2>2. \A s \in SUBSET S : s # {} => f[Some(s)] = points(cs, Opponent(Some(s), p))
    BY <1>2, <2>1
  <2> QED BY <2>2 DEF Sums
<1>5. \E it : Eq(it)
  <2> HIDE DEF Eq
  <2> QED BY <1>1, <1>2, <1>4, SumExists
<1> HIDE DEF Eq
<1>6. Eq(jt)
  BY <1>5
<1> HIDE DEF jt
<1>7. opponent_points(cs, p) = Total(f, S)
  BY <1>1, <1>3, <1>4, <1>6, TotalIs
<1>8. Total(f, S) \in Int
  BY <1>1, <1>2, TotalSome
<1> QED BY <1>2, <1>7, <1>8 DEF S, f

LEMMA TimesAreTotal ==
    ASSUME NEW cs, IsFiniteSet(cs), NEW p, \A c \in cs : time(ResultOf(c, p)) \in Int
    PROVE  LET f == [c \in Of(cs, p) |-> time(ResultOf(c, p))]
           IN  /\ \A c \in Of(cs, p) : f[c] \in Int
               /\ time_adjusted(cs, p) = Total(f, Of(cs, p))
               /\ time_adjusted(cs, p) \in Int
<1> DEFINE S == Of(cs, p)
           Eq(it) == it = [s \in SUBSET S |->
                            IF s = {} THEN 0 ELSE time(ResultOf(Some(s), p)) + it[s \ {Some(s)}]]
           jt == CHOOSE it : Eq(it)
           f == [c \in S |-> time(ResultOf(c, p))]
<1>1. IsFiniteSet(S)
  BY PointsAreTotal
<1>2. \A c \in S : f[c] = time(ResultOf(c, p)) /\ f[c] \in Int
  BY DEF Of
<1>3. time_adjusted(cs, p) = jt[S]
  BY SMT DEF time_adjusted, MapThenSumSet, MapThenFoldSet, Some
<1> HIDE DEF S, f
<1>4. \A it : Sums(it, f, S) <=> Eq(it)
  <2>1. \A s \in SUBSET S : s # {} => Some(s) \in S
    BY SomeOf
  <2>2. \A s \in SUBSET S : s # {} => f[Some(s)] = time(ResultOf(Some(s), p))
    BY <1>2, <2>1
  <2> QED BY <2>2 DEF Sums
<1>5. \E it : Eq(it)
  <2> HIDE DEF Eq
  <2> QED BY <1>1, <1>2, <1>4, SumExists
<1> HIDE DEF Eq
<1>6. Eq(jt)
  BY <1>5
<1> HIDE DEF jt
<1>7. time_adjusted(cs, p) = Total(f, S)
  BY <1>1, <1>3, <1>4, <1>6, TotalIs
<1>8. Total(f, S) \in Int
  BY <1>1, <1>2, TotalSome
<1> QED BY <1>2, <1>7, <1>8 DEF S, f

\* The same races with other results.
Renamed(cs, ren) ==
    /\ \A c \in cs : ren[c].race.p1 = c.race.p1 /\ ren[c].race.p2 = c.race.p2
    /\ \A c, d \in cs : ren[c] = ren[d] => c = d

\* The races of q among those that cs became are those of q, renamed.
Follows(cs, ren, had, q) ==
    /\ IsFiniteSet(had) /\ Of(had, q) = {ren[c] : c \in Of(cs, q)}
    /\ \A c \in cs : Opponent(ren[c], q) = Opponent(c, q)
    /\ \A f : (\A c \in Of(had, q) : f[c] \in Int) =>
         Total(f, Of(had, q)) = Total([c \in Of(cs, q) |-> f[ren[c]]], Of(cs, q))

LEMMA RenamedOf ==
    ASSUME NEW cs, IsFiniteSet(cs), NEW ren, Renamed(cs, ren),
           NEW had, had = {ren[c] : c \in cs}, NEW q
    PROVE  Follows(cs, ren, had, q)
<1> DEFINE mine == Of(cs, q)
<1>1. Of(had, q) = {ren[c] : c \in mine}
  BY DEF Of, PlayersOf, Renamed
<1>2. \A c \in cs : Opponent(ren[c], q) = Opponent(c, q)
  BY DEF Opponent, Renamed
<1>3. IsFiniteSet(had)
  <2> DEFINE f == [c \in cs |-> ren[c]]
  <2>1. f \in Bijection(cs, had)
    BY DEF Bijection, Injection, Surjection, IsInjective, Renamed
  <2> HIDE DEF f
  <2>2. ExistsBijection(cs, had)
    BY <2>1 DEF ExistsBijection
  <2> QED BY <2>2, FS_Bijection
<1>4. IsFiniteSet(mine) /\ mine \subseteq cs
  BY PointsAreTotal DEF Of
<1>5. ASSUME NEW g, \A c \in Of(had, q) : g[c] \in Int
      PROVE  Total(g, Of(had, q)) = Total([c \in mine |-> g[ren[c]]], mine)
  <2> DEFINE f == [c \in mine |-> g[ren[c]]]
  <2>1. \A c \in mine : f[c] \in Int /\ f[c] = g[ren[c]]
    BY <1>1, <1>5
  <2>2. \A c, d \in mine : ren[c] = ren[d] => c = d
    BY <1>4 DEF Renamed
  <2> HIDE DEF f, mine
  <2>3. Total(f, mine) = Total(g, {ren[c] : c \in mine})
    BY <1>4, <2>1, <2>2, TotalRenamed
  <2>4. Total(f, mine) = Total(g, Of(had, q))
    BY <1>1, <2>3
  <2> QED BY <2>4 DEF f
<1> QED BY <1>1, <1>2, <1>3, <1>5 DEF Follows

\* A lower time wins or leaves the outcome as it was.
LEMMA FasterWins ==
    ASSUME NEW r1 \in Results, NEW r2 \in Results, NEW t \in Times
    PROVE  /\ t \in Results
           /\ t < time(r1) /\ OutcomeOf(r1, r2) # "P2Win" => OutcomeOf(t, r2) = "P1Win"
           /\ t < time(r2) /\ OutcomeOf(r1, r2) # "P1Win" => OutcomeOf(r1, t) = "P2Win"
<1>1. t \in Results /\ t \in Nat /\ t # Forfeit
  BY DataAssumption DEF DataAssumption, Results, Forfeit
<1>2. /\ r1 \in Int /\ r2 \in Int /\ (r1 # Forfeit => time(r1) = r1) /\ (r2 # Forfeit => time(r2) = r2)
  BY ResultsAre DEF time
<1>3. OutcomeOf(r1, r2) \in {"Tie", "P1Win", "P2Win"}
  BY OutcomeIs
<1>4. ASSUME t < time(r1), OutcomeOf(r1, r2) # "P2Win" PROVE OutcomeOf(t, r2) = "P1Win"
  <2>1. r1 = r2 \/ (r1 # Forfeit /\ (r2 = Forfeit \/ r1 < r2))
    BY <1>3, <1>4, OutcomeIs
  <2>2. r2 = Forfeit \/ t < r2
    BY <1>1, <1>2, <1>4, <2>1
  <2> QED BY <1>1, <2>2, OutcomeIs
<1>5. ASSUME t < time(r2), OutcomeOf(r1, r2) # "P1Win" PROVE OutcomeOf(r1, t) = "P2Win"
  <2>1. r1 = r2 \/ (r2 # Forfeit /\ (r1 = Forfeit \/ r2 < r1))
    BY <1>3, <1>5, OutcomeIs
  <2>2. r1 = Forfeit \/ t < r1
    BY <1>1, <1>2, <1>5, <2>1
  <2> QED BY <1>1, <2>2, OutcomeIs
<1> QED BY <1>1, <1>4, <1>5

\* The race that player p finishes faster.
LEMMA FasterRace ==
    ASSUME NEW c, NEW d, RaceOk(c.race), c.race.outcome # "none",
           NEW p \in PlayersOf(c), NEW t \in Times, t < time(ResultOf(c, p)),
           d.race = IF c.race.p1 = p THEN add_results(c.race, t, c.race.r2)
                    ELSE add_results(c.race, c.race.r1, t)
    PROVE  /\ d.race.p1 = c.race.p1 /\ d.race.p2 = c.race.p2
           /\ RaceOk(d.race) /\ d.race.outcome # "none"
           /\ PointsIn(c, p) <= PointsIn(d, p) /\ time(ResultOf(d, p)) = t
           /\ \A q \in PlayersOf(c) \ {p} : /\ PointsIn(d, q) <= PointsIn(c, q)
                                            /\ ResultOf(d, q) = ResultOf(c, q)
           /\ PointsIn(d, p) = PointsIn(c, p) => \A q : PointsIn(d, q) = PointsIn(c, q)
<1>1. /\ c.race.p1 # c.race.p2 /\ c.race.r1 \in Results /\ c.race.r2 \in Results
      /\ c.race.outcome \in {"Tie", "P1Win", "P2Win"}
      /\ c.race.outcome = OutcomeOf(c.race.r1, c.race.r2)
  BY CountedIs
<1>2. t \in Results /\ t # Forfeit
  BY FasterWins, <1>1, DataAssumption DEF DataAssumption, Forfeit
<1>3. PlayersOf(c) = {c.race.p1, c.race.p2} /\ (p = c.race.p1 \/ p = c.race.p2)
  BY DEF PlayersOf
<1>6. ASSUME NEW r1 \in Results, NEW r2 \in Results
      PROVE  LET new == add_results(c.race, r1, r2)
             IN  /\ RaceOk(new) /\ new.outcome = OutcomeOf(r1, r2) /\ new.outcome # "none"
                 /\ new.p1 = c.race.p1 /\ new.p2 = c.race.p2 /\ new.r1 = r1 /\ new.r2 = r2
  <2> DEFINE br == c.race
  <2>1. RaceOk(br)
    OBVIOUS
  <2> HIDE DEF br
  <2>2. LET new == add_results(br, r1, r2)
        IN  /\ RaceOk(new) /\ new.outcome = OutcomeOf(r1, r2) /\ new.outcome # "none"
            /\ new.p1 = br.p1 /\ new.p2 = br.p2 /\ new.r1 = r1 /\ new.r2 = r2
    BY <2>1, ReportOk
  <2> QED BY <2>2 DEF br
<1>4. CASE p = c.race.p1
  <2>1. d.race = add_results(c.race, t, c.race.r2) /\ t < time(c.race.r1)
    BY <1>4 DEF ResultOf
  <2>2. /\ RaceOk(d.race) /\ d.race.outcome = OutcomeOf(t, c.race.r2) /\ d.race.outcome # "none"
        /\ d.race.p1 = c.race.p1 /\ d.race.p2 = c.race.p2 /\ d.race.r1 = t /\ d.race.r2 = c.race.r2
    <3> DEFINE new == add_results(c.race, t, c.race.r2)
    <3>1. /\ RaceOk(new) /\ new.outcome = OutcomeOf(t, c.race.r2) /\ new.outcome # "none"
          /\ new.p1 = c.race.p1 /\ new.p2 = c.race.p2 /\ new.r1 = t /\ new.r2 = c.race.r2
      BY <1>1, <1>2, <1>6
    <3> HIDE DEF new
    <3>2. d.race = new
      BY <2>1 DEF new
    <3> QED BY <3>1, <3>2
  <2>3. d.race.outcome \in {"Tie", "P1Win", "P2Win"}
    BY <2>2, CountedIs
  <2>4. c.race.outcome # "P2Win" => d.race.outcome = "P1Win"
    BY <1>1, <2>1, <2>2, FasterWins
  <2>5. time(ResultOf(d, p)) = t /\ ResultOf(d, c.race.p2) = ResultOf(c, c.race.p2)
    BY <1>1, <1>2, <1>4, <2>2 DEF ResultOf, time
  <2>6. /\ PointsIn(c, p) <= PointsIn(d, p) /\ PointsIn(d, c.race.p2) <= PointsIn(c, c.race.p2)
        /\ PointsIn(d, p) = PointsIn(c, p) => d.race.outcome = c.race.outcome
    BY <1>1, <1>4, <2>2, <2>3, <2>4 DEF PointsIn
  <2>7. d.race.outcome = c.race.outcome => \A q : PointsIn(d, q) = PointsIn(c, q)
    BY <2>2 DEF PointsIn
  <2> QED BY <1>3, <1>4, <2>2, <2>5, <2>6, <2>7
<1>5. CASE p = c.race.p2
  <2>1. d.race = add_results(c.race, c.race.r1, t) /\ t < time(c.race.r2)
    BY <1>1, <1>5 DEF ResultOf
  <2>2. /\ RaceOk(d.race) /\ d.race.outcome = OutcomeOf(c.race.r1, t) /\ d.race.outcome # "none"
        /\ d.race.p1 = c.race.p1 /\ d.race.p2 = c.race.p2 /\ d.race.r1 = c.race.r1 /\ d.race.r2 = t
    <3> DEFINE new == add_results(c.race, c.race.r1, t)
    <3>1. /\ RaceOk(new) /\ new.outcome = OutcomeOf(c.race.r1, t) /\ new.outcome # "none"
          /\ new.p1 = c.race.p1 /\ new.p2 = c.race.p2 /\ new.r1 = c.race.r1 /\ new.r2 = t
      BY <1>1, <1>2, <1>6
    <3> HIDE DEF new
    <3>2. d.race = new
      BY <2>1 DEF new
    <3> QED BY <3>1, <3>2
  <2>3. d.race.outcome \in {"Tie", "P1Win", "P2Win"}
    BY <2>2, CountedIs
  <2>4. c.race.outcome # "P1Win" => d.race.outcome = "P2Win"
    BY <1>1, <2>1, <2>2, FasterWins
  <2>5. time(ResultOf(d, p)) = t /\ ResultOf(d, c.race.p1) = ResultOf(c, c.race.p1)
    BY <1>1, <1>2, <1>5, <2>2 DEF ResultOf, time
  <2>6. /\ PointsIn(c, p) <= PointsIn(d, p) /\ PointsIn(d, c.race.p1) <= PointsIn(c, c.race.p1)
        /\ PointsIn(d, p) = PointsIn(c, p) => d.race.outcome = c.race.outcome
    BY <1>1, <1>5, <2>2, <2>3, <2>4 DEF PointsIn
  <2>7. d.race.outcome = c.race.outcome => \A q : PointsIn(d, q) = PointsIn(c, q)
    BY <2>2 DEF PointsIn
  <2> QED BY <1>3, <1>5, <2>2, <2>5, <2>6, <2>7
<1> QED BY <1>3, <1>4, <1>5

LEMMA AheadIs ==
    ASSUME NEW a, NEW b
    PROVE  Ahead(a, b) <=> \/ a[1] < b[1]
                           \/ a[1] = b[1] /\ a[2] < b[2]
                           \/ a[1] = b[1] /\ a[2] = b[2] /\ a[3] < b[3]
                           \/ a[1] = b[1] /\ a[2] = b[2] /\ a[3] = b[3] /\ a[4] < b[4]
<1> DEFINE At(k) == a[k] < b[k] /\ \A j \in 1..(k - 1) : a[j] = b[j]
<1>1. 1..4 = {1, 2, 3, 4}
  OBVIOUS
<1>2. 1..(1 - 1) = {} /\ 1..(2 - 1) = {1} /\ 1..(3 - 1) = {1, 2} /\ 1..(4 - 1) = {1, 2, 3}
  OBVIOUS
<1>3. Ahead(a, b) <=> \E k \in {1, 2, 3, 4} : At(k)
  BY <1>1 DEF Ahead
<1>4. At(1) <=> a[1] < b[1]
  BY <1>2
<1>5. At(2) <=> a[1] = b[1] /\ a[2] < b[2]
  BY <1>2
<1>6. At(3) <=> a[1] = b[1] /\ a[2] = b[2] /\ a[3] < b[3]
  BY <1>2
<1>7. At(4) <=> a[1] = b[1] /\ a[2] = b[2] /\ a[3] = b[3] /\ a[4] < b[4]
  BY <1>2
<1> HIDE DEF At
<1>8. (\E k \in {1, 2, 3, 4} : At(k)) <=> At(1) \/ At(2) \/ At(3) \/ At(4)
  OBVIOUS
<1> QED BY <1>3, <1>4, <1>5, <1>6, <1>7, <1>8

Row(a) == a[1] \in Int /\ a[2] \in Int /\ a[3] \in Int /\ a[4] \in Int

\* More points, or as many with the same opponents' points and less time, keep
\* a player ahead of whom they were ahead of, whose row is no better.
LEMMA StaysAhead ==
    ASSUME NEW a, NEW b, NEW c, NEW d, Row(a), Row(b), Row(c), Row(d), Ahead(a, b),
           a[4] = c[4] /\ b[4] = d[4],
           \/ c[1] < a[1] /\ b[1] <= d[1]
           \/ /\ c[1] = a[1] /\ c[2] = a[2] /\ c[3] <= a[3]
              /\ d[1] = b[1] /\ d[2] = b[2] /\ d[3] = b[3]
    PROVE  Ahead(c, d)
<1>1. \/ a[1] < b[1]
      \/ a[1] = b[1] /\ a[2] < b[2]
      \/ a[1] = b[1] /\ a[2] = b[2] /\ a[3] < b[3]
      \/ a[1] = b[1] /\ a[2] = b[2] /\ a[3] = b[3] /\ a[4] < b[4]
  BY AheadIs
<1>2. \/ c[1] < d[1]
      \/ c[1] = d[1] /\ c[2] < d[2]
      \/ c[1] = d[1] /\ c[2] = d[2] /\ c[3] < d[3]
      \/ c[1] = d[1] /\ c[2] = d[2] /\ c[3] = d[3] /\ c[4] < d[4]
  BY <1>1 DEF Row
<1> QED BY <1>2, AheadIs
LEMMA KeyIs ==
    ASSUME NEW cs, NEW p \in Int, points(cs, p) \in Int, opponent_points(cs, p) \in Int,
           time_adjusted(cs, p) \in Int
    PROVE  LET k == Key(cs, p)
           IN  /\ Row(k) /\ k[1] = -points(cs, p) /\ k[2] = -opponent_points(cs, p)
               /\ k[3] = time_adjusted(cs, p) /\ k[4] = p
BY DEF Key, Row

LEMMA Faster ==
    ASSUME RowsInv, NEW cs, CountedOk(cs), NEW c0 \in cs, NEW p \in PlayersOf(c0), NEW t \in Times,
           t < time(ResultOf(c0, p)), NEW q \in Players, q # p,
           Ahead(Key(cs, p), Key(cs, q))
    PROVE  Ahead(Key(Had(cs, c0.id, p, t), p), Key(Had(cs, c0.id, p, t), q))
<1> DEFINE new(br) == IF br.p1 = p THEN add_results(br, t, br.r2) ELSE add_results(br, br.r1, t)
           ren == [c \in cs |-> IF c.id # c0.id THEN c ELSE [c EXCEPT !.race = new(@)]]
           had == Had(cs, c0.id, p, t)
           d0 == ren[c0]
<1>1. had = {ren[c] : c \in cs}
  BY DEF Had
<1>2. /\ \A c \in cs : RaceOk(c.race) /\ c.race.outcome # "none" /\ c \in Counted
      /\ \A c, d \in cs : c.id = d.id => c = d
  BY DEF CountedOk
<1>3. IsFiniteSet(cs)
  BY FinitelyMany DEF RowsInv
<1>4. \A c \in cs : c # c0 => ren[c] = c
  BY <1>2
<1>5. d0 = [c0 EXCEPT !.race = new(@)]
  OBVIOUS
<1>6. d0.id = c0.id /\ d0.race = new(c0.race)
  BY <1>2, <1>5 DEF Counted
<1> HIDE DEF ren
<1>7. /\ d0.race.p1 = c0.race.p1 /\ d0.race.p2 = c0.race.p2
      /\ RaceOk(d0.race) /\ d0.race.outcome # "none"
      /\ PointsIn(c0, p) <= PointsIn(d0, p) /\ time(ResultOf(d0, p)) = t
      /\ \A r \in PlayersOf(c0) \ {p} : /\ PointsIn(d0, r) <= PointsIn(c0, r)
                                        /\ ResultOf(d0, r) = ResultOf(c0, r)
      /\ PointsIn(d0, p) = PointsIn(c0, p) => \A r : PointsIn(d0, r) = PointsIn(c0, r)
  <2> HIDE DEF d0
  <2> QED BY <1>2, <1>6, FasterRace
<1> HIDE DEF new, had
<1>8. Renamed(cs, ren)
  <2>1. \A c \in cs : ren[c].id = c.id
    BY <1>4, <1>6
  <2> QED BY <1>2, <1>4, <1>7, <2>1 DEF Renamed
<1>9. ASSUME NEW r
      PROVE  /\ IsFiniteSet(had) /\ Of(had, r) = {ren[c] : c \in Of(cs, r)}
             /\ \A c \in cs : Opponent(ren[c], r) = Opponent(c, r)
             /\ \A f : (\A c \in Of(had, r) : f[c] \in Int) =>
                  Total(f, Of(had, r)) = Total([c \in Of(cs, r) |-> f[ren[c]]], Of(cs, r))
  <2>1. Follows(cs, ren, had, r)
    BY <1>1, <1>3, <1>8, RenamedOf
  <2> QED BY <2>1 DEF Follows
<1> HIDE DEF d0
<1>10. \A c \in cs : \A r : time(ResultOf(c, r)) \in Int /\ time(ResultOf(ren[c], r)) \in Int
  <2>1. \A c \in cs : RaceOk(ren[c].race) /\ ren[c].race.outcome # "none"
    BY <1>2, <1>4, <1>7 DEF d0
  <2>2. \A c \in cs : /\ c.race.r1 \in Results /\ c.race.r2 \in Results
                      /\ ren[c].race.r1 \in Results /\ ren[c].race.r2 \in Results
    BY <1>2, <2>1, CountedIs
  <2>3. \A c \in cs : \A r : ResultOf(c, r) \in Results /\ ResultOf(ren[c], r) \in Results
    BY <2>2 DEF ResultOf
  <2>4. \A x \in Results : time(x) \in Int
    BY ResultsAre
  <2> QED BY <2>3, <2>4
<1>11. \A r : IsFiniteSet(Of(cs, r)) /\ Of(cs, r) \subseteq cs
  BY <1>3, PointsAreTotal DEF Of
\* The points of the two tables, race by race.
<1> DEFINE W(r) == [c \in Of(cs, r) |-> PointsIn(c, r)]
           V(r) == [c \in Of(cs, r) |-> PointsIn(ren[c], r)]
<1>12. ASSUME NEW r
       PROVE  /\ points(cs, r) = Total(W(r), Of(cs, r)) /\ points(had, r) = Total(V(r), Of(cs, r))
              /\ points(cs, r) \in Int /\ points(had, r) \in Int
              /\ \A c \in Of(cs, r) : /\ W(r)[c] = PointsIn(c, r) /\ V(r)[c] = PointsIn(ren[c], r)
                                      /\ W(r)[c] \in Int /\ V(r)[c] \in Int
  <2>1. /\ points(cs, r) = Total(WorthOf(cs, r), Of(cs, r)) /\ points(cs, r) \in Int
        /\ points(had, r) = Total(WorthOf(had, r), Of(had, r)) /\ points(had, r) \in Int
        /\ \A c \in Of(had, r) : WorthOf(had, r)[c] \in Int
    BY <1>3, <1>9, PointsAreTotal
  <2>2. WorthOf(cs, r) = W(r)
    BY DEF WorthOf
  <2>3. [c \in Of(cs, r) |-> WorthOf(had, r)[ren[c]]] = V(r)
    BY <1>9 DEF WorthOf
  <2>4. \A c \in Of(cs, r) : /\ W(r)[c] = PointsIn(c, r) /\ V(r)[c] = PointsIn(ren[c], r)
                             /\ W(r)[c] \in Int /\ V(r)[c] \in Int
    BY PointsInType
  <2> HIDE DEF W, V
  <2>5. Total(WorthOf(had, r), Of(had, r)) = Total(V(r), Of(cs, r))
    BY <1>9, <2>1, <2>3
  <2> QED BY <2>1, <2>2, <2>4, <2>5
<1> HIDE DEF W, V
<1>13. ASSUME NEW r, r # p PROVE points(had, r) <= points(cs, r)
  <2>1. \A c \in Of(cs, r) : V(r)[c] <= W(r)[c]
    <3> SUFFICES ASSUME NEW c \in Of(cs, r) PROVE PointsIn(ren[c], r) <= PointsIn(c, r)
      BY <1>12
    <3>1. CASE c = c0
      <4>1. r \in PlayersOf(c0) \ {p}
        BY <1>13, <3>1 DEF Of
      <4> QED BY <1>7, <3>1, <4>1 DEF d0
    <3>2. CASE c # c0
      <4>1. ren[c] = c /\ PointsIn(c, r) \in Int
        BY <1>4, <1>11, <1>12, <3>2
      <4> QED BY <4>1
    <3> QED BY <3>1, <3>2
  <2> QED BY <1>11, <1>12, <2>1, TotalLeq
<1>14. p \in Int /\ q \in Int
  <2>1. p \in Players /\ Players \subseteq Int
    BY <1>2, CountedIs, DataAssumption DEF DataAssumption, PlayersOf
  <2> QED BY <2>1
<1>15. ASSUME NEW r
       PROVE  /\ opponent_points(cs, r) \in Int /\ opponent_points(had, r) \in Int
              /\ time_adjusted(cs, r) \in Int /\ time_adjusted(had, r) \in Int
  <2>1. \A c \in had : time(ResultOf(c, r)) \in Int
    BY <1>1, <1>10
  <2> QED BY <1>3, <1>9, <1>10, <2>1, OpponentPointsAreTotal, TimesAreTotal
<1>16. \A r \in {p, q} :
         /\ Row(Key(cs, r)) /\ Row(Key(had, r))
         /\ Key(cs, r)[1] = -points(cs, r) /\ Key(had, r)[1] = -points(had, r)
         /\ Key(cs, r)[2] = -opponent_points(cs, r) /\ Key(had, r)[2] = -opponent_points(had, r)
         /\ Key(cs, r)[3] = time_adjusted(cs, r) /\ Key(had, r)[3] = time_adjusted(had, r)
         /\ Key(cs, r)[4] = r /\ Key(had, r)[4] = r
  BY <1>12, <1>14, <1>15, KeyIs
<1>17. c0 \in Of(cs, p)
  BY DEF Of
<1>18. CASE PointsIn(d0, p) # PointsIn(c0, p)
  <2>1. \A c \in Of(cs, p) : W(p)[c] <= V(p)[c]
    <3> SUFFICES ASSUME NEW c \in Of(cs, p) PROVE PointsIn(c, p) <= PointsIn(ren[c], p)
      BY <1>12
    <3>1. CASE c = c0
      BY <1>7, <3>1 DEF d0
    <3>2. CASE c # c0
      <4>1. ren[c] = c /\ PointsIn(c, p) \in Int
        BY <1>4, <1>11, <1>12, <3>2
      <4> QED BY <4>1
    <3> QED BY <3>1, <3>2
  <2>2. W(p)[c0] < V(p)[c0]
    <3>1. W(p)[c0] = PointsIn(c0, p) /\ V(p)[c0] = PointsIn(d0, p) /\ W(p)[c0] \in Int /\ V(p)[c0] \in Int
      BY <1>12, <1>17 DEF d0
    <3>2. PointsIn(c0, p) <= PointsIn(d0, p)
      BY <1>7
    <3> QED BY <1>18, <3>1, <3>2
  <2>3. points(cs, p) < points(had, p)
    BY <1>11, <1>12, <1>17, <2>1, <2>2, TotalLess
  <2>4. points(had, q) <= points(cs, q)
    BY <1>13
  <2>5. Key(had, p)[1] < Key(cs, p)[1] /\ Key(cs, q)[1] <= Key(had, q)[1]
    BY <1>12, <1>16, <2>3, <2>4
  <2> QED BY <1>16, <2>5, StaysAhead DEF had
<1>19. CASE PointsIn(d0, p) = PointsIn(c0, p)
  <2>1. ASSUME NEW r PROVE points(had, r) = points(cs, r)
    <3>1. \A c \in Of(cs, r) : V(r)[c] = W(r)[c] /\ V(r)[c] \in Int
      BY <1>4, <1>7, <1>11, <1>12, <1>19 DEF d0
    <3> QED BY <1>11, <1>12, <3>1, TotalSame
  <2>2. ASSUME NEW r PROVE opponent_points(had, r) = opponent_points(cs, r)
    <3> DEFINE f == [c \in Of(cs, r) |-> points(cs, Opponent(c, r))]
               g == [c \in Of(had, r) |-> points(had, Opponent(c, r))]
               h == [c \in Of(cs, r) |-> g[ren[c]]]
    <3>1. opponent_points(cs, r) = Total(f, Of(cs, r))
      BY <1>3, OpponentPointsAreTotal
    <3>2. opponent_points(had, r) = Total(g, Of(had, r)) /\ \A c \in Of(had, r) : g[c] \in Int
      BY <1>9, OpponentPointsAreTotal
    <3>3. \A c \in Of(cs, r) : f[c] = points(cs, Opponent(c, r)) /\ h[c] = f[c] /\ f[c] \in Int
      <4>1. \A c \in Of(cs, r) : ren[c] \in Of(had, r) /\ Opponent(ren[c], r) = Opponent(c, r)
        BY <1>9, <1>11
      <4> QED BY <1>12, <2>1, <4>1
    <3> HIDE DEF f, g
    <3>4. Total(g, Of(had, r)) = Total(h, Of(cs, r))
      BY <1>9, <3>2
    <3> HIDE DEF h
    <3>5. Total(f, Of(cs, r)) = Total(h, Of(cs, r))
      BY <1>11, <3>3, TotalSame
    <3> QED BY <3>1, <3>2, <3>4, <3>5
  <2> DEFINE F(r) == [c \in Of(cs, r) |-> time(ResultOf(c, r))]
             H(r) == [c \in Of(cs, r) |-> time(ResultOf(ren[c], r))]
  <2>3. ASSUME NEW r
        PROVE  /\ time_adjusted(cs, r) = Total(F(r), Of(cs, r)) /\ time_adjusted(had, r) = Total(H(r), Of(cs, r))
               /\ \A c \in Of(cs, r) : /\ F(r)[c] = time(ResultOf(c, r)) /\ H(r)[c] = time(ResultOf(ren[c], r))
                                       /\ F(r)[c] \in Int /\ H(r)[c] \in Int
    <3> DEFINE g == [c \in Of(had, r) |-> time(ResultOf(c, r))]
               h == [c \in Of(cs, r) |-> g[ren[c]]]
    <3>1. time_adjusted(cs, r) = Total(F(r), Of(cs, r))
      BY <1>3, <1>10, TimesAreTotal
    <3>2. time_adjusted(had, r) = Total(g, Of(had, r)) /\ \A c \in Of(had, r) : g[c] \in Int
      <4>1. \A c \in had : time(ResultOf(c, r)) \in Int
        BY <1>1, <1>10
      <4> QED BY <1>9, <4>1, TimesAreTotal
    <3>3. h = H(r)
      <4>1. \A c \in Of(cs, r) : ren[c] \in Of(had, r)
        BY <1>9
      <4> QED BY <4>1
    <3>4. \A c \in Of(cs, r) : /\ F(r)[c] = time(ResultOf(c, r)) /\ H(r)[c] = time(ResultOf(ren[c], r))
                               /\ F(r)[c] \in Int /\ H(r)[c] \in Int
      BY <1>10, <1>11
    <3> HIDE DEF g, F, H
    <3>5. Total(g, Of(had, r)) = Total(h, Of(cs, r))
      BY <1>9, <3>2
    <3> HIDE DEF h
    <3> QED BY <3>1, <3>2, <3>3, <3>4, <3>5
  <2> HIDE DEF F, H
  <2>4. time_adjusted(had, p) <= time_adjusted(cs, p)
    <3>1. \A c \in Of(cs, p) : H(p)[c] <= F(p)[c]
      <4> SUFFICES ASSUME NEW c \in Of(cs, p) PROVE time(ResultOf(ren[c], p)) <= time(ResultOf(c, p))
        BY <2>3
      <4>1. time(ResultOf(ren[c], p)) \in Int /\ time(ResultOf(c, p)) \in Int
        BY <1>10, <1>11
      <4>2. CASE c = c0
        <5>1. time(ResultOf(ren[c], p)) = t /\ t < time(ResultOf(c, p))
          BY <1>7, <4>2 DEF d0
        <5> QED BY <4>1, <5>1
      <4>3. CASE c # c0
        <5>1. ren[c] = c
          BY <1>4, <1>11, <4>3
        <5> QED BY <4>1, <5>1
      <4> QED BY <4>2, <4>3
    <3> QED BY <1>11, <2>3, <3>1, TotalLeq
  <2>5. time_adjusted(had, q) = time_adjusted(cs, q)
    <3>1. \A c \in Of(cs, q) : H(q)[c] = F(q)[c]
      <4> SUFFICES ASSUME NEW c \in Of(cs, q) PROVE ResultOf(ren[c], q) = ResultOf(c, q)
        BY <2>3
      <4>1. CASE c = c0
        <5>1. q \in PlayersOf(c0) \ {p}
          BY <4>1 DEF Of
        <5> QED BY <1>7, <4>1, <5>1 DEF d0
      <4>2. CASE c # c0
        BY <1>4, <1>11, <4>2
      <4> QED BY <4>1, <4>2
    <3> QED BY <1>11, <2>3, <3>1, TotalSame
  <2>6. /\ Key(had, p)[1] = Key(cs, p)[1] /\ Key(had, p)[2] = Key(cs, p)[2]
        /\ Key(had, q)[1] = Key(cs, q)[1] /\ Key(had, q)[2] = Key(cs, q)[2]
        /\ Key(had, p)[3] <= Key(cs, p)[3] /\ Key(had, q)[3] = Key(cs, q)[3]
    BY <1>16, <2>1, <2>2, <2>4, <2>5
  <2> QED BY <1>16, <2>6, StaysAhead DEF had
<1> QED BY <1>18, <1>19

\* At all times: a player who had finished one of the races that count in
\* less time would be ahead of all whom they are ahead of (get_standings,
\* PlayerInfo's order, Outcome::from).
THEOREM FasterIsNotLower == Spec => []FasterNeverRanksLower
<1>1. IInv => FasterNeverRanksLower
  <2> SUFFICES ASSUME IInv, NEW c \in listed.counted, NEW p \in PlayersOf(c), NEW t \in Times,
                      t < time(ResultOf(c, p)), NEW q \in Players \ {p},
                      Ahead([r \in Players |-> Key(listed.counted, r)][p],
                            [r \in Players |-> Key(listed.counted, r)][q])
               PROVE  Ahead(Key(Had(listed.counted, c.id, p, t), p),
                            Key(Had(listed.counted, c.id, p, t), q))
    BY DEF FasterNeverRanksLower
  <2> DEFINE cs == listed.counted
  <2>1. RowsInv /\ CountedOk(cs)
    BY DEF IInv, ListedInv
  <2>2. p \in Players
    BY <2>1, CountedIs DEF CountedOk, PlayersOf
  <2>3. Ahead(Key(cs, p), Key(cs, q)) /\ q # p
    BY <2>2
  <2> HIDE DEF cs
  <2>4. c \in cs
    BY DEF cs
  <2>5. Ahead(Key(Had(cs, c.id, p, t), p), Key(Had(cs, c.id, p, t), q))
    BY <2>1, <2>3, <2>4, Faster
  <2> QED BY <2>5 DEF cs
<1> QED BY <1>1, InvHolds, PTL

=============================================================================

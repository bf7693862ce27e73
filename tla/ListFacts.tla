------------------------------ MODULE ListFacts ------------------------------
(***************************************************************************)
(* Facts about natural numbers and sequences that the proofs of several    *)
(* components need: induction and recursion in a first-order form, what a  *)
(* sequence's elements are, and the flattening of a sequence of sequences. *)
(***************************************************************************)
EXTENDS Naturals, Sequences, SequencesExt, WellFoundedInduction, NaturalsInduction, TLAPS

LessThan == {ss \in Nat \X Nat : ss[1] < ss[2]}
\* < on the naturals, as the library's relation.
LEMMA LessThanIsWellFounded == IsWellFoundedOn(LessThan, Nat)
  BY NatLessThanWellFounded DEF OpToRel, LessThan

\* Induction over the members of a set of numbers.
LEMMA Induction ==
  ASSUME NEW S, 0 \in S, \A n \in Nat : n \in S => n + 1 \in S
  PROVE  \A n \in Nat : n \in S
<1> DEFINE T == {n \in Nat : n \notin S}
<1>1. SUFFICES ASSUME T # {} PROVE FALSE
  OBVIOUS
<1>2. PICK m \in T : \A n \in T : ~(<<n, m>> \in LessThan)
  BY <1>1, WFMin, LessThanIsWellFounded
<1>3. m # 0 /\ m - 1 \in Nat /\ m - 1 < m
  BY <1>2
<1>4. m - 1 \in S
  BY <1>2, <1>3 DEF LessThan
<1> QED BY <1>2, <1>3, <1>4

\* A recursive definition over 0..n has a solution.
Steps(step, N, Y) == step \in [1..N -> [Y -> Y]]
Recurses(f, base, step, N, Y) ==
    f \in [0..N -> Y] /\ f[0] = base /\ \A i \in 1..N : f[i] = step[i][f[i-1]]

\* A function that recurs along 0..N exists.
LEMMA Recursion ==
  ASSUME NEW Y, NEW base \in Y, NEW N \in Nat, NEW step, Steps(step, N, Y)
  PROVE  \E f : Recurses(f, base, step, N, Y)
<1> USE DEF Steps
<1> DEFINE Solves(f, n) == f[0] = base /\ \A i \in 1..n : f[i] = step[i][f[i-1]]
           S == {n \in Nat : n <= N => \E f \in [0..n -> Y] : Solves(f, n)}
<1>1. 0 \in S
  <2> DEFINE f == [i \in 0..0 |-> base]
  <2>1. f \in [0..0 -> Y] /\ Solves(f, 0)
    OBVIOUS
  <2> QED BY <2>1
<1>2. ASSUME NEW n \in Nat, n \in S PROVE n + 1 \in S
  <2> SUFFICES ASSUME n + 1 <= N PROVE \E f \in [0..(n+1) -> Y] : Solves(f, n + 1)
    OBVIOUS
  <2>1. PICK f \in [0..n -> Y] : Solves(f, n)
    BY <1>2
  <2> DEFINE g == [i \in 0..(n+1) |-> IF i <= n THEN f[i] ELSE step[n+1][f[n]]]
  <2>2. step[n+1] \in [Y -> Y] /\ f[n] \in Y
    OBVIOUS
  <2>3. g \in [0..(n+1) -> Y]
    BY <2>2
  <2>4. g[0] = base
    BY <2>1
  <2>5. ASSUME NEW i \in 1..(n+1) PROVE g[i] = step[i][g[i-1]]
    <3>1. CASE i <= n
      <4>1. g[i] = f[i] /\ g[i-1] = f[i-1] /\ i \in 1..n
        BY <3>1
      <4> QED BY <4>1, <2>1
    <3>2. CASE i = n + 1
      BY <3>2
    <3> QED BY <3>1, <3>2
  <2> QED BY <2>3, <2>4, <2>5
<1> HIDE DEF S
<1>3. N \in S
  BY <1>1, <1>2, Induction
<1> QED BY <1>3 DEF S, Recurses

-----------------------------------------------------------------------------
(* The elements of a sequence. *)

\* The elements of a concatenation.
LEMMA ToSetOfConcat ==
  ASSUME NEW S, NEW s \in Seq(S), NEW t \in Seq(S)
  PROVE  ToSet(s \o t) = ToSet(s) \cup ToSet(t)
<1>1. /\ Len(s \o t) = Len(s) + Len(t) /\ Len(s) \in Nat /\ Len(t) \in Nat
      /\ \A i \in 1..Len(s) : (s \o t)[i] = s[i]
      /\ \A i \in 1..Len(t) : (s \o t)[Len(s) + i] = t[i]
      /\ DOMAIN (s \o t) = 1..(Len(s) + Len(t))
  OBVIOUS
<1>2. ASSUME NEW x \in ToSet(s \o t) PROVE x \in ToSet(s) \cup ToSet(t)
  <2>1. PICK i \in 1..(Len(s) + Len(t)) : x = (s \o t)[i]
    BY <1>1, <1>2 DEF ToSet
  <2>2. CASE i <= Len(s)
    BY <1>1, <2>1, <2>2 DEF ToSet
  <2>3. CASE i > Len(s)
    <3>1. i - Len(s) \in 1..Len(t) /\ x = t[i - Len(s)]
      BY <1>1, <2>1, <2>3
    <3> QED BY <3>1 DEF ToSet
  <2> QED BY <1>1, <2>1, <2>2, <2>3
<1>3. ASSUME NEW x \in ToSet(s) \cup ToSet(t) PROVE x \in ToSet(s \o t)
  <2>1. CASE x \in ToSet(s)
    <3>1. PICK i \in 1..Len(s) : x = s[i]
      BY <2>1 DEF ToSet
    <3>2. x = (s \o t)[i] /\ i \in 1..(Len(s) + Len(t))
      BY <3>1, <1>1
    <3> QED BY <3>2, <1>1 DEF ToSet
  <2>2. CASE x \in ToSet(t)
    <3>1. PICK i \in 1..Len(t) : x = t[i]
      BY <2>2 DEF ToSet
    <3>2. x = (s \o t)[Len(s) + i] /\ Len(s) + i \in 1..(Len(s) + Len(t))
      BY <3>1, <1>1
    <3> QED BY <3>2, <1>1 DEF ToSet
  <2> QED BY <1>3, <2>1, <2>2
<1> QED BY <1>2, <1>3

\* Append, element by element.
LEMMA AppendFacts ==
  ASSUME NEW S, NEW s \in Seq(S), NEW x \in S
  PROVE  /\ Append(s, x) \in Seq(S) /\ Len(Append(s, x)) = Len(s) + 1 /\ Len(s) \in Nat
         /\ \A i \in 1..Len(s) : Append(s, x)[i] = s[i]
         /\ Append(s, x)[Len(s) + 1] = x
OBVIOUS

\* The elements after an Append.
LEMMA ToSetOfAppend ==
  ASSUME NEW S, NEW s \in Seq(S), NEW x \in S
  PROVE  Append(s, x) \in Seq(S) /\ ToSet(Append(s, x)) = ToSet(s) \cup {x}
<1>1. /\ Append(s, x) \in Seq(S) /\ Len(Append(s, x)) = Len(s) + 1 /\ Len(s) \in Nat
      /\ \A i \in 1..Len(s) : Append(s, x)[i] = s[i]
      /\ Append(s, x)[Len(s) + 1] = x
  BY AppendFacts
<1>2. ToSet(s) = {s[i] : i \in 1..Len(s)}
  BY DEF ToSet
<1>3. ToSet(Append(s, x)) = {Append(s, x)[i] : i \in 1..(Len(s) + 1)}
  BY <1>1 DEF ToSet
<1>4. 1..(Len(s) + 1) = 1..Len(s) \cup {Len(s) + 1}
  BY <1>1
<1> QED BY <1>1, <1>2, <1>3, <1>4

\* The head and the tail of a list hold elements of it.
LEMMA ToSetOfHeadTail ==
  ASSUME NEW S, NEW s \in Seq(S), s # <<>>
  PROVE  /\ Head(s) \in S /\ Head(s) \in ToSet(s)
         /\ Tail(s) \in Seq(S) /\ ToSet(Tail(s)) \subseteq ToSet(s)
<1>1. Len(s) \in Nat /\ Len(s) # 0 /\ Head(s) = s[1] /\ 1 \in DOMAIN s
  OBVIOUS
<1>2. Tail(s) \in Seq(S) /\ Len(Tail(s)) = Len(s) - 1 /\ \A i \in 1..Len(Tail(s)) : Tail(s)[i] = s[i+1]
  OBVIOUS
<1>3. ASSUME NEW x \in ToSet(Tail(s)) PROVE x \in ToSet(s)
  <2>1. PICK i \in 1..Len(Tail(s)) : x = Tail(s)[i]
    BY <1>2 DEF ToSet
  <2>2. x = s[i+1] /\ i + 1 \in DOMAIN s
    BY <1>1, <1>2, <2>1
  <2> QED BY <2>2 DEF ToSet
<1> QED BY <1>1, <1>2, <1>3 DEF ToSet

\* The elements of a list are of its set, and only the empty list has none.
LEMMA ToSetOfSeq ==
  ASSUME NEW S, NEW s \in Seq(S)
  PROVE  ToSet(s) \subseteq S /\ (ToSet(s) = {} <=> s = <<>>)
<1>1. Len(s) \in Nat /\ DOMAIN s = 1..Len(s) /\ \A i \in 1..Len(s) : s[i] \in S
  OBVIOUS
<1>2. s = <<>> <=> Len(s) = 0
  OBVIOUS
<1>3. Len(s) # 0 => s[1] \in ToSet(s)
  BY <1>1 DEF ToSet
<1> QED BY <1>1, <1>2, <1>3 DEF ToSet

-----------------------------------------------------------------------------
(* FlattenSeq. *)

\* The sums of a sequence of sequences, from the left: what FlattenSeq recurses over.
Sums(g, ss) == g = [i \in 1..Len(ss) |-> IF i = 1 THEN ss[i] ELSE g[i-1] \o ss[i]]

\* The function that concatenates the first i lists exists.
LEMMA SumsExist ==
  ASSUME NEW S, NEW ss, NEW N \in Nat, Len(ss) = N, \A i \in 1..N : ss[i] \in Seq(S)
  PROVE  \E g : Sums(g, ss)
<1> DEFINE step == [i \in 1..N |-> [t \in Seq(S) |-> t \o ss[i]]]
           none == <<>>
           Y == Seq(S)
<1>1. none \in Y
  OBVIOUS
<1>2. ASSUME NEW i \in 1..N, NEW t \in Seq(S) PROVE t \o ss[i] \in Seq(S)
  OBVIOUS
<1>3. Steps(step, N, Y)
  BY <1>2 DEF Steps
<1>4. \A i \in 1..N : \A t \in Seq(S) : step[i][t] = t \o ss[i]
  OBVIOUS
<1>5. \A t \in Seq(S) : none \o t = t
  OBVIOUS
<1> HIDE DEF step, none, Y
<1>6. PICK f : Recurses(f, none, step, N, Y)
  BY <1>1, <1>3, Recursion
<1> USE DEF Y, Recurses
<1>7. \A i \in 1..N : i - 1 \in 0..N /\ (i # 1 => i - 1 \in 1..N) /\ f[i-1] \in Seq(S)
  BY <1>6
<1>8. \A i \in 1..N : f[i] = f[i-1] \o ss[i]
  BY <1>4, <1>6, <1>7
<1>9. ASSUME 1 \in 1..N PROVE f[1] = ss[1]
  <2>1. f[1] = f[1-1] \o ss[1] /\ ss[1] \in Seq(S) /\ 1 - 1 = 0
    BY <1>8, <1>9
  <2>2. f[1] = none \o ss[1]
    BY <2>1, <1>6
  <2> QED BY <2>1, <2>2, <1>5
<1> DEFINE h == [i \in 1..N |-> f[i]]
<1>10. \A i \in 1..N : h[i] = f[i]
  OBVIOUS
<1>11. \A i \in 1..N : f[i] = IF i = 1 THEN ss[i] ELSE h[i-1] \o ss[i]
  BY <1>7, <1>8, <1>9, <1>10
<1>12. h = [i \in 1..N |-> IF i = 1 THEN ss[i] ELSE h[i-1] \o ss[i]]
  BY <1>11
<1> QED BY <1>12 DEF Sums

Adds(g, ss, N, S) ==
    /\ N # 0 => g[1] = ss[1]
    /\ \A i \in 1..N : i + 1 \in 1..N => g[i+1] = g[i] \o ss[i+1]
    /\ \A i \in 1..N : g[i] \in Seq(S)

\* It returns lists, each the one before and the next.
LEMMA SumsAre ==
  ASSUME NEW S, NEW ss, NEW N \in Nat, Len(ss) = N, \A i \in 1..N : ss[i] \in Seq(S),
         NEW g, Sums(g, ss)
  PROVE  Adds(g, ss, N, S)
<1>1. \A i \in 1..N : g[i] = IF i = 1 THEN ss[i] ELSE g[i-1] \o ss[i]
  BY DEF Sums
<1>2. N # 0 => g[1] = ss[1]
  BY <1>1
<1>3. ASSUME NEW i \in 1..N, i + 1 \in 1..N PROVE g[i+1] = g[i] \o ss[i+1]
  <2>1. i + 1 # 1 /\ (i + 1) - 1 = i
    OBVIOUS
  <2> QED BY <1>1, <1>3, <2>1
<1> DEFINE T == {i \in Nat : i + 1 \in 1..N => g[i+1] \in Seq(S)}
<1>4. 0 \in T
  BY <1>2
<1>5. ASSUME NEW i \in Nat, i \in T PROVE i + 1 \in T
  <2> SUFFICES ASSUME i + 2 \in 1..N PROVE g[i+2] \in Seq(S)
    OBVIOUS
  <2>1. i + 1 \in 1..N /\ (i + 1) + 1 = i + 2
    OBVIOUS
  <2>2. g[i+2] = g[i+1] \o ss[i+2]
    BY <2>1, <1>3
  <2>3. g[i+1] \in Seq(S) /\ ss[i+2] \in Seq(S)
    BY <1>5, <2>1
  <2> QED BY <2>2, <2>3
<1> HIDE DEF T
<1>6. \A i \in Nat : i \in T
  BY <1>4, <1>5, Induction
<1>7. ASSUME NEW i \in 1..N PROVE g[i] \in Seq(S)
  <2>1. i - 1 \in Nat /\ i - 1 \in T /\ (i - 1) + 1 = i
    BY <1>6
  <2> QED BY <2>1 DEF T
<1> QED BY <1>2, <1>3, <1>7 DEF Adds

\* FlattenSeq is its last value.
LEMMA FlattenIsSum ==
  ASSUME NEW ss, NEW N \in Nat \ {0}, Len(ss) = N, NEW h, Sums(h, ss)
  PROVE  \E g : Sums(g, ss) /\ FlattenSeq(ss) = g[N]
<1> DEFINE g == CHOOSE g : Sums(g, ss)
<1>1. Sums(g, ss)
  OBVIOUS
<1>2. FlattenSeq(ss) = g[N]
  BY DEF FlattenSeq, Sums
<1> QED BY <1>1, <1>2

\* FlattenSeq adds them up from the left.
LEMMA FlattenSolved ==
  ASSUME NEW S, NEW ss \in Seq(Seq(S)), ss # <<>>
  PROVE  \E g : FlattenSeq(ss) = g[Len(ss)] /\ Adds(g, ss, Len(ss), S)
<1> DEFINE N == Len(ss)
<1>1. N \in Nat \ {0} /\ Len(ss) = N /\ \A i \in 1..N : ss[i] \in Seq(S)
  OBVIOUS
<1> HIDE DEF N
<1>2. \E h : Sums(h, ss)
  BY <1>1, SumsExist
<1>3. PICK g : Sums(g, ss) /\ FlattenSeq(ss) = g[N]
  BY <1>1, <1>2, FlattenIsSum
<1>4. Adds(g, ss, N, S)
  BY <1>1, <1>3, SumsAre
<1> QED BY <1>1, <1>3, <1>4

\* Flattening lists over a set gives a list over it.
LEMMA FlattenIsSeq ==
  ASSUME NEW S, NEW ss \in Seq(Seq(S))
  PROVE  FlattenSeq(ss) \in Seq(S)
<1>1. CASE ss = <<>>
  <2>1. FlattenSeq(ss) = ss
    BY <1>1 DEF FlattenSeq
  <2>2. <<>> \in Seq(S)
    OBVIOUS
  <2> QED BY <1>1, <2>1, <2>2
<1>2. CASE ss # <<>>
  <2>1. Len(ss) \in 1..Len(ss)
    BY <1>2
  <2>2. PICK g : FlattenSeq(ss) = g[Len(ss)] /\ Adds(g, ss, Len(ss), S)
    BY <1>2, FlattenSolved
  <2> QED BY <2>1, <2>2 DEF Adds
<1> QED BY <1>1, <1>2

\* One more sequence goes to the end.
LEMMA FlattenAppend ==
  ASSUME NEW S, NEW ss \in Seq(Seq(S)), NEW s \in Seq(S)
  PROVE  FlattenSeq(Append(ss, s)) = FlattenSeq(ss) \o s
<1> DEFINE N == Len(ss)
           tt == Append(ss, s)
<1>1. /\ N \in Nat /\ Len(ss) = N /\ tt \in Seq(Seq(S)) /\ tt # <<>>
      /\ Len(tt) = N + 1 /\ tt[N+1] = s /\ \A i \in 1..N : tt[i] = ss[i]
  <2> DEFINE T == Seq(S)
  <2>1. ss \in Seq(T) /\ s \in T
    OBVIOUS
  <2> HIDE DEF T
  <2>2. /\ tt \in Seq(T) /\ Len(tt) = N + 1 /\ N \in Nat
        /\ tt[N+1] = s /\ \A i \in 1..N : tt[i] = ss[i]
    BY <2>1, AppendFacts
  <2>3. tt # <<>>
    <3> HIDE DEF tt, N
    <3> SUFFICES ASSUME tt = <<>> PROVE FALSE
      OBVIOUS
    <3>1. Len(tt) = 0
      OBVIOUS
    <3> QED BY <3>1, <2>2
  <2> QED BY <2>2, <2>3 DEF T
<1>2. N = 0 <=> ss = <<>>
  OBVIOUS
<1> HIDE DEF tt, N
<1>3. PICK h : FlattenSeq(tt) = h[N+1] /\ Adds(h, tt, N+1, S)
  BY <1>1, FlattenSolved
<1>4. \A i \in 1..N : h[i+1] = h[i] \o tt[i+1]
  <2> TAKE i \in 1..N
  <2>1. i \in 1..(N+1) /\ i + 1 \in 1..(N+1)
    BY <1>1
  <2> QED BY <2>1, <1>1, <1>3 DEF Adds
<1>5. CASE N = 0
  <2>1. FlattenSeq(ss) = <<>>
    BY <1>2, <1>5 DEF FlattenSeq
  <2>2. FlattenSeq(tt) = s
    BY <1>1, <1>3, <1>5 DEF Adds
  <2>3. <<>> \o s = s
    OBVIOUS
  <2> QED BY <2>1, <2>2, <2>3 DEF tt
<1>6. CASE N # 0
  <2>1. PICK g : FlattenSeq(ss) = g[N] /\ Adds(g, ss, N, S)
    BY <1>1, <1>2, <1>6, FlattenSolved
  <2>2. g[1] = ss[1] /\ \A i \in 1..N : i + 1 \in 1..N => g[i+1] = g[i] \o ss[i+1]
    BY <1>6, <2>1 DEF Adds
  <2> DEFINE T == {i \in Nat : i + 1 \in 1..N => h[i+1] = g[i+1]}
  <2>3. 0 \in T
    <3>1. tt[1] = ss[1] /\ 0 + 1 = 1
      BY <1>1, <1>6
    <3> QED BY <3>1, <1>1, <1>3, <2>2 DEF Adds
  <2>4. ASSUME NEW i \in Nat, i \in T PROVE i + 1 \in T
    <3> SUFFICES ASSUME i + 2 \in 1..N PROVE h[i+2] = g[i+2]
      OBVIOUS
    <3>1. i + 1 \in 1..N /\ (i + 1) + 1 = i + 2
      BY <1>1
    <3>2. h[i+2] = h[i+1] \o tt[i+2]
      BY <1>4, <3>1
    <3>3. g[i+2] = g[i+1] \o ss[i+2]
      BY <2>2, <3>1
    <3>4. h[i+1] = g[i+1]
      BY <2>4, <3>1
    <3> QED BY <3>2, <3>3, <3>4, <1>1
  <2> HIDE DEF T
  <2>5. \A i \in Nat : i \in T
    BY <2>3, <2>4, Induction
  <2>6. N \in 1..N /\ h[N] = g[N]
    <3>1. N - 1 \in Nat /\ N - 1 \in T /\ (N - 1) + 1 = N /\ N \in 1..N
      BY <2>5, <1>1, <1>6
    <3> QED BY <3>1 DEF T
  <2>7. h[N+1] = h[N] \o tt[N+1]
    BY <1>4, <2>6
  <2> QED BY <1>1, <1>3, <2>1, <2>6, <2>7 DEF tt
<1> QED BY <1>5, <1>6

\* The elements of a flattened list are those of its lists.
LEMMA FlattenElements ==
  ASSUME NEW S, NEW ss \in Seq(Seq(S))
  PROVE  ToSet(FlattenSeq(ss)) = UNION {ToSet(ss[i]) : i \in DOMAIN ss}
<1>1. CASE ss = <<>>
  <2>1. FlattenSeq(ss) = ss /\ DOMAIN ss = {}
    BY <1>1 DEF FlattenSeq
  <2> QED BY <2>1 DEF ToSet
<1>2. CASE ss # <<>>
  <2> DEFINE N == Len(ss)
             Upto(i) == UNION {ToSet(ss[j]) : j \in 1..i}
  <2>1. N \in Nat /\ N # 0 /\ DOMAIN ss = 1..N /\ \A i \in 1..N : ss[i] \in Seq(S)
    BY <1>2
  <2>2. PICK g : FlattenSeq(ss) = g[N] /\ Adds(g, ss, N, S)
    BY <1>2, FlattenSolved
  <2> HIDE DEF N
  <2> DEFINE T == {i \in Nat : i + 1 \in 1..N => ToSet(g[i+1]) = Upto(i+1)}
  <2>3. 0 \in T
    <3>1. g[1] = ss[1] /\ 1..1 = {1} /\ 0 + 1 = 1
      BY <2>1, <2>2 DEF Adds
    <3>2. Upto(1) = ToSet(ss[1])
      BY <3>1
    <3> QED BY <3>1, <3>2
  <2>4. ASSUME NEW i \in Nat, i \in T PROVE i + 1 \in T
    <3> SUFFICES ASSUME i + 2 \in 1..N PROVE ToSet(g[i+2]) = Upto(i+2)
      <4> HIDE DEF Upto
      <4> QED OBVIOUS
    <3>1. i + 1 \in 1..N /\ (i + 1) + 1 = i + 2
      BY <2>1
    <3>0. 1..(i+2) = 1..(i+1) \cup {i+2}
      OBVIOUS
    <3>2. g[i+2] = g[i+1] \o ss[i+2] /\ g[i+1] \in Seq(S) /\ ss[i+2] \in Seq(S)
      BY <2>1, <2>2, <3>1 DEF Adds
    <3>3. ToSet(g[i+2]) = ToSet(g[i+1]) \cup ToSet(ss[i+2])
      BY <3>2, ToSetOfConcat
    <3>4. Upto(i+2) = Upto(i+1) \cup ToSet(ss[i+2])
      BY <3>0
    <3>5. ToSet(g[i+1]) = Upto(i+1)
      BY <2>4, <3>1
    <3> HIDE DEF Upto
    <3> QED BY <3>3, <3>4, <3>5
  <2> HIDE DEF T, Upto
  <2>5. N - 1 \in T /\ (N - 1) + 1 = N /\ N \in 1..N
    <3>1. N - 1 \in Nat
      BY <2>1
    <3>2. N - 1 \in T
      BY <2>3, <2>4, <3>1, Induction
    <3> QED BY <2>1, <3>2
  <2>6. ToSet(g[N]) = Upto(N)
    BY <2>5 DEF T
  <2> QED BY <2>1, <2>2, <2>6 DEF Upto
<1> QED BY <1>1, <1>2

-----------------------------------------------------------------------------
(* The least and the greatest of a set of numbers. *)

\* A set of numbers that is not empty has a least element.
LEMMA LeastIn ==
  ASSUME NEW S, S \subseteq Nat, S # {}
  PROVE  Min(S) \in S /\ \A y \in S : Min(S) <= y
<1>1. PICK m \in S : \A n \in S : ~(<<n, m>> \in LessThan)
  BY WFMin, LessThanIsWellFounded
<1>2. ASSUME NEW y \in S PROVE m <= y
  <2>1. ~(<<y, m>> \in LessThan) /\ y \in Nat /\ m \in Nat
    BY <1>1
  <2> QED BY <2>1 DEF LessThan
<1> QED BY <1>2 DEF Min

\* One that is bounded has a greatest.
LEMMA GreatestIn ==
  ASSUME NEW N \in Nat, NEW S, S \subseteq 1..N, S # {}
  PROVE  Max(S) \in S /\ \A y \in S : Max(S) >= y
<1> DEFINE T == {i \in Nat : \E y \in S : y = N - i}
<1>1. PICK x \in S : TRUE
  OBVIOUS
<1>2. N - x \in T /\ T \subseteq Nat
  BY <1>1
<1>3. PICK m \in T : \A n \in T : ~(<<n, m>> \in LessThan)
  BY <1>2, WFMin, LessThanIsWellFounded
<1>4. N - m \in S
  BY <1>3
<1>5. ASSUME NEW y \in S PROVE N - m >= y
  <2>1. N - y \in T /\ N - y \in Nat /\ m \in Nat
    BY <1>2
  <2>2. ~(N - y < m)
    BY <1>3, <2>1 DEF LessThan
  <2>3. y \in Nat
    OBVIOUS
  <2> QED BY <2>1, <2>2, <2>3
<1>6. \E z \in S : \A y \in S : z >= y
  BY <1>4, <1>5
<1> QED BY <1>6 DEF Max

\* Of two numbers, the smaller.
LEMMA LeastOfTwo ==
  ASSUME NEW a \in Nat, NEW b \in Nat
  PROVE  Min({a, b}) = IF a <= b THEN a ELSE b
<1>1. Min({a, b}) \in {a, b} /\ \A y \in {a, b} : Min({a, b}) <= y
  BY LeastIn
<1> QED BY <1>1
=============================================================================

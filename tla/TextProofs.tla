----------------------------- MODULE TextProofs -----------------------------
(* Theorems about what is made of a text: the instructions that reach        *)
(* libsysconfig's driver, the pools libinstall creates, and the files        *)
(* sysconfigen writes.                                                       *)
EXTENDS TextToInstructions, Sysconfigen, SequenceTheorems, FiniteSetTheorems,
        WellFoundedInduction, TLAPS

-----------------------------------------------------------------------------
(* Induction, for sets.                                                      *)

(* Over the natural numbers.                                                 *)
LEMMA AllNumbers ==
  ASSUME NEW S \in SUBSET Nat, 0 \in S, \A n \in S : n + 1 \in S
  PROVE  S = Nat
<1> DEFINE Outside == Nat \ S
           Less == OpToRel(<, Nat)
<1> SUFFICES ASSUME Outside # {} PROVE FALSE
  OBVIOUS
<1>1. IsWellFoundedOn(Less, Nat)
  BY NatLessThanWellFounded
<1>2. \A a, b \in Nat : a < b => <<a, b>> \in Less
  BY DEF OpToRel
<1> HIDE DEF Less
<1>3. PICK x \in Outside : \A y \in Outside : ~ (<<y, x>> \in Less)
  BY <1>1, WFMin
<1>4. x - 1 \in Outside /\ <<x - 1, x>> \in Less
  BY <1>2
<1> HIDE DEF Outside
<1> QED
  BY <1>3, <1>4

(* What is not empty has a least number.                                     *)
LEMMA Least ==
  ASSUME NEW S \in SUBSET Nat, S # {}
  PROVE  \E x \in S : \A y \in S : x <= y
<1> DEFINE Less == OpToRel(<, Nat)
<1>1. IsWellFoundedOn(Less, Nat)
  BY NatLessThanWellFounded
<1>2. \A a, b \in Nat : a < b => <<a, b>> \in Less
  BY DEF OpToRel
<1> HIDE DEF Less
<1>3. PICK x \in S : \A y \in S : ~ (<<y, x>> \in Less)
  BY <1>1, WFMin
<1>4. \A y \in S : ~ (y < x)
  BY <1>2, <1>3
<1>5. \A y \in S : x <= y
  BY <1>4
<1> QED
  BY <1>5

(* From 0 to n.                                                              *)
LEMMA Upwards ==
  ASSUME NEW n \in Nat, NEW S, 0 \in S, \A i \in 0..(n - 1) : i \in S => i + 1 \in S
  PROVE  0..n \subseteq S
<1> DEFINE T == {i \in Nat : i \in 0..n => i \in S}
<1>1. 0 \in T
  OBVIOUS
<1>2. ASSUME NEW i \in T PROVE i + 1 \in T
  <2>1. ASSUME i + 1 \in 0..n PROVE i + 1 \in S
    <3>1. i \in 0..(n - 1) /\ i \in 0..n
      BY <2>1
    <3> QED
      BY <3>1
  <2> QED
    BY <2>1
<1> HIDE DEF T
<1>3. T = Nat
  <2>1. T \in SUBSET Nat
    BY DEF T
  <2> QED
    BY <1>1, <1>2, <2>1, AllNumbers
<1> QED
  BY <1>3 DEF T

(* Over sequences, by what is appended to them.                              *)
LEMMA Appends ==
  ASSUME NEW S, NEW T, <<>> \in T,
         \A s \in Seq(S), e \in S : s \in T => Append(s, e) \in T
  PROVE  Seq(S) \subseteq T
<1> DEFINE L == {n \in Nat : \A s \in Seq(S) : Len(s) = n => s \in T}
<1>1. 0 \in L
  <2>1. \A s \in Seq(S) : Len(s) = 0 => s = <<>>
    OBVIOUS
  <2> QED
    BY <2>1
<1>2. ASSUME NEW n \in L PROVE n + 1 \in L
  <2>1. SUFFICES ASSUME NEW s \in Seq(S), Len(s) = n + 1 PROVE s \in T
    OBVIOUS
  <2> DEFINE front == SubSeq(s, 1, n)
  <2>2. front \in Seq(S) /\ Len(front) = n /\ s[n + 1] \in S
    BY <2>1
  <2>3. s = Append(front, s[n + 1])
    BY <2>1, <2>2
  <2>4. front \in T
    BY <2>2
  <2> HIDE DEF front
  <2> QED
    BY <2>2, <2>3, <2>4
<1> HIDE DEF L
<1>3. L = Nat
  <2>1. L \in SUBSET Nat
    BY DEF L
  <2> QED
    BY <1>1, <1>2, <2>1, AllNumbers
<1> QED
  BY <1>3 DEF L

(* A recursive function that takes one step after the other is there.        *)
Steps(f, n, base, step) == f = [i \in 0..n |-> IF i = 0 THEN base ELSE step[i][f[i - 1]]]

(* There is such a function for every step.                                  *)
LEMMA StepsExist ==
  ASSUME NEW n \in Nat, NEW base, NEW step
  PROVE  \E f : Steps(f, n, base, step)
<1> DEFINE T == {m \in Nat : \E f : Steps(f, m, base, step)}
<1>1. 0 \in T
  <2> DEFINE f == [i \in 0..0 |-> base]
  <2>1. Steps(f, 0, base, step)
    BY DEF Steps
  <2> QED
    BY <2>1
<1>2. ASSUME NEW m \in T PROVE m + 1 \in T
  <2>1. PICK f : Steps(f, m, base, step)
    OBVIOUS
  <2> DEFINE g == [i \in 0..(m + 1) |-> IF i = 0 THEN base ELSE step[i][f[i - 1]]]
             k == [i \in 0..m |-> IF i = 0 THEN base ELSE step[i][f[i - 1]]]
  <2>2. m \in Nat
    OBVIOUS
  <2>3. \A i \in 0..m : k[i] = IF i = 0 THEN base ELSE step[i][f[i - 1]]
    OBVIOUS
  <2>4. f = k
    BY <2>1 DEF Steps
  <2>5. \A i \in 0..(m + 1) : g[i] = IF i = 0 THEN base ELSE step[i][f[i - 1]]
    OBVIOUS
  <2>6. g = [i \in 0..(m + 1) |-> g[i]]
    OBVIOUS
  <2> HIDE DEF g, k
  <2>7. \A i \in 0..m : g[i] = f[i]
    BY <2>2, <2>3, <2>4, <2>5
  <2>8. \A i \in 0..(m + 1) : g[i] = IF i = 0 THEN base ELSE step[i][g[i - 1]]
    <3> SUFFICES ASSUME NEW i \in 0..(m + 1), i # 0 PROVE g[i] = step[i][g[i - 1]]
      BY <2>5
    <3>1. i - 1 \in 0..m
      BY <2>2
    <3> QED
      BY <2>5, <2>7, <3>1
  <2>9. Steps(g, m + 1, base, step)
    BY <2>6, <2>8 DEF Steps
  <2> QED
    BY <2>9
<1> HIDE DEF T
<1>3. T = Nat
  <2>1. T \in SUBSET Nat
    BY DEF T
  <2> QED
    BY <1>1, <1>2, <2>1, AllNumbers
<1> QED
  BY <1>3 DEF T

(* What it is, one step at a time.                                           *)
LEMMA StepsAt ==
  ASSUME NEW n \in Nat, NEW base, NEW step, NEW f, Steps(f, n, base, step)
  PROVE  f[0] = base /\ \A i \in 1..n : f[i] = step[i][f[i - 1]]
<1> DEFINE g == [i \in 0..n |-> IF i = 0 THEN base ELSE step[i][f[i - 1]]]
<1>1. \A i \in 0..n : g[i] = IF i = 0 THEN base ELSE step[i][f[i - 1]]
  OBVIOUS
<1>2. f = g
  BY DEF Steps
<1>3. 0 \in 0..n /\ \A i \in 1..n : i \in 0..n /\ i # 0
  OBVIOUS
<1> HIDE DEF g
<1> QED
  BY <1>1, <1>2, <1>3

-----------------------------------------------------------------------------
(* libcfgparser.                                                             *)

(* OfKinds takes one token after the other.                                  *)
LEMMA OfKindsRuns ==
  ASSUME NEW S, NEW s \in Seq(S), NEW kinds
  PROVE  \E f : /\ f[0] = <<>>
                /\ \A i \in 1..Len(s) :
                     f[i] = IF s[i].kind \in kinds THEN Append(f[i - 1], s[i]) ELSE f[i - 1]
                /\ OfKinds(s, kinds) = f[Len(s)]
<1> DEFINE n == Len(s)
           step == [i \in 1..n |->
                      [x \in Seq(S) |-> IF s[i].kind \in kinds THEN Append(x, s[i]) ELSE x]]
           Runs(f) == f = [i \in 0..n |->
                             IF i = 0 THEN <<>>
                             ELSE IF s[i].kind \in kinds THEN Append(f[i - 1], s[i])
                             ELSE f[i - 1]]
<1>1. n \in Nat /\ \A i \in 1..n : s[i] \in S
  OBVIOUS
<1>2. \A i \in 1..n : \A x \in Seq(S) :
        /\ step[i][x] = IF s[i].kind \in kinds THEN Append(x, s[i]) ELSE x
        /\ step[i][x] \in Seq(S)
  BY <1>1
<1>3. OfKinds(s, kinds) = (CHOOSE f : Runs(f))[n]
  BY DEF OfKinds
<1> HIDE DEF n, step
<1>4. PICK f : Steps(f, n, <<>>, step)
  BY <1>1, StepsExist
<1>5. f[0] = <<>> /\ \A i \in 1..n : f[i] = step[i][f[i - 1]]
  BY <1>1, <1>4, StepsAt
<1>6. \A i \in 0..n : f[i] \in Seq(S)
  <2> DEFINE T == {i \in 0..n : f[i] \in Seq(S)}
  <2>1. 0 \in T
    <3>1. <<>> \in Seq(S) /\ 0 \in 0..n
      BY <1>1
    <3> QED
      BY <1>5, <3>1
  <2>2. ASSUME NEW i \in 0..(n - 1), i \in T PROVE i + 1 \in T
    <3>1. i + 1 \in 1..n /\ i + 1 \in 0..n /\ (i + 1) - 1 = i
      BY <1>1
    <3> QED
      BY <1>2, <1>5, <2>2, <3>1
  <2> HIDE DEF T
  <2>3. 0..n \subseteq T
    BY <1>1, <2>1, <2>2, Upwards
  <2> QED
    BY <2>3 DEF T
<1>7. \A i \in 1..n : f[i] = IF s[i].kind \in kinds THEN Append(f[i - 1], s[i]) ELSE f[i - 1]
  <2> SUFFICES ASSUME NEW i \in 1..n
               PROVE  f[i] = IF s[i].kind \in kinds THEN Append(f[i - 1], s[i]) ELSE f[i - 1]
    OBVIOUS
  <2>1. i - 1 \in 0..n
    BY <1>1
  <2> QED
    BY <1>2, <1>5, <1>6, <2>1
<1>8. Runs(f)
  <2>1. f = [i \in 0..n |-> f[i]]
    BY <1>4 DEF Steps
  <2>2. \A i \in 0..n : i = 0 \/ i \in 1..n
    BY <1>1
  <2>3. \A i \in 0..n : f[i] = IF i = 0 THEN <<>>
                               ELSE IF s[i].kind \in kinds THEN Append(f[i - 1], s[i])
                               ELSE f[i - 1]
    BY <1>5, <1>7, <2>2
  <2> QED
    BY <2>1, <2>3
<1> DEFINE g == CHOOSE g : Runs(g)
<1>9. Runs(g)
  BY <1>8
<1>10. g[0] = <<>> /\ \A i \in 1..n : g[i] = IF s[i].kind \in kinds THEN Append(g[i - 1], s[i]) ELSE g[i - 1]
  <2> DEFINE h == [i \in 0..n |-> IF i = 0 THEN <<>>
                                 ELSE IF s[i].kind \in kinds THEN Append(g[i - 1], s[i])
                                 ELSE g[i - 1]]
  <2>1. \A i \in 0..n : h[i] = IF i = 0 THEN <<>>
                               ELSE IF s[i].kind \in kinds THEN Append(g[i - 1], s[i])
                               ELSE g[i - 1]
    OBVIOUS
  <2>2. g = h
    BY <1>9
  <2>3. 0 \in 0..n /\ \A i \in 1..n : i \in 0..n /\ i # 0
    BY <1>1
  <2> HIDE DEF g, h
  <2> QED
    BY <2>1, <2>2, <2>3
<1> QED
  BY <1>3, <1>10 DEF n

(* Of no tokens there are none.                                              *)
LEMMA OfKindsEmpty ==
  ASSUME NEW kinds
  PROVE  OfKinds(<<>>, kinds) = <<>>
<1> DEFINE s == <<>>
<1>1. s \in Seq({}) /\ Len(s) = 0
  OBVIOUS
<1> HIDE DEF s
<1>2. PICK f : /\ f[0] = <<>>
               /\ \A i \in 1..Len(s) :
                    f[i] = IF s[i].kind \in kinds THEN Append(f[i - 1], s[i]) ELSE f[i - 1]
               /\ OfKinds(s, kinds) = f[Len(s)]
  BY <1>1, OfKindsRuns, Zenon
<1> QED
  BY <1>1, <1>2 DEF s

(* One more token is taken or left out.                                      *)
LEMMA OfKindsAppend ==
  ASSUME NEW S, NEW s \in Seq(S), NEW e \in S, NEW kinds
  PROVE  OfKinds(Append(s, e), kinds) =
           IF e.kind \in kinds THEN Append(OfKinds(s, kinds), e) ELSE OfKinds(s, kinds)
<1> DEFINE n == Len(s)
           t == Append(s, e)
<1>1. /\ n \in Nat /\ t \in Seq(S) /\ Len(t) = n + 1 /\ t[n + 1] = e
      /\ \A i \in 1..n : t[i] = s[i]
  OBVIOUS
<1>2. PICK f : /\ f[0] = <<>>
               /\ \A i \in 1..n :
                    f[i] = IF s[i].kind \in kinds THEN Append(f[i - 1], s[i]) ELSE f[i - 1]
               /\ OfKinds(s, kinds) = f[n]
  BY OfKindsRuns
<1> HIDE DEF n, t
<1>3. PICK g : /\ g[0] = <<>>
               /\ \A i \in 1..(n + 1) :
                    g[i] = IF t[i].kind \in kinds THEN Append(g[i - 1], t[i]) ELSE g[i - 1]
               /\ OfKinds(t, kinds) = g[n + 1]
  <2>1. PICK g : /\ g[0] = <<>>
                 /\ \A i \in 1..Len(t) :
                      g[i] = IF t[i].kind \in kinds THEN Append(g[i - 1], t[i]) ELSE g[i - 1]
                 /\ OfKinds(t, kinds) = g[Len(t)]
    BY <1>1, OfKindsRuns
  <2> QED
    BY <1>1, <2>1
<1> DEFINE T == {i \in 0..n : f[i] = g[i]}
<1>4. 0 \in T
  BY <1>1, <1>2, <1>3
<1>5. ASSUME NEW i \in 0..(n - 1), i \in T PROVE i + 1 \in T
  <2>1. i + 1 \in 1..n /\ i + 1 \in 1..(n + 1) /\ i + 1 \in 0..n /\ (i + 1) - 1 = i
    BY <1>1
  <2>2. f[i] = g[i] /\ t[i + 1] = s[i + 1]
    BY <1>1, <1>5, <2>1
  <2> QED
    BY <1>2, <1>3, <2>1, <2>2
<1> HIDE DEF T
<1>6. 0..n \subseteq T
  BY <1>1, <1>4, <1>5, Upwards
<1>7. f[n] = g[n] /\ n + 1 \in 1..(n + 1) /\ (n + 1) - 1 = n
  BY <1>1, <1>6 DEF T
<1> QED
  BY <1>1, <1>2, <1>3, <1>7 DEF t

(* What is taken is of those kinds.                                          *)
LEMMA OfKindsType ==
  ASSUME NEW S, NEW s \in Seq(S), NEW kinds
  PROVE  OfKinds(s, kinds) \in Seq({e \in S : e.kind \in kinds})
<1> DEFINE R == {e \in S : e.kind \in kinds}
           T == {t \in Seq(S) : OfKinds(t, kinds) \in Seq(R)}
<1>1. <<>> \in T
  <2>1. <<>> \in Seq(S) /\ <<>> \in Seq(R)
    OBVIOUS
  <2> QED
    BY <2>1, OfKindsEmpty
<1>2. ASSUME NEW t \in Seq(S), NEW e \in S, t \in T PROVE Append(t, e) \in T
  <2>1. Append(t, e) \in Seq(S) /\ OfKinds(t, kinds) \in Seq(R)
    BY <1>2
  <2>2. e.kind \in kinds => e \in R
    OBVIOUS
  <2> HIDE DEF R
  <2>3. e \in R => Append(OfKinds(t, kinds), e) \in Seq(R)
    BY <2>1
  <2>4. OfKinds(Append(t, e), kinds) =
          IF e.kind \in kinds THEN Append(OfKinds(t, kinds), e) ELSE OfKinds(t, kinds)
    BY OfKindsAppend
  <2> QED
    BY <2>1, <2>2, <2>3, <2>4
<1> HIDE DEF T
<1>3. Seq(S) \subseteq T
  BY <1>1, <1>2, Appends
<1> QED
  BY <1>3 DEF T

(* Tokens are taken alike wherever they stand.                               *)
LEMMA OfKindsConcat ==
  ASSUME NEW S, NEW s \in Seq(S), NEW t \in Seq(S), NEW kinds
  PROVE  OfKinds(s \o t, kinds) = OfKinds(s, kinds) \o OfKinds(t, kinds)
<1> DEFINE T == {u \in Seq(S) : OfKinds(s \o u, kinds) = OfKinds(s, kinds) \o OfKinds(u, kinds)}
<1>0. \A u \in Seq(S) : OfKinds(u, kinds) \in Seq(S)
  <2> TAKE u \in Seq(S)
  <2>1. OfKinds(u, kinds) \in Seq({e \in S : e.kind \in kinds})
    BY OfKindsType
  <2>2. {e \in S : e.kind \in kinds} \subseteq S
    OBVIOUS
  <2> QED
    BY <2>1, <2>2, SeqMonotonic
<1>1. <<>> \in T
  <2>1. <<>> \in Seq(S) /\ s \o <<>> = s
    OBVIOUS
  <2>2. OfKinds(s, kinds) \o <<>> = OfKinds(s, kinds)
    BY <1>0
  <2> QED
    BY <2>1, <2>2, OfKindsEmpty
<1>2. ASSUME NEW u \in Seq(S), NEW e \in S, u \in T PROVE Append(u, e) \in T
  <2>1. /\ Append(u, e) \in Seq(S) /\ s \o u \in Seq(S)
        /\ s \o Append(u, e) = Append(s \o u, e)
        /\ OfKinds(s \o u, kinds) = OfKinds(s, kinds) \o OfKinds(u, kinds)
    BY <1>2
  <2>2. OfKinds(s, kinds) \in Seq(S) /\ OfKinds(u, kinds) \in Seq(S)
    BY <1>0
  <2>3. OfKinds(s, kinds) \o Append(OfKinds(u, kinds), e)
          = Append(OfKinds(s, kinds) \o OfKinds(u, kinds), e)
    BY <2>2
  <2>4. OfKinds(Append(u, e), kinds) =
          IF e.kind \in kinds THEN Append(OfKinds(u, kinds), e) ELSE OfKinds(u, kinds)
    BY OfKindsAppend
  <2>5. OfKinds(Append(s \o u, e), kinds) =
          IF e.kind \in kinds THEN Append(OfKinds(s \o u, kinds), e) ELSE OfKinds(s \o u, kinds)
    <3> DEFINE v == s \o u
    <3>1. v \in Seq(S)
      BY <2>1
    <3> HIDE DEF v
    <3>2. OfKinds(Append(v, e), kinds) =
            IF e.kind \in kinds THEN Append(OfKinds(v, kinds), e) ELSE OfKinds(v, kinds)
      BY <3>1, OfKindsAppend
    <3> QED
      BY <3>2 DEF v
  <2> QED
    BY <2>1, <2>3, <2>4, <2>5
<1> HIDE DEF T
<1>3. Seq(S) \subseteq T
  BY <1>1, <1>2, Appends
<1> QED
  BY <1>3 DEF T

(* Lines takes one token after the other, too.                               *)
LineStep(done, token) ==
    IF token.kind = "newline" THEN Append(done, <<>>)
    ELSE [done EXCEPT ![Len(done)] = Append(@, token)]

(* There is always a last line.                                              *)
LEMMA LineStepType ==
  ASSUME NEW S, NEW done \in Seq(Seq(S)), done # <<>>, NEW e,
         e.kind # "newline" => e \in S
  PROVE  LineStep(done, e) \in Seq(Seq(S)) /\ LineStep(done, e) # <<>>
<1>1. Len(done) \in 1..Len(done) /\ done[Len(done)] \in Seq(S)
  OBVIOUS
<1>2. CASE e.kind = "newline"
  BY <1>1, <1>2 DEF LineStep
<1>3. CASE e.kind # "newline"
  <2>1. Append(done[Len(done)], e) \in Seq(S)
    BY <1>1, <1>3
  <2>2. LineStep(done, e) = [done EXCEPT ![Len(done)] = Append(done[Len(done)], e)]
    BY <1>3 DEF LineStep
  <2> QED
    BY <1>1, <2>1, <2>2
<1> QED
  BY <1>2, <1>3

(* Lines takes one token after the other.                                    *)
LEMMA LinesRuns ==
  ASSUME NEW S, NEW s \in Seq(S)
  PROVE  \E f : /\ f[0] = << <<>> >>
                /\ \A i \in 1..Len(s) : f[i] = LineStep(f[i - 1], s[i])
                /\ Lines(s) = f[Len(s)]
<1> DEFINE n == Len(s)
           D == Seq(Seq(S)) \ {<<>>}
           step == [i \in 1..n |-> [x \in D |-> LineStep(x, s[i])]]
           Runs(f) == f = [i \in 0..n |-> IF i = 0 THEN << <<>> >> ELSE LineStep(f[i - 1], s[i])]
<1>1. n \in Nat /\ \A i \in 1..n : s[i] \in S
  OBVIOUS
<1>2. \A i \in 1..n : \A x \in D : step[i][x] = LineStep(x, s[i]) /\ step[i][x] \in D
  <2> TAKE i \in 1..n
  <2> TAKE x \in D
  <2>1. x \in Seq(Seq(S)) /\ x # <<>> /\ s[i] \in S
    BY <1>1
  <2>2. LineStep(x, s[i]) \in D
    BY <2>1, LineStepType
  <2> QED
    BY <2>2
<1>3. Lines(s) = (CHOOSE f : Runs(f))[n]
  BY DEF Lines, LineStep
<1>0. << <<>> >> \in D
  OBVIOUS
<1> HIDE DEF n, step, D
<1>4. PICK f : Steps(f, n, << <<>> >>, step)
  BY <1>1, StepsExist
<1>5. f[0] = << <<>> >> /\ \A i \in 1..n : f[i] = step[i][f[i - 1]]
  BY <1>1, <1>4, StepsAt
<1>6. \A i \in 0..n : f[i] \in D
  <2> DEFINE T == {i \in 0..n : f[i] \in D}
  <2>1. 0 \in T
    BY <1>0, <1>1, <1>5
  <2>2. ASSUME NEW i \in 0..(n - 1), i \in T PROVE i + 1 \in T
    <3>1. i + 1 \in 1..n /\ i + 1 \in 0..n /\ (i + 1) - 1 = i
      BY <1>1
    <3> QED
      BY <1>2, <1>5, <2>2, <3>1
  <2> HIDE DEF T
  <2>3. 0..n \subseteq T
    BY <1>1, <2>1, <2>2, Upwards
  <2> QED
    BY <2>3 DEF T
<1>7. \A i \in 1..n : f[i] = LineStep(f[i - 1], s[i])
  <2> SUFFICES ASSUME NEW i \in 1..n PROVE f[i] = LineStep(f[i - 1], s[i])
    OBVIOUS
  <2>1. i - 1 \in 0..n
    BY <1>1
  <2> QED
    BY <1>2, <1>5, <1>6, <2>1
<1>8. Runs(f)
  <2>1. f = [i \in 0..n |-> f[i]]
    BY <1>4 DEF Steps
  <2>2. \A i \in 0..n : i = 0 \/ i \in 1..n
    BY <1>1
  <2>3. \A i \in 0..n : f[i] = IF i = 0 THEN << <<>> >> ELSE LineStep(f[i - 1], s[i])
    BY <1>5, <1>7, <2>2
  <2> QED
    BY <2>1, <2>3
<1> DEFINE g == CHOOSE g : Runs(g)
<1>9. Runs(g)
  BY <1>8
<1>10. g[0] = << <<>> >> /\ \A i \in 1..n : g[i] = LineStep(g[i - 1], s[i])
  <2> DEFINE h == [i \in 0..n |-> IF i = 0 THEN << <<>> >> ELSE LineStep(g[i - 1], s[i])]
  <2>1. \A i \in 0..n : h[i] = IF i = 0 THEN << <<>> >> ELSE LineStep(g[i - 1], s[i])
    OBVIOUS
  <2>2. g = h
    BY <1>9
  <2>3. 0 \in 0..n /\ \A i \in 1..n : i \in 0..n /\ i # 0
    BY <1>1
  <2> HIDE DEF g, h
  <2> QED
    BY <2>1, <2>2, <2>3
<1> QED
  BY <1>3, <1>10 DEF n

(* No token makes one empty line.                                            *)
LEMMA LinesEmpty == Lines(<<>>) = << <<>> >>
<1> DEFINE s == <<>>
<1>1. s \in Seq({}) /\ Len(s) = 0
  OBVIOUS
<1> HIDE DEF s
<1>2. PICK f : /\ f[0] = << <<>> >>
               /\ \A i \in 1..Len(s) : f[i] = LineStep(f[i - 1], s[i])
               /\ Lines(s) = f[Len(s)]
  BY <1>1, LinesRuns, Zenon
<1> QED
  BY <1>1, <1>2 DEF s

(* One more token joins the last line or begins another.                     *)
LEMMA LinesAppend ==
  ASSUME NEW S, NEW s \in Seq(S), NEW e \in S
  PROVE  Lines(Append(s, e)) = LineStep(Lines(s), e)
<1> DEFINE n == Len(s)
           t == Append(s, e)
<1>1. /\ n \in Nat /\ t \in Seq(S) /\ Len(t) = n + 1 /\ t[n + 1] = e
      /\ \A i \in 1..n : t[i] = s[i]
  OBVIOUS
<1>2. PICK f : /\ f[0] = << <<>> >>
               /\ \A i \in 1..n : f[i] = LineStep(f[i - 1], s[i])
               /\ Lines(s) = f[n]
  BY LinesRuns
<1> HIDE DEF n, t
<1>3. PICK g : /\ g[0] = << <<>> >>
               /\ \A i \in 1..(n + 1) : g[i] = LineStep(g[i - 1], t[i])
               /\ Lines(t) = g[n + 1]
  <2>1. PICK g : /\ g[0] = << <<>> >>
                 /\ \A i \in 1..Len(t) : g[i] = LineStep(g[i - 1], t[i])
                 /\ Lines(t) = g[Len(t)]
    BY <1>1, LinesRuns
  <2> QED
    BY <1>1, <2>1
<1> DEFINE T == {i \in 0..n : f[i] = g[i]}
<1>4. 0 \in T
  <2>1. 0 \in 0..n /\ f[0] = g[0]
    BY <1>1, <1>2, <1>3
  <2> QED
    BY <2>1
<1>5. ASSUME NEW i \in 0..(n - 1), i \in T PROVE i + 1 \in T
  <2>1. i + 1 \in 1..n /\ i + 1 \in 1..(n + 1) /\ i + 1 \in 0..n /\ (i + 1) - 1 = i
    BY <1>1
  <2>2. f[i] = g[i] /\ t[i + 1] = s[i + 1]
    BY <1>1, <1>5, <2>1
  <2> QED
    BY <1>2, <1>3, <2>1, <2>2
<1> HIDE DEF T
<1>6. 0..n \subseteq T
  BY <1>1, <1>4, <1>5, Upwards
<1>7. f[n] = g[n] /\ n + 1 \in 1..(n + 1) /\ (n + 1) - 1 = n
  BY <1>1, <1>6 DEF T
<1> QED
  BY <1>1, <1>2, <1>3, <1>7 DEF t

(* Lines have no newlines in them.                                           *)
LEMMA LinesType ==
  ASSUME NEW S, NEW s \in Seq(S)
  PROVE  Lines(s) \in Seq(Seq({e \in S : e.kind # "newline"})) /\ Lines(s) # <<>>
<1> DEFINE R == {e \in S : e.kind # "newline"}
           T == {t \in Seq(S) : Lines(t) \in Seq(Seq(R)) /\ Lines(t) # <<>>}
<1>1. <<>> \in T
  <2>1. <<>> \in Seq(S) /\ << <<>> >> \in Seq(Seq(R)) /\ << <<>> >> # <<>>
    OBVIOUS
  <2> QED
    BY <2>1, LinesEmpty
<1>2. ASSUME NEW t \in Seq(S), NEW e \in S, t \in T PROVE Append(t, e) \in T
  <2>1. Append(t, e) \in Seq(S) /\ Lines(t) \in Seq(Seq(R)) /\ Lines(t) # <<>>
    BY <1>2
  <2>2. e.kind # "newline" => e \in R
    OBVIOUS
  <2> HIDE DEF R
  <2>3. LineStep(Lines(t), e) \in Seq(Seq(R)) /\ LineStep(Lines(t), e) # <<>>
    BY <2>1, <2>2, LineStepType
  <2>4. Lines(Append(t, e)) = LineStep(Lines(t), e)
    BY LinesAppend
  <2> QED
    BY <2>1, <2>3, <2>4
<1> HIDE DEF T
<1>3. Seq(S) \subseteq T
  BY <1>1, <1>2, Appends
<1> QED
  BY <1>3 DEF T

(* Sequences with another one in front of them.                              *)
LEMMA LastBehind ==
  ASSUME NEW S, NEW x \in Seq(S), NEW y \in Seq(S), y # <<>>, NEW e \in S
  PROVE  [x \o y EXCEPT ![Len(x) + Len(y)] = e] = x \o [y EXCEPT ![Len(y)] = e]
<1> DEFINE m == Len(x)
           n == Len(y)
           v == x \o y
           z == [y EXCEPT ![n] = e]
           l == [v EXCEPT ![m + n] = e]
<1>1. /\ m \in Nat /\ n \in Nat \ {0} /\ v \in Seq(S) /\ Len(v) = m + n
      /\ \A i \in 1..(m + n) : v[i] = IF i <= m THEN x[i] ELSE y[i - m]
  BY EmptySeq, LenProperties, ConcatProperties
<1>2. z \in Seq(S) /\ Len(z) = n /\ \A i \in 1..n : z[i] = IF i = n THEN e ELSE y[i]
  <2>1. n \in 1..Len(y)
    BY <1>1
  <2> QED
    BY <2>1, ExceptSeq
<1> HIDE DEF v, z
<1>3. l \in Seq(S) /\ Len(l) = m + n /\ \A i \in 1..(m + n) : l[i] = IF i = m + n THEN e ELSE v[i]
  <2>1. m + n \in 1..Len(v)
    BY <1>1
  <2> QED
    BY <1>1, <2>1, ExceptSeq
<1> DEFINE r == x \o z
<1>4. /\ r \in Seq(S) /\ Len(r) = m + n
      /\ \A i \in 1..(m + n) : r[i] = IF i <= m THEN x[i] ELSE z[i - m]
  <2>1. /\ r \in Seq(S) /\ Len(r) = Len(x) + Len(z)
        /\ \A i \in 1..(Len(x) + Len(z)) : r[i] = IF i <= Len(x) THEN x[i] ELSE z[i - Len(x)]
    BY <1>2, ConcatProperties
  <2> HIDE DEF r
  <2> QED
    BY <1>2, <2>1
<1> HIDE DEF l, r, m, n
<1>5. ASSUME NEW i \in 1..(m + n) PROVE l[i] = r[i]
  <2>1. CASE i <= m
    <3>1. i # m + n
      BY <1>1, <2>1
    <3> QED
      BY <1>1, <1>3, <1>4, <2>1, <3>1
  <2>2. CASE i > m
    <3>1. i - m \in 1..n /\ ~(i <= m) /\ (i - m = n <=> i = m + n)
      BY <1>1, <2>2
    <3> QED
      BY <1>1, <1>2, <1>3, <1>4, <3>1
  <2> QED
    BY <1>1, <2>1, <2>2
<1>6. l = r
  BY <1>3, <1>4, <1>5, SeqEqual
<1> QED
  BY <1>6 DEF l, r, v, z, m, n

(* A sequence is its front and its last element.                             *)
LEMMA FrontAndLast ==
  ASSUME NEW S, NEW x \in Seq(S), x # <<>>
  PROVE  /\ SubSeq(x, 1, Len(x) - 1) \in Seq(S)
         /\ Len(SubSeq(x, 1, Len(x) - 1)) = Len(x) - 1
         /\ \A i \in 1..(Len(x) - 1) : SubSeq(x, 1, Len(x) - 1)[i] = x[i]
         /\ x = Append(SubSeq(x, 1, Len(x) - 1), x[Len(x)])
<1> DEFINE n == Len(x)
           f == SubSeq(x, 1, n - 1)
<1>1. n \in Nat \ {0} /\ \A i \in 1..n : x[i] \in S
  BY EmptySeq, ElementOfSeq
<1>2. f \in Seq(S) /\ Len(f) = n - 1 /\ \A i \in 1..(n - 1) : f[i] = x[i]
  <2> DEFINE k == n - 1
  <2>1. k \in Int /\ 1 \in Int /\ \A i \in 1..k : x[i] \in S
    BY <1>1
  <2>2. /\ f \in Seq(S) /\ Len(f) = (IF 1 <= k THEN k - 1 + 1 ELSE 0)
        /\ \A i \in 1..(k - 1 + 1) : f[i] = x[1 + i - 1]
    <3> HIDE DEF n
    <3> QED
      BY <2>1, SubSeqProperties
  <2>3. \A i \in 1..(n - 1) : i \in 1..(k - 1 + 1) /\ 1 + i - 1 = i
    BY <1>1
  <2>4. (IF 1 <= k THEN k - 1 + 1 ELSE 0) = n - 1
    <3> HIDE DEF n
    <3> QED
      BY <1>1
  <2> HIDE DEF f, k, n
  <2> QED
    BY <2>2, <2>3, <2>4
<1> DEFINE g == Append(f, x[n])
<1> HIDE DEF f
<1>3. g \in Seq(S) /\ Len(g) = n /\ \A i \in 1..n : g[i] = x[i]
  BY <1>1, <1>2
<1> HIDE DEF g
<1>4. x = g
  BY <1>3, SeqEqual
<1> QED
  BY <1>2, <1>4 DEF f, g

(* Behind a newline the lines of a text are those of what stands there.      *)
LEMMA LineStepBehind ==
  ASSUME NEW S, NEW F \in Seq(Seq(S)), NEW L \in Seq(Seq(S)), L # <<>>, NEW e \in S
  PROVE  LineStep(F \o L, e) = F \o LineStep(L, e)
<1>1. /\ F \o L \in Seq(Seq(S)) /\ Len(F \o L) = Len(F) + Len(L)
      /\ Len(L) \in Nat \ {0} /\ Len(F) \in Nat
      /\ (F \o L)[Len(F) + Len(L)] = L[Len(L)] /\ L[Len(L)] \in Seq(S)
  OBVIOUS
<1>2. CASE e.kind = "newline"
  <2>1. LineStep(F \o L, e) = Append(F \o L, <<>>) /\ LineStep(L, e) = Append(L, <<>>)
    BY <1>2 DEF LineStep
  <2>2. Append(F \o L, <<>>) = F \o Append(L, <<>>)
    <3> DEFINE last == << <<>> >>
               v == F \o L
    <3>1. last \in Seq(Seq(S)) /\ v \in Seq(Seq(S))
      BY <1>1
    <3>2. Append(L, <<>>) = L \o last
      OBVIOUS
    <3> HIDE DEF v
    <3>3. Append(v, <<>>) = v \o last
      BY <3>1
    <3> HIDE DEF last
    <3>4. (F \o L) \o last = F \o (L \o last)
      <4> DEFINE a == F
                 b == L
                 R == Seq(S)
      <4>1. a \in Seq(R) /\ b \in Seq(R) /\ last \in Seq(R)
        BY <3>1
      <4> HIDE DEF a, b, R
      <4>2. (a \o b) \o last = a \o (b \o last)
        BY <4>1, ConcatAssociative, SMTT(60)
      <4> QED
        BY <4>2 DEF a, b
    <3> QED
      BY <3>2, <3>3, <3>4 DEF v
  <2> QED
    BY <2>1, <2>2
<1>3. CASE e.kind # "newline"
  <2> DEFINE last == Append(L[Len(L)], e)
             m == Len(L)
             k == Len(F)
  <2>1. last \in Seq(S)
    BY <1>1
  <2>2. LineStep(L, e) = [L EXCEPT ![m] = last]
    BY <1>3 DEF LineStep
  <2>3. LineStep(F \o L, e) = [F \o L EXCEPT ![k + m] = last]
    BY <1>1, <1>3 DEF LineStep
  <2> HIDE DEF last
  <2>4. [F \o L EXCEPT ![k + m] = last] = F \o [L EXCEPT ![m] = last]
    BY <2>1, LastBehind
  <2> QED
    BY <2>2, <2>3, <2>4
<1> QED
  BY <1>2, <1>3

(* Tokens behind a newline make the lines they make alone.                   *)
LEMMA LinesBehind ==
  ASSUME NEW S, NEW s \in Seq(S), NEW F \in Seq(Seq(S)), Lines(s) = Append(F, <<>>),
         NEW t \in Seq(S)
  PROVE  Lines(s \o t) = F \o Lines(t)
<1> DEFINE T == {u \in Seq(S) : Lines(s \o u) = F \o Lines(u)}
<1>1. <<>> \in T
  <2>1. <<>> \in Seq(S) /\ s \o <<>> = s /\ Append(F, <<>>) = F \o << <<>> >>
    OBVIOUS
  <2> QED
    BY <2>1, LinesEmpty
<1>2. ASSUME NEW u \in Seq(S), NEW e \in S, u \in T PROVE Append(u, e) \in T
  <2> DEFINE v == s \o u
  <2>1. /\ Append(u, e) \in Seq(S) /\ v \in Seq(S) /\ s \o Append(u, e) = Append(v, e)
        /\ Lines(v) = F \o Lines(u)
    BY <1>2
  <2>2. Lines(u) \in Seq(Seq(S)) /\ Lines(u) # <<>>
    <3>1. {r \in S : r.kind # "newline"} \subseteq S
      OBVIOUS
    <3>2. Seq(Seq({r \in S : r.kind # "newline"})) \subseteq Seq(Seq(S))
      BY <3>1, SeqMonotonic
    <3> QED
      BY <3>2, LinesType
  <2> HIDE DEF v
  <2>3. Lines(Append(v, e)) = LineStep(Lines(v), e)
    BY <2>1, LinesAppend
  <2>4. Lines(Append(u, e)) = LineStep(Lines(u), e)
    BY LinesAppend
  <2>5. LineStep(F \o Lines(u), e) = F \o LineStep(Lines(u), e)
    BY <2>2, LineStepBehind
  <2> QED
    BY <2>1, <2>3, <2>4, <2>5
<1> HIDE DEF T
<1>3. Seq(S) \subseteq T
  BY <1>1, <1>2, Appends
<1> QED
  BY <1>3 DEF T

(* What the grammar sees: lines of words, quoted strings and options.        *)
Seen == {t \in Token : t.kind \in {"word", "quoted", "option", "newline"}}
InLine == {t \in Seen : t.kind # "newline"}

(* What stands between newlines holds no newline and no comment.             *)
LEMMA VisibleLines ==
  ASSUME NEW words \in Seq(Token)
  PROVE  /\ Visible(words) \in Seq(Seen)
         /\ Lines(Visible(words)) \in Seq(Seq(InLine))
         /\ Lines(Visible(words)) # <<>>
<1>1. Visible(words) \in Seq(Seen)
  BY OfKindsType DEF Visible, Seen
<1> QED
  BY <1>1, LinesType DEF InLine

(* Two configurations, one behind the other.                                 *)
LEMMA ConfigBehind ==
  ASSUME NEW front \in Seq(Token), NEW back \in Seq(Token), IsConfig(front), IsConfig(back)
  PROVE  /\ IsConfig(front \o back)
         /\ ParseConfig(front \o back) = ParseConfig(front) \o ParseConfig(back)
<1> DEFINE A == Lines(Visible(front))
           B == Lines(Visible(back))
           F == SubSeq(A, 1, Len(A) - 1)
           C == Lines(Visible(front \o back))
<1>1. A \in Seq(Seq(InLine)) /\ B \in Seq(Seq(InLine))
  BY VisibleLines
<1>2. /\ Len(A) > 1 /\ A[Len(A)] = <<>> /\ \A i \in 1..(Len(A) - 1) : IsCommand(A[i])
      /\ Len(B) > 1 /\ B[Len(B)] = <<>> /\ \A i \in 1..(Len(B) - 1) : IsCommand(B[i])
  BY DEF IsConfig
<1>3. C = F \o B
  <2>1. Visible(front \o back) = Visible(front) \o Visible(back)
    BY OfKindsConcat DEF Visible
  <2>2. Visible(front) \in Seq(Seen) /\ Visible(back) \in Seq(Seen)
    BY VisibleLines
  <2>3. F \in Seq(Seq(InLine)) /\ A = Append(F, <<>>)
    <3> HIDE DEF A
    <3>1. A # <<>>
      BY <1>1, <1>2
    <3> QED
      BY <1>1, <1>2, <3>1, FrontAndLast
  <2>4. Seq(Seq(InLine)) \subseteq Seq(Seq(Seen))
    <3>1. InLine \subseteq Seen
      BY DEF InLine
    <3> QED
      BY <3>1, SeqMonotonic
  <2>5. F \in Seq(Seq(Seen))
    BY <2>3, <2>4
  <2> DEFINE a == Visible(front)
             b == Visible(back)
  <2>6. a \in Seq(Seen) /\ b \in Seq(Seen) /\ Lines(a) = Append(F, <<>>)
    BY <2>2, <2>3
  <2> HIDE DEF F, a, b
  <2>7. Lines(a \o b) = F \o Lines(b)
    BY <2>5, <2>6, LinesBehind
  <2> QED
    BY <2>1, <2>7 DEF a, b
<1>4. /\ IsConfig(front \o back) <=>
           Len(C) > 1 /\ C[Len(C)] = <<>> /\ \A i \in 1..(Len(C) - 1) : IsCommand(C[i])
      /\ ParseConfig(front \o back) = [i \in 1..(Len(C) - 1) |-> KeywordOf(C[i])]
      /\ ParseConfig(front) = [i \in 1..(Len(A) - 1) |-> KeywordOf(A[i])]
      /\ ParseConfig(back) = [i \in 1..(Len(B) - 1) |-> KeywordOf(B[i])]
  BY DEF IsConfig, ParseConfig
<1> HIDE DEF A, B, C
<1> DEFINE a == Len(A) - 1
           b == Len(B)
<1>5. /\ a \in Nat \ {0} /\ b \in Nat \ {0, 1} /\ Len(C) = a + b /\ Len(F) = a
      /\ \A i \in 1..a : C[i] = A[i]
      /\ \A i \in 1..b : C[a + i] = B[i]
  <2>1. Len(A) \in Nat /\ Len(B) \in Nat /\ A # <<>>
    BY <1>1, <1>2, LenProperties
  <2>2. F \in Seq(Seq(InLine)) /\ Len(F) = a /\ \A i \in 1..a : F[i] = A[i]
    BY <1>1, <2>1, FrontAndLast
  <2> HIDE DEF F
  <2>3. /\ Len(C) = Len(F) + b
        /\ \A i \in 1..(Len(F) + b) : C[i] = IF i <= Len(F) THEN F[i] ELSE B[i - Len(F)]
    BY <1>1, <1>3, <2>2, ConcatProperties
  <2>4. a \in Nat \ {0} /\ b \in Nat \ {0, 1}
    BY <1>2, <2>1
  <2> HIDE DEF a, b
  <2>5. ASSUME NEW i \in 1..a PROVE C[i] = A[i]
    <3>1. i \in 1..(Len(F) + b) /\ i <= Len(F)
      BY <2>2, <2>4
    <3> QED
      BY <2>2, <2>3, <3>1
  <2>6. ASSUME NEW i \in 1..b PROVE C[a + i] = B[i]
    <3>1. a + i \in 1..(Len(F) + b) /\ ~(a + i <= Len(F)) /\ (a + i) - Len(F) = i
      BY <2>2, <2>4
    <3> QED
      BY <2>3, <3>1
  <2> QED
    BY <2>2, <2>3, <2>4, <2>5, <2>6
<1> HIDE DEF F, a, b
<1>6. ASSUME NEW i \in 1..(a + b - 1), i \notin 1..a
      PROVE  i - a \in 1..(b - 1) /\ C[i] = B[i - a]
  <2>1. i - a \in 1..(b - 1) /\ i - a \in 1..b /\ a + (i - a) = i
    BY <1>5, <1>6
  <2> QED
    BY <1>5, <2>1
<1>7. IsConfig(front \o back)
  <2>1. Len(C) > 1 /\ C[Len(C)] = <<>>
    BY <1>2, <1>5 DEF b
  <2>2. \A i \in 1..(Len(C) - 1) : IsCommand(C[i])
    BY <1>2, <1>5, <1>6 DEF a, b
  <2> QED
    BY <1>4, <2>1, <2>2
<1>8. ParseConfig(front \o back) = ParseConfig(front) \o ParseConfig(back)
  <2> DEFINE p == [i \in 1..a |-> KeywordOf(A[i])]
             q == [i \in 1..(b - 1) |-> KeywordOf(B[i])]
             r == [i \in 1..(a + b - 1) |-> KeywordOf(C[i])]
  <2>1. ParseConfig(front) = p /\ ParseConfig(back) = q /\ ParseConfig(front \o back) = r
    BY <1>4, <1>5 DEF a, b
  <2> DEFINE K == {KeywordOf(A[i]) : i \in 1..a} \cup {KeywordOf(B[i]) : i \in 1..b}
             u == p \o q
  <2>2. /\ p \in Seq(K) /\ Len(p) = a /\ \A i \in 1..a : p[i] = KeywordOf(A[i])
        /\ q \in Seq(K) /\ Len(q) = b - 1 /\ \A i \in 1..(b - 1) : q[i] = KeywordOf(B[i])
    <3>1. \A i \in 1..a : KeywordOf(A[i]) \in K
      OBVIOUS
    <3>2. \A i \in 1..(b - 1) : i \in 1..b /\ KeywordOf(B[i]) \in K
      BY <1>5
    <3>3. b - 1 \in Nat
      BY <1>5
    <3> HIDE DEF K
    <3> QED
      BY <1>5, <3>1, <3>2, <3>3
  <2> HIDE DEF p, q, K
  <2>3. /\ u \in Seq(K) /\ Len(u) = a + b - 1
        /\ \A i \in 1..(a + b - 1) : u[i] = IF i <= a THEN p[i] ELSE q[i - a]
    <3>1. /\ u \in Seq(K) /\ Len(u) = Len(p) + Len(q)
          /\ \A i \in 1..(Len(p) + Len(q)) : u[i] = IF i <= Len(p) THEN p[i] ELSE q[i - Len(p)]
      BY <2>2, ConcatProperties
    <3>2. Len(p) + Len(q) = a + b - 1
      BY <1>5, <2>2
    <3> HIDE DEF u
    <3> QED
      BY <2>2, <3>1, <3>2
  <2> HIDE DEF u
  <2>4. ASSUME NEW i \in 1..(a + b - 1) PROVE u[i] = KeywordOf(C[i])
    <3>1. CASE i \in 1..a
      <4>1. i <= a
        BY <3>1
      <4> QED
        BY <1>5, <2>2, <2>3, <3>1, <4>1
    <3>2. CASE i \notin 1..a
      <4>1. ~(i <= a)
        BY <1>5, <3>2
      <4> QED
        BY <1>6, <2>2, <2>3, <3>2, <4>1
    <3> QED
      BY <3>1, <3>2
  <2>5. u = r
    <3>1. u = [i \in 1..(a + b - 1) |-> u[i]]
      BY <2>3, LenProperties
    <3> QED
      BY <2>4, <3>1
  <2> QED
    BY <2>1, <2>5 DEF u
<1> QED
  BY <1>7, <1>8

-----------------------------------------------------------------------------
(* libsysconfig's parse_keywords.                                            *)

(* What parse_config makes of a command: options, if there are any, are      *)
(* finitely many.                                                            *)
OptionNames == {D \in SUBSET Texts : IsFiniteSet(D) /\ D # {}}
Keyword ==
    [name: Texts,
     options: {<<>>} \cup {<<m>> : m \in UNION {[D -> Texts] : D \in OptionNames}},
     arguments: Seq(Texts)]

(* The fields of what stands in a line.                                      *)
LEMMA InLineFields ==
  ASSUME NEW t \in InLine
  PROVE  /\ t.kind \in {"word", "quoted", "option"}
         /\ t.text \in Texts
         /\ t.kind = "option" => t.name \in Texts
  BY DEF InLine, Seen, Token

(* The map of a command's options, each with the first text given.           *)
LEMMA OptionMapType ==
  ASSUME NEW options \in Seq({t \in InLine : t.kind \in {"option"}}), options # <<>>
  PROVE  \E D \in OptionNames : OptionMap(options) \in [D -> Texts]
<1> DEFINE n == Len(options)
           D == {options[i].name : i \in DOMAIN options}
           First(d, i) == /\ options[i].name = d
                          /\ \A j \in 1..(i - 1) : options[j].name # d
<1>1. /\ n \in Nat /\ DOMAIN options = 1..n
      /\ \A i \in 1..n : options[i].name \in Texts /\ options[i].text \in Texts
  BY LenProperties, ElementOfSeq, InLineFields
<1>2. D \in OptionNames
  <2> DEFINE f == [i \in 1..n |-> options[i].name]
  <2>1. D \in SUBSET Texts
    BY <1>1
  <2>2. D # {}
    <3>1. 1 \in DOMAIN options
      BY <1>1, EmptySeq
    <3> QED
      BY <3>1
  <2>3. f \in Surjection(1..n, D)
    BY <1>1 DEF Surjection
  <2>4. IsFiniteSet(1..n)
    BY <1>1, FS_Interval
  <2> HIDE DEF D, f, n
  <2>5. IsFiniteSet(D)
    BY <2>3, <2>4, FS_Surjection
  <2> QED
    BY <2>1, <2>2, <2>5 DEF OptionNames
<1>3. ASSUME NEW d \in D
      PROVE  \E i \in DOMAIN options : First(d, i)
  <2> DEFINE P == {i \in 1..n : options[i].name = d}
  <2>1. P \in SUBSET Nat /\ P # {}
    BY <1>1
  <2>2. PICK i \in P : \A j \in P : i <= j
    <3> HIDE DEF P
    <3> QED
      BY <2>1, Least
  <2>3. \A j \in 1..(i - 1) : options[j].name # d
    <3>1. SUFFICES ASSUME NEW j \in 1..(i - 1), options[j].name = d PROVE FALSE
      OBVIOUS
    <3>2. j \in P /\ ~(i <= j)
      BY <1>1, <3>1
    <3> QED
      BY <2>2, <3>2
  <2> QED
    BY <1>1, <2>2, <2>3
<1>4. ASSUME NEW d \in D
      PROVE  options[CHOOSE i \in DOMAIN options : First(d, i)].text \in Texts
  <2> DEFINE i == CHOOSE i \in DOMAIN options : First(d, i)
  <2>1. i \in DOMAIN options
    BY <1>3
  <2> HIDE DEF i
  <2>2. options[i].text \in Texts
    BY <1>1, <2>1
  <2> QED
    BY <2>2 DEF i
<1>5. OptionMap(options) = [d \in D |-> options[CHOOSE i \in DOMAIN options : First(d, i)].text]
  BY DEF OptionMap
<1> HIDE DEF D, First
<1>6. OptionMap(options) \in [D -> Texts]
  BY <1>4, <1>5
<1> QED
  BY <1>2, <1>6

(* A command is read as a keyword.                                           *)
LEMMA KeywordType ==
  ASSUME NEW line \in Seq(InLine), IsCommand(line)
  PROVE  KeywordOf(line) \in Keyword
<1> DEFINE cut == Cut[line[1].text]
           rest == OfKinds(Tail(line), {"word", "quoted"})
           words == [i \in DOMAIN rest |-> rest[i].text]
<1>1. line # <<>> /\ line[1] \in InLine /\ line[1].text \in Texts
  <2>1. line # <<>> /\ 1 \in 1..Len(line)
    BY EmptySeq DEF IsCommand
  <2> QED
    BY <2>1, ElementOfSeq, InLineFields
<1>2. cut \in Seq(Texts) /\ cut # <<>> /\ Tail(cut) \in Seq(Texts) /\ cut[1] \in Texts
  <2>1. cut \in Seq(Texts) /\ cut # <<>>
    BY <1>1, CfgParserAssumption DEF IsCommand
  <2> HIDE DEF cut
  <2> QED
    BY <2>1
<1>3. rest \in Seq(InLine)
  <2>1. Tail(line) \in Seq(InLine)
    BY <1>1
  <2>2. rest \in Seq({t \in InLine : t.kind \in {"word", "quoted"}})
    BY <2>1, OfKindsType
  <2> HIDE DEF rest
  <2> QED
    BY <2>2, SeqMonotonic
<1>4. words \in Seq(Texts)
  <2> HIDE DEF rest
  <2>1. /\ Len(rest) \in Nat /\ DOMAIN rest = 1..Len(rest)
        /\ \A i \in 1..Len(rest) : rest[i].text \in Texts
    BY <1>3, LenProperties, ElementOfSeq, InLineFields
  <2> QED
    BY <2>1
<1>5. Arguments(line) \in Seq(Texts)
  <2>1. Arguments(line) = Tail(cut) \o words
    BY DEF Arguments
  <2> HIDE DEF cut, words
  <2> QED
    BY <1>2, <1>4, <2>1
<1>6. OptionsOf(line) \in Seq({t \in InLine : t.kind \in {"option"}})
  BY OfKindsType DEF OptionsOf
<1>7. KeywordOf(line).options
         \in {<<>>} \cup {<<m>> : m \in UNION {[D -> Texts] : D \in OptionNames}}
  <2>1. CASE OptionsOf(line) = <<>>
    BY <2>1 DEF KeywordOf
  <2>2. CASE OptionsOf(line) # <<>>
    <3>1. PICK D \in OptionNames : OptionMap(OptionsOf(line)) \in [D -> Texts]
      BY <1>6, <2>2, OptionMapType
    <3> QED
      BY <2>2, <3>1 DEF KeywordOf
  <2> QED
    BY <2>1, <2>2
<1> QED
  BY <1>2, <1>5, <1>7 DEF KeywordOf, Keyword

(* A configuration is read as keywords.                                      *)
LEMMA ParseConfigType ==
  ASSUME NEW words \in Seq(Token), IsConfig(words)
  PROVE  ParseConfig(words) \in Seq(Keyword)
<1> DEFINE L == Lines(Visible(words))
           n == Len(L) - 1
<1>1. L \in Seq(Seq(InLine)) /\ L # <<>>
  BY VisibleLines
<1>2. /\ ParseConfig(words) = [i \in 1..n |-> KeywordOf(L[i])]
      /\ \A i \in 1..n : IsCommand(L[i])
  BY DEF ParseConfig, IsConfig
<1> HIDE DEF L
<1>3. n \in Nat /\ \A i \in 1..n : L[i] \in Seq(InLine)
  BY <1>1
<1>4. \A i \in 1..n : KeywordOf(L[i]) \in Keyword
  BY <1>2, <1>3, KeywordType
<1> HIDE DEF n
<1> QED
  BY <1>2, <1>3, <1>4

(* Options of a keyword.                                                     *)
LEMMA GetType ==
  ASSUME NEW k \in Keyword, NEW option
  PROVE  /\ Get(k, option) \in Option(Word)
         /\ Has(k, option) => k.options[1][option] \in Word
<1>1. ASSUME Has(k, option) PROVE k.options[1][option] \in Texts
  BY <1>1 DEF Has, Keyword, OptionNames
<1> QED
  BY <1>1, KeywordsAssumption DEF Get, Option

(* A keyword that is not turned down makes an instruction.                   *)
LEMMA InstructionType ==
  ASSUME NEW k \in Keyword, Verdict(k) = "ok"
  PROVE  /\ InstructionOf(k) \in Instruction
         /\ InstructionOf(k).op = "password" =>
              /\ InstructionOf(k).kind = "hash"
              /\ InstructionOf(k).value \in PlainHashes \cup Crypted
<1> DEFINE a == k.arguments
<1>1. a \in Seq(Texts) /\ Len(a) \in Nat /\ \A i \in 1..Len(a) : a[i] \in Texts /\ a[i] \in Word
  BY KeywordsAssumption, LenProperties, ElementOfSeq DEF Keyword
<1>2. k.name \in Supported /\ Len(a) >= Needed(k)
  <2>1. Needed(k) \in Nat
    BY DEF Needed
  <2> HIDE DEF a
  <2> QED
    BY <1>1, <2>1 DEF Verdict, Refused, a
<1>3. k.name \notin {"setup_dns", "terminal"} => Len(a) >= 1 /\ a[1] \in Texts /\ a[1] \in Word
  BY <1>1, <1>2 DEF Needed
<1> HIDE DEF a
<1>4. CASE k.name = "keyboard"
  <2>1. InstructionOf(k) = [op |-> "keymap", layout |-> a[1]]
    BY <1>4 DEF InstructionOf, a
  <2> QED
    BY <1>3, <1>4, <2>1 DEF Instruction
<1>5. CASE k.name = "timezone"
  <2>1. InstructionOf(k) = [op |-> "timezone", name |-> a[1]]
    BY <1>5 DEF InstructionOf, a
  <2> QED
    BY <1>3, <1>5, <2>1 DEF Instruction
<1>6. CASE k.name = "terminal"
  <2> DEFINE name == Get(k, "name")
             label == IF Has(k, "label") THEN Get(k, "label")
                      ELSE IF Has(k, "module") THEN Get(k, "module") ELSE Get(k, "prompt")
             type == IF TypeGiven(k) THEN k.options[1]["type"] ELSE a[1]
  <2>1. InstructionOf(k) = [op |-> "terminal", name |-> name, label |-> label, type |-> type]
    BY <1>6 DEF InstructionOf, SetupTerminalOf, a
  <2>2. name \in Option(Word) /\ label \in Option(Word)
    BY GetType
  <2>3. type \in Word
    <3>1. CASE TypeGiven(k)
      BY <3>1, GetType DEF TypeGiven
    <3>2. CASE ~TypeGiven(k)
      <4>1. Len(a) >= 1
        BY <1>2, <1>6, <3>2 DEF Needed
      <4> QED
        BY <1>1, <3>2, <4>1
    <3> QED
      BY <3>1, <3>2
  <2> HIDE DEF name, label, type
  <2> QED
    BY <2>1, <2>2, <2>3 DEF Instruction
<1>7. CASE k.name = "timeserver"
  <2>1. InstructionOf(k) = [op |-> "timeserver"]
    BY <1>7 DEF InstructionOf
  <2> QED
    BY <2>1 DEF Instruction
<1>8. CASE k.name = "network_interface"
  <2> DEFINE four == InstructionOf(k).ipv4
             six == InstructionOf(k).ipv6
             name == Get(k, "name")
  <2>1. /\ InstructionOf(k) = [op |-> "interface", device |-> a[1], name |-> name,
                               ipv4 |-> four, ipv6 |-> six]
        /\ four \in {<<"static">>, <<"dhcp">>, <<>>}
        /\ six \in {<<"static">>, <<"dhcp-stateful">>, <<>>}
    BY <1>8 DEF InstructionOf, ConfigureNetworkAdapterOf, a
  <2>2. name \in Option(Word)
    BY GetType
  <2>3. four \in Option(NetworkConfig) /\ six \in Option(NetworkConfig)
    <3>1. <<>> \in Option(NetworkConfig) /\ \A c \in NetworkConfig : <<c>> \in Option(NetworkConfig)
      BY DEF Option
    <3>2. {"static", "dhcp", "dhcp-stateful"} \subseteq NetworkConfig
      BY DEF NetworkConfig
    <3> HIDE DEF four, six
    <3> QED
      BY <2>1, <3>1, <3>2
  <2> HIDE DEF four, six, name
  <2> QED
    BY <1>3, <1>8, <2>1, <2>2, <2>3 DEF Instruction
<1>9. CASE k.name = "system_locale"
  <2>1. InstructionOf(k) = [op |-> "locale", name |-> Split[a[1]], unicode |-> IsUnicode(Split[a[1]])]
    BY <1>9 DEF InstructionOf, a
  <2>2. Split[a[1]] \in Seq(Word)
    BY <1>3, <1>9, KeywordsAssumption
  <2>3. IsUnicode(Split[a[1]]) \in BOOLEAN
    BY DEF IsUnicode
  <2> QED
    BY <2>1, <2>2, <2>3 DEF Instruction
<1>10. CASE k.name = "dataset"
  <2>1. InstructionOf(k) = [op |-> "dataset", name |-> a[1]]
    BY <1>10 DEF InstructionOf, a
  <2> QED
    BY <1>3, <1>10, <2>1 DEF Instruction
<1>11. CASE k.name = "setup_dns"
  <2> DEFINE domain == Get(k, "domain")
             search == Get(k, "search")
  <2>1. InstructionOf(k) = [op |-> "dns", nameservers |-> a, domain |-> domain, search |-> search]
    BY <1>11 DEF InstructionOf, a
  <2>2. domain \in Option(Word) /\ search \in Option(Word)
    BY GetType
  <2>3. a \in Seq(Word)
    BY <1>1, KeywordsAssumption, SeqMonotonic
  <2> HIDE DEF domain, search
  <2> QED
    BY <2>1, <2>2, <2>3 DEF Instruction
<1>12. CASE k.name = "route"
  <2> DEFINE n == IF Len(a) > 2 THEN 2 ELSE 1
  <2>1. InstructionOf(k) = [op |-> "route", match |-> a[n], gateway |-> a[n + 1]]
    BY <1>12 DEF InstructionOf, AddRouteOf, a
  <2>2. n \in 1..Len(a) /\ n + 1 \in 1..Len(a)
    BY <1>1, <1>2, <1>12 DEF Needed
  <2> HIDE DEF n
  <2>3. a[n] \in Word /\ a[n + 1] \in Word
    BY <1>1, <2>2
  <2> QED
    BY <2>1, <2>3 DEF Instruction
<1>13. CASE k.name = "root_password"
  <2> DEFINE value == IF a[1] \in Crypted THEN a[1] ELSE Generated[a[1]]
  <2>1. InstructionOf(k) = [op |-> "password", kind |-> "hash", value |-> value]
    BY <1>13 DEF InstructionOf, SetRootPasswordOf, a
  <2>2. value \in PlainHashes \cup Crypted
    BY <1>3, <1>13, KeywordsAssumption
  <2>3. value \in Hashes
    BY <2>2, KeywordsAssumption, ShadowAssumption
  <2> HIDE DEF value
  <2> QED
    BY <2>1, <2>2, <2>3 DEF Instruction
<1> QED
  BY <1>2, <1>4, <1>5, <1>6, <1>7, <1>8, <1>9, <1>10, <1>11, <1>12, <1>13 DEF Supported

(* parse_keywords returns an instruction for every keyword, or none.         *)
LEMMA ParseKeywordsType ==
  ASSUME NEW keywords \in Seq(Keyword)
  PROVE  LET read == ParseKeywords(keywords) IN
         /\ read.result \in {"ok", "err", "panic"}
         /\ read.set \in Seq(Instruction)
         /\ read.result = "ok" => Len(read.set) = Len(keywords)
         /\ \A i \in DOMAIN read.set : read.set[i].op = "password" =>
              /\ read.set[i].kind = "hash"
              /\ read.set[i].value \in PlainHashes \cup Crypted
<1> DEFINE n == Len(keywords)
           read == ParseKeywords(keywords)
<1>1. n \in Nat /\ DOMAIN keywords = 1..n /\ \A i \in 1..n : keywords[i] \in Keyword
  BY LenProperties, ElementOfSeq
<1>2. CASE Bad(keywords) = {}
  <2> DEFINE s == [i \in 1..n |-> InstructionOf(keywords[i])]
  <2>1. read = [result |-> "ok", set |-> s]
    BY <1>1, <1>2 DEF ParseKeywords
  <2>2. ASSUME NEW i \in 1..n
        PROVE  /\ s[i] \in Instruction
               /\ s[i].op = "password" => s[i].kind = "hash" /\ s[i].value \in PlainHashes \cup Crypted
    <3>1. Verdict(keywords[i]) = "ok"
      BY <1>1, <1>2 DEF Bad
    <3>2. s[i] = InstructionOf(keywords[i])
      OBVIOUS
    <3> HIDE DEF s
    <3> QED
      BY <1>1, <3>1, <3>2, InstructionType
  <2>3. s = [i \in 1..n |-> s[i]]
    OBVIOUS
  <2> HIDE DEF s, n, read
  <2>4. s \in Seq(Instruction) /\ Len(s) = n /\ DOMAIN s = 1..n
    BY <1>1, <2>2, <2>3
  <2> QED
    BY <2>1, <2>2, <2>4 DEF n, read
<1>3. CASE Bad(keywords) # {}
  <2> DEFINE Earliest(i) == \A j \in Bad(keywords) : i <= j
             first == CHOOSE i \in Bad(keywords) : Earliest(i)
  <2>1. read = [result |-> Verdict(keywords[first]), set |-> <<>>]
    BY <1>3 DEF ParseKeywords
  <2>2. Bad(keywords) \in SUBSET Nat
    BY <1>1 DEF Bad
  <2>3. \E i \in Bad(keywords) : Earliest(i)
    BY <1>3, <2>2, Least
  <2>4. first \in Bad(keywords)
    BY <2>3
  <2> HIDE DEF first
  <2>5. Verdict(keywords[first]) \in {"err", "panic"}
    BY <2>4 DEF Bad, Verdict
  <2> HIDE DEF read
  <2>6. /\ read.result \in {"err", "panic"} /\ read.set = <<>>
    BY <2>1, <2>5
  <2>7. <<>> \in Seq(Instruction) /\ DOMAIN <<>> = {}
    OBVIOUS
  <2> QED
    BY <2>6, <2>7 DEF read
<1> QED
  BY <1>2, <1>3

(* Whatever a text says.                                                     *)
LEMMA ParseTextType ==
  ASSUME NEW words \in Seq(Token)
  PROVE  LET read == ParseText(words) IN
         /\ read.result \in {"ok", "err", "panic"}
         /\ read.set \in Seq(Instruction)
         /\ read.result = "ok" => Len(read.set) = Len(ParseConfig(words))
         /\ \A i \in DOMAIN read.set : read.set[i].op = "password" =>
              /\ read.set[i].kind = "hash"
              /\ read.set[i].value \in PlainHashes \cup Crypted
<1>1. CASE IsConfig(words)
  <2> DEFINE keywords == ParseConfig(words)
  <2>1. keywords \in Seq(Keyword) /\ ParseText(words) = ParseKeywords(keywords)
    BY <1>1, ParseConfigType DEF ParseText
  <2> HIDE DEF keywords
  <2>2. LET read == ParseKeywords(keywords) IN
         /\ read.result \in {"ok", "err", "panic"}
         /\ read.set \in Seq(Instruction)
         /\ read.result = "ok" => Len(read.set) = Len(keywords)
         /\ \A i \in DOMAIN read.set : read.set[i].op = "password" =>
              /\ read.set[i].kind = "hash"
              /\ read.set[i].value \in PlainHashes \cup Crypted
    BY <2>1, ParseKeywordsType
  <2> QED
    BY <2>1, <2>2 DEF keywords
<1>2. CASE ~IsConfig(words)
  <2>1. ParseText(words) = [result |-> "err", set |-> <<>>]
    BY <1>2 DEF ParseText
  <2>2. <<>> \in Seq(Instruction) /\ DOMAIN <<>> = {}
    OBVIOUS
  <2> QED
    BY <2>1, <2>2
<1> QED
  BY <1>1, <1>2

-----------------------------------------------------------------------------
(* Any text.                                                                 *)

LEMMA TextTyped == TextSpec => [](text \in Seq(Token))
<1> DEFINE Typed == style \in Styles /\ text \in Seq(Token)
<1>1. TextInit => Typed
  BY TextAssumption DEF TextInit
<1>2. Typed /\ [TextNext]_<<style, text>> => Typed'
  <2>1. ASSUME Typed, NEW token \in style.tokens, Write(token) PROVE Typed'
    <3>1. token \in Token
      BY <2>1, TextAssumption
    <3> QED
      BY <2>1, <3>1 DEF Write
  <2>2. Typed /\ UNCHANGED <<style, text>> => Typed'
    OBVIOUS
  <2> QED
    BY <2>1, <2>2 DEF TextNext
<1> QED
  BY <1>1, <1>2, PTL DEF TextSpec

(* PasswordsArriveHashed: what the parser of libcfgparser and parse_keywords *)
(* of libsysconfig make of any text are instructions the driver takes.       *)
THEOREM PasswordsArriveHashedHolds == TextSpec => []PasswordsArriveHashed
<1>1. text \in Seq(Token) => PasswordsArriveHashed
  BY ParseTextType DEF PasswordsArriveHashed, Read
<1> QED
  BY <1>1, TextTyped, PTL

(* ReadApart: parse_config reads two configurations, one behind the other,   *)
(* as it reads each, however long they are.                                  *)
THEOREM ReadApartHolds == TextSpec => []ReadApart
<1>1. ASSUME text \in Seq(Token) PROVE ReadApart
  <2> SUFFICES ASSUME NEW i \in 1..(Len(text) - 1),
                      IsConfig(SubSeq(text, 1, i)), IsConfig(SubSeq(text, i + 1, Len(text)))
               PROVE  /\ IsConfig(text)
                      /\ ParseConfig(text) = ParseConfig(SubSeq(text, 1, i))
                                               \o ParseConfig(SubSeq(text, i + 1, Len(text)))
    BY DEF ReadApart
  <2> DEFINE front == SubSeq(text, 1, i)
             back == SubSeq(text, i + 1, Len(text))
  <2>1. front \in Seq(Token) /\ back \in Seq(Token) /\ text = front \o back
    BY <1>1
  <2> HIDE DEF front, back
  <2>2. IsConfig(front) /\ IsConfig(back)
    BY DEF front, back
  <2>3. /\ IsConfig(front \o back)
        /\ ParseConfig(front \o back) = ParseConfig(front) \o ParseConfig(back)
    BY <2>1, <2>2, ConfigBehind
  <2> QED
    BY <2>1, <2>3 DEF front, back
<1> QED
  BY <1>1, TextTyped, PTL

-----------------------------------------------------------------------------
(* libinstall's zpool-create.                                                *)

(* FlattenSeq adds one sequence after the other.                             *)
LEMMA FlattenRuns ==
  ASSUME NEW S, NEW ss \in Seq(Seq(S))
  PROVE  \E f : /\ f[0] = <<>>
                /\ \A i \in 1..Len(ss) : f[i] = f[i - 1] \o ss[i]
                /\ \A i \in 0..Len(ss) : f[i] \in Seq(S)
                /\ FlattenSeq(ss) = f[Len(ss)]
<1> DEFINE n == Len(ss)
           step == [i \in 1..n |-> [x \in Seq(S) |-> x \o ss[i]]]
           Runs(f) == f = [i \in 1..n |-> IF i = 1 THEN ss[i] ELSE f[i - 1] \o ss[i]]
           At(f) == /\ f[0] = <<>>
                    /\ \A i \in 1..n : f[i] = f[i - 1] \o ss[i]
                    /\ \A i \in 0..n : f[i] \in Seq(S)
<1>1. n \in Nat /\ \A i \in 1..n : ss[i] \in Seq(S)
  BY LenProperties, ElementOfSeq
<1>2. \A i \in 1..n : \A x \in Seq(S) : step[i][x] = x \o ss[i] /\ step[i][x] \in Seq(S)
  BY <1>1
<1>3. n # 0 => FlattenSeq(ss) = (CHOOSE f : Runs(f))[n]
  BY DEF FlattenSeq
<1>4. n = 0 => ss = <<>> /\ FlattenSeq(ss) = <<>>
  BY DEF FlattenSeq
<1> HIDE DEF n, step
<1>5. PICK f : Steps(f, n, <<>>, step)
  BY <1>1, StepsExist
<1>6. f[0] = <<>> /\ \A i \in 1..n : f[i] = step[i][f[i - 1]]
  BY <1>1, <1>5, StepsAt
<1>7. \A i \in 0..n : f[i] \in Seq(S)
  <2> DEFINE T == {i \in 0..n : f[i] \in Seq(S)}
  <2>1. 0 \in T
    <3>1. <<>> \in Seq(S) /\ 0 \in 0..n
      BY <1>1
    <3> QED
      BY <1>6, <3>1
  <2>2. ASSUME NEW i \in 0..(n - 1), i \in T PROVE i + 1 \in T
    <3>1. i + 1 \in 1..n /\ i + 1 \in 0..n /\ (i + 1) - 1 = i
      BY <1>1
    <3> QED
      BY <1>2, <1>6, <2>2, <3>1
  <2> HIDE DEF T
  <2>3. 0..n \subseteq T
    BY <1>1, <2>1, <2>2, Upwards
  <2> QED
    BY <2>3 DEF T
<1>8. \A i \in 1..n : f[i] = f[i - 1] \o ss[i]
  <2> TAKE i \in 1..n
  <2>1. i - 1 \in 0..n
    BY <1>1
  <2> QED
    BY <1>2, <1>6, <1>7, <2>1
<1>9. At(f)
  BY <1>6, <1>7, <1>8
<1>10. ASSUME 1 \in 1..n PROVE f[1] = ss[1]
  <2>1. f[1] = f[1 - 1] \o ss[1]
    BY <1>8, <1>10, Zenon
  <2>2. f[1] = <<>> \o ss[1]
    <3>1. 1 - 1 = 0
      OBVIOUS
    <3> QED
      BY <1>6, <2>1, <3>1, Zenon
  <2>3. ss[1] \in Seq(S)
    BY <1>1, <1>10
  <2> QED
    BY <2>2, <2>3, ConcatEmptySeq
<1> DEFINE h == [i \in 1..n |-> f[i]]
<1>11. Runs(h)
  <2>1. \A i \in 1..n : h[i] = f[i]
    OBVIOUS
  <2>2. h = [i \in 1..n |-> h[i]]
    OBVIOUS
  <2> HIDE DEF h
  <2>3. ASSUME NEW i \in 1..n PROVE h[i] = IF i = 1 THEN ss[i] ELSE h[i - 1] \o ss[i]
    <3>1. CASE i = 1
      BY <1>10, <2>1, <3>1
    <3>2. CASE i # 1
      <4>1. i - 1 \in 1..n
        BY <1>1, <3>2
      <4> QED
        BY <1>8, <2>1, <3>2, <4>1
    <3> QED
      BY <3>1, <3>2
  <2> QED
    BY <2>2, <2>3
<1> DEFINE g == CHOOSE g : Runs(g)
<1>12. Runs(g)
  BY <1>11
<1>13. \A i \in 1..n : g[i] = IF i = 1 THEN ss[i] ELSE g[i - 1] \o ss[i]
  <2> DEFINE k == [i \in 1..n |-> IF i = 1 THEN ss[i] ELSE g[i - 1] \o ss[i]]
  <2>1. \A i \in 1..n : k[i] = IF i = 1 THEN ss[i] ELSE g[i - 1] \o ss[i]
    OBVIOUS
  <2>2. g = k
    BY <1>12
  <2> HIDE DEF g, k
  <2> QED
    BY <2>1, <2>2
<1> HIDE DEF g
<1>14. \A i \in 1..n : f[i] = g[i]
  <2> DEFINE T == {i \in 0..n : i # 0 => f[i] = g[i]}
  <2>1. 0 \in T
    BY <1>1
  <2>2. ASSUME NEW i \in 0..(n - 1), i \in T PROVE i + 1 \in T
    <3>1. i + 1 \in 1..n /\ i + 1 \in 0..n /\ i + 1 # 0 /\ (i + 1) - 1 = i
      BY <1>1
    <3>2. CASE i = 0
      <4>1. f[1] = ss[1] /\ g[1] = ss[1] /\ i + 1 = 1
        BY <1>13, <1>10, <3>1, <3>2
      <4> QED
        BY <3>1, <4>1
    <3>3. CASE i # 0
      <4>1. f[i] = g[i] /\ i + 1 # 1
        BY <2>2, <3>3
      <4>2. f[i + 1] = f[i] \o ss[i + 1]
        BY <1>8, <3>1
      <4>3. g[i + 1] = g[i] \o ss[i + 1]
        BY <1>13, <3>1, <4>1
      <4>4. f[i + 1] = g[i + 1]
        BY <4>1, <4>2, <4>3
      <4> QED
        BY <3>1, <4>4
    <3> QED
      BY <3>2, <3>3
  <2> HIDE DEF T
  <2>3. 0..n \subseteq T
    BY <1>1, <2>1, <2>2, Upwards
  <2> QED
    BY <2>3 DEF T
<1>15. FlattenSeq(ss) = f[n]
  <2>1. CASE n = 0
    BY <1>4, <1>6, <2>1
  <2>2. CASE n # 0
    <3>1. n \in 1..n
      BY <1>1, <2>2
    <3> QED
      BY <1>3, <1>14, <2>2, <3>1 DEF g
  <2> QED
    BY <2>1, <2>2
<1> QED
  BY <1>9, <1>15 DEF n

(* FlattenSeq keeps to the elements of its sequences.                        *)
LEMMA FlattenType ==
  ASSUME NEW S, NEW ss \in Seq(Seq(S))
  PROVE  FlattenSeq(ss) \in Seq(S)
<1>1. PICK f : /\ \A i \in 0..Len(ss) : f[i] \in Seq(S)
               /\ FlattenSeq(ss) = f[Len(ss)]
  BY FlattenRuns
<1>2. Len(ss) \in 0..Len(ss)
  OBVIOUS
<1> QED
  BY <1>1, <1>2

(* One more sequence goes to the end.                                        *)
LEMMA FlattenAppend ==
  ASSUME NEW S, NEW ss \in Seq(Seq(S)), NEW s \in Seq(S)
  PROVE  FlattenSeq(Append(ss, s)) = FlattenSeq(ss) \o s
<1> DEFINE n == Len(ss)
           tt == Append(ss, s)
<1>1. /\ n \in Nat /\ tt \in Seq(Seq(S)) /\ Len(tt) = n + 1 /\ tt[n + 1] = s
      /\ \A i \in 1..n : tt[i] = ss[i]
  OBVIOUS
<1>2. PICK f : /\ f[0] = <<>>
               /\ \A i \in 1..n : f[i] = f[i - 1] \o ss[i]
               /\ FlattenSeq(ss) = f[n]
  BY FlattenRuns
<1> HIDE DEF n, tt
<1>3. PICK g : /\ g[0] = <<>>
               /\ \A i \in 1..(n + 1) : g[i] = g[i - 1] \o tt[i]
               /\ FlattenSeq(tt) = g[n + 1]
  <2>1. PICK g : /\ g[0] = <<>>
                 /\ \A i \in 1..Len(tt) : g[i] = g[i - 1] \o tt[i]
                 /\ FlattenSeq(tt) = g[Len(tt)]
    BY <1>1, FlattenRuns
  <2> QED
    BY <1>1, <2>1
<1> DEFINE T == {i \in 0..n : f[i] = g[i]}
<1>4. 0 \in T
  <2>1. 0 \in 0..n /\ f[0] = g[0]
    BY <1>1, <1>2, <1>3
  <2> QED
    BY <2>1
<1>5. ASSUME NEW i \in 0..(n - 1), i \in T PROVE i + 1 \in T
  <2>1. i + 1 \in 1..n /\ i + 1 \in 1..(n + 1) /\ i + 1 \in 0..n /\ (i + 1) - 1 = i
    BY <1>1
  <2>2. f[i] = g[i] /\ tt[i + 1] = ss[i + 1]
    BY <1>1, <1>5, <2>1
  <2> QED
    BY <1>2, <1>3, <2>1, <2>2
<1> HIDE DEF T
<1>6. 0..n \subseteq T
  BY <1>1, <1>4, <1>5, Upwards
<1>7. n \in 0..n /\ n + 1 \in 1..(n + 1) /\ (n + 1) - 1 = n
  <2>1. n \in Nat
    BY <1>1
  <2> QED
    BY <2>1
<1>8. f[n] = g[n]
  BY <1>6, <1>7 DEF T
<1>9. g[n + 1] = g[n] \o s
  <2>1. g[n + 1] = g[(n + 1) - 1] \o tt[n + 1]
    BY <1>3, <1>7, Zenon
  <2>2. tt[n + 1] = s
    BY <1>1
  <2> QED
    BY <1>7, <2>1, <2>2
<1> QED
  BY <1>2, <1>3, <1>8, <1>9 DEF tt

(* What zpool create is told, vdev by vdev.                                  *)
Said == Texts \cup {"mirror", "raidz1", "raidz2", "raidz3"}
Vdev == [type: {"", "mirror", "raidz1", "raidz2", "raidz3"}, devices: Seq(Texts)]

(* The groups, and what zpool calls them.                                    *)
LEMMA GroupType ==
  /\ DOMAIN Group = {"mirror", "raidz", "raidz1", "raidz2", "raidz3"}
  /\ \A word \in DOMAIN Group : Group[word] \in {"mirror", "raidz1", "raidz2", "raidz3"}
  BY DEF Group

(* A vdev is printed in words zpool is told.                                 *)
LEMMA PrintedType ==
  ASSUME NEW v \in Vdev
  PROVE  Printed(v) \in Seq(Said)
<1>1. v.devices \in Seq(Said)
  <2>1. v.devices \in Seq(Texts) /\ Texts \subseteq Said
    BY DEF Vdev, Said
  <2> QED
    BY <2>1, SeqMonotonic
<1>2. (IF v.type = "" THEN <<>> ELSE <<v.type>>) \in Seq(Said)
  <2>1. v.type = "" \/ v.type \in Said
    BY DEF Vdev, Said
  <2>2. <<>> \in Seq(Said) /\ \A word \in Said : <<word>> \in Seq(Said)
    OBVIOUS
  <2> QED
    BY <2>1, <2>2, Zenon
<1> QED
  BY <1>1, <1>2, ConcatProperties DEF Printed

(* Of no vdev nothing is printed.                                            *)
LEMMA ZpoolEmpty == ZpoolArguments(<<>>) = <<>>
<1> DEFINE none == <<>>
           p == [i \in DOMAIN none |-> Printed(none[i])]
<1>1. p = <<>>
  OBVIOUS
<1>2. ZpoolArguments(none) = FlattenSeq(p)
  BY DEF ZpoolArguments
<1> HIDE DEF p
<1> QED
  BY <1>1, <1>2 DEF FlattenSeq

(* One more vdev is printed at the end.                                      *)
LEMMA ZpoolAppend ==
  ASSUME NEW vs \in Seq(Vdev), NEW v \in Vdev
  PROVE  /\ ZpoolArguments(vs) \in Seq(Said)
         /\ ZpoolArguments(Append(vs, v)) = ZpoolArguments(vs) \o Printed(v)
<1> DEFINE n == Len(vs)
           ws == Append(vs, v)
           p == [i \in 1..n |-> Printed(vs[i])]
           q == [i \in 1..(n + 1) |-> Printed(ws[i])]
           R == Seq(Said)
<1>1. /\ n \in Nat /\ DOMAIN vs = 1..n /\ DOMAIN ws = 1..(n + 1) /\ ws[n + 1] = v
      /\ \A i \in 1..n : vs[i] \in Vdev /\ ws[i] = vs[i]
  BY LenProperties, ElementOfSeq
<1>2. ZpoolArguments(vs) = FlattenSeq(p) /\ ZpoolArguments(ws) = FlattenSeq(q)
  BY <1>1 DEF ZpoolArguments
<1>3. Printed(v) \in R /\ \A i \in 1..n : Printed(vs[i]) \in R
  BY <1>1, PrintedType
<1> HIDE DEF n, ws, R
<1>4. p \in Seq(R) /\ Len(p) = n /\ \A i \in 1..n : p[i] = Printed(vs[i])
  BY <1>1, <1>3
<1>5. q = Append(p, Printed(v))
  <2>1. \A i \in 1..(n + 1) : i \in 1..n \/ i = n + 1
    BY <1>1
  <2>2. \A i \in 1..(n + 1) : q[i] = IF i = n + 1 THEN Printed(v) ELSE p[i]
    BY <1>1, <1>4, <2>1
  <2>3. q \in Seq(R) /\ Len(q) = n + 1
    BY <1>1, <1>3, <2>1
  <2> DEFINE last == Printed(v)
             r == Append(p, last)
  <2>4. last \in R
    BY <1>3
  <2> HIDE DEF p, q, last
  <2>5. r \in Seq(R) /\ Len(r) = n + 1 /\ \A i \in 1..(n + 1) : r[i] = IF i = n + 1 THEN last ELSE p[i]
    BY <1>1, <1>4, <2>4
  <2> HIDE DEF r
  <2>6. q = r
    BY <2>2, <2>3, <2>5, SeqEqual DEF last
  <2> QED
    BY <2>6 DEF r, last
<1> HIDE DEF p, q
<1>6. FlattenSeq(p) \in R
  BY <1>4, FlattenType DEF R
<1>7. FlattenSeq(Append(p, Printed(v))) = FlattenSeq(p) \o Printed(v)
  <2> DEFINE last == Printed(v)
  <2>1. last \in Seq(Said) /\ p \in Seq(Seq(Said))
    BY <1>3, <1>4 DEF R
  <2> HIDE DEF last
  <2>2. FlattenSeq(Append(p, last)) = FlattenSeq(p) \o last
    BY <2>1, FlattenAppend
  <2> QED
    BY <2>2 DEF last
<1> QED
  BY <1>2, <1>5, <1>6, <1>7 DEF ws, R

(* Take is called with one word behind the pool's name after the other.      *)
TakeState == [vdevs: Seq(Vdev), vdev: Vdev]

(* A word makes a vdev or joins one.                                         *)
LEMMA TakeType ==
  ASSUME NEW state \in TakeState, NEW word \in Texts
  PROVE  Take(state, word) \in TakeState
<1>1. state.vdevs \in Seq(Vdev) /\ state.vdev \in Vdev /\ state.vdev.devices \in Seq(Texts)
  BY DEF TakeState, Vdev
<1>2. CASE word \in DOMAIN Group
  <2>1. Group[word] \in {"mirror", "raidz1", "raidz2", "raidz3"}
    BY <1>2, GroupType
  <2>2. [state.vdev EXCEPT !.type = Group[word]] \in Vdev
    BY <1>1, <2>1 DEF Vdev
  <2>3. [NoVdev EXCEPT !.type = Group[word]] \in Vdev
    <3>1. NoVdev \in Vdev
      BY DEF Vdev, NoVdev
    <3> QED
      BY <2>1, <3>1 DEF Vdev
  <2>4. Append(state.vdevs, state.vdev) \in Seq(Vdev)
    BY <1>1
  <2> QED
    BY <1>1, <1>2, <2>2, <2>3, <2>4 DEF Take, TakeState
<1>3. CASE word \notin DOMAIN Group
  <2>1. [state.vdev EXCEPT !.devices = Append(@, word)] \in Vdev
    <3> DEFINE d == Append(state.vdev.devices, word)
    <3>1. d \in Seq(Texts)
      BY <1>1
    <3> HIDE DEF d
    <3>2. [state.vdev EXCEPT !.devices = d] \in Vdev
      BY <1>1, <3>1 DEF Vdev
    <3> QED
      BY <3>2 DEF d
  <2>2. Take(state, word) = [state EXCEPT !.vdev = [state.vdev EXCEPT !.devices = Append(@, word)]]
    BY <1>3 DEF Take, TakeState, Vdev
  <2> QED
    BY <1>1, <2>1, <2>2 DEF TakeState
<1> QED
  BY <1>2, <1>3

Nothing == [vdevs |-> <<>>, vdev |-> NoVdev]

(* Vdevs is what Take leaves behind the last word.                           *)
LEMMA TakeRuns ==
  ASSUME NEW k, VdevArguments(k) \in Seq(Texts)
  PROVE  LET words == VdevArguments(k) IN
         \E f : /\ f[0] = Nothing
                /\ \A i \in 1..Len(words) : f[i] = Take(f[i - 1], words[i])
                /\ \A i \in 0..Len(words) : f[i] \in TakeState
                /\ Vdevs(k) = Append(f[Len(words)].vdevs, f[Len(words)].vdev)
<1> DEFINE words == VdevArguments(k)
           n == Len(words)
           step == [i \in 1..n |-> [x \in TakeState |-> Take(x, words[i])]]
           Runs(f) == f = [i \in 0..n |-> IF i = 0 THEN Nothing ELSE Take(f[i - 1], words[i])]
           At(f) == /\ f[0] = Nothing
                    /\ \A i \in 1..n : f[i] = Take(f[i - 1], words[i])
                    /\ \A i \in 0..n : f[i] \in TakeState
<1>1. n \in Nat /\ \A i \in 1..n : words[i] \in Texts
  BY LenProperties, ElementOfSeq
<1>2. Vdevs(k) = Append((CHOOSE f : Runs(f))[n].vdevs, (CHOOSE f : Runs(f))[n].vdev)
  BY DEF Vdevs, Nothing
<1> HIDE DEF words, n
<1>3. \A i \in 1..n : \A x \in TakeState : step[i][x] = Take(x, words[i]) /\ step[i][x] \in TakeState
  BY <1>1, TakeType
<1>4. Nothing \in TakeState
  BY DEF Nothing, NoVdev, TakeState, Vdev
<1> HIDE DEF step
<1>5. PICK f : Steps(f, n, Nothing, step)
  BY <1>1, StepsExist
<1>6. f[0] = Nothing /\ \A i \in 1..n : f[i] = step[i][f[i - 1]]
  BY <1>1, <1>5, StepsAt
<1>7. \A i \in 0..n : f[i] \in TakeState
  <2> DEFINE T == {i \in 0..n : f[i] \in TakeState}
  <2>1. 0 \in T
    BY <1>1, <1>4, <1>6
  <2>2. ASSUME NEW i \in 0..(n - 1), i \in T PROVE i + 1 \in T
    <3>1. i + 1 \in 1..n /\ i + 1 \in 0..n /\ (i + 1) - 1 = i
      BY <1>1
    <3> QED
      BY <1>3, <1>6, <2>2, <3>1
  <2> HIDE DEF T
  <2>3. 0..n \subseteq T
    BY <1>1, <2>1, <2>2, Upwards
  <2> QED
    BY <2>3 DEF T
<1>8. \A i \in 1..n : f[i] = Take(f[i - 1], words[i])
  <2> TAKE i \in 1..n
  <2>1. i - 1 \in 0..n
    BY <1>1
  <2> QED
    BY <1>3, <1>6, <1>7, <2>1
<1>9. Runs(f)
  <2>1. f = [i \in 0..n |-> f[i]]
    BY <1>5 DEF Steps
  <2>2. \A i \in 0..n : i = 0 \/ i \in 1..n
    BY <1>1
  <2>3. \A i \in 0..n : f[i] = IF i = 0 THEN Nothing ELSE Take(f[i - 1], words[i])
    BY <1>6, <1>8, <2>2
  <2> QED
    BY <2>1, <2>3
<1> DEFINE g == CHOOSE g : Runs(g)
<1>10. Runs(g)
  BY <1>9
<1>11. g[0] = Nothing /\ \A i \in 1..n : g[i] = Take(g[i - 1], words[i])
  <2> DEFINE h == [i \in 0..n |-> IF i = 0 THEN Nothing ELSE Take(g[i - 1], words[i])]
  <2>1. \A i \in 0..n : h[i] = IF i = 0 THEN Nothing ELSE Take(g[i - 1], words[i])
    OBVIOUS
  <2>2. g = h
    BY <1>10
  <2>3. 0 \in 0..n /\ \A i \in 1..n : i \in 0..n /\ i # 0
    BY <1>1
  <2> HIDE DEF g, h
  <2> QED
    BY <2>1, <2>2, <2>3
<1>12. \A i \in 0..n : g[i] \in TakeState
  <2> HIDE DEF g
  <2> DEFINE T == {i \in 0..n : g[i] \in TakeState}
  <2>1. 0 \in T
    BY <1>1, <1>4, <1>11
  <2>2. ASSUME NEW i \in 0..(n - 1), i \in T PROVE i + 1 \in T
    <3>1. i + 1 \in 1..n /\ i + 1 \in 0..n /\ (i + 1) - 1 = i
      BY <1>1
    <3>2. g[i + 1] = Take(g[i], words[i + 1]) /\ g[i] \in TakeState /\ words[i + 1] \in Texts
      BY <1>1, <1>11, <2>2, <3>1
    <3> QED
      BY <3>1, <3>2, TakeType
  <2> HIDE DEF T
  <2>3. 0..n \subseteq T
    BY <1>1, <2>1, <2>2, Upwards
  <2> QED
    BY <2>3 DEF T
<1>13. At(g) /\ Vdevs(k) = Append(g[n].vdevs, g[n].vdev)
  BY <1>2, <1>11, <1>12
<1> HIDE DEF g
<1> QED
  BY <1>13 DEF words, n

(* A sequence of one element.                                                *)
LEMMA OneElement ==
  ASSUME NEW S, NEW e \in S
  PROVE  /\ <<e>> \in Seq(S) /\ Len(<<e>>) = 1 /\ <<e>>[1] = e
         /\ \A s \in Seq(S) : s \o <<e>> = Append(s, e)
  OBVIOUS

(* A group is printed by its name until a disk joins it.                     *)
LEMMA PrintedGroup ==
  ASSUME NEW v, NEW g \in {"mirror", "raidz1", "raidz2", "raidz3"},
         v.type = g, v.devices = <<>>
  PROVE  Printed(v) = <<g>>
<1>1. g # "" /\ g \in Said
  BY DEF Said
<1>2. Printed(v) = <<g>> \o <<>>
  BY <1>1 DEF Printed
<1>3. <<g>> \in Seq(Said)
  BY <1>1, OneElement, Zenon
<1> DEFINE head == <<g>>
<1> HIDE DEF head
<1>4. head \o <<>> = head
  BY <1>3, ConcatEmptySeq DEF head
<1> QED
  BY <1>2, <1>4 DEF head

(* Without options every group and every disk is printed where it was read,  *)
(* from the first group on.                                                  *)
LEMMA GroupsPrinted ==
  ASSUME NEW k, VdevArguments(k) \in Seq(Texts), VdevArguments(k) # <<>>,
         VdevArguments(k)[1] \in DOMAIN Group
  PROVE  ZpoolArguments(Vdevs(k)) = Spelled(VdevArguments(k))
<1> DEFINE words == VdevArguments(k)
           n == Len(words)
           said == Spelled(words)
<1>1. /\ n \in Nat \ {0} /\ DOMAIN words = 1..n /\ \A i \in 1..n : words[i] \in Texts
  BY EmptySeq, LenProperties, ElementOfSeq
<1>2. /\ \A i \in 1..n : said[i] = IF words[i] \in DOMAIN Group THEN Group[words[i]] ELSE words[i]
      /\ said \in Seq(Said) /\ Len(said) = n
  <2>1. said = [i \in 1..n |-> IF words[i] \in DOMAIN Group THEN Group[words[i]] ELSE words[i]]
    BY <1>1 DEF Spelled
  <2>2. \A i \in 1..n : (IF words[i] \in DOMAIN Group THEN Group[words[i]] ELSE words[i]) \in Said
    BY <1>1, GroupType DEF Said
  <2> HIDE DEF words, n, said
  <2> QED
    BY <1>1, <2>1, <2>2
<1>3. PICK f : /\ f[0] = Nothing
               /\ \A i \in 1..n : f[i] = Take(f[i - 1], words[i])
               /\ \A i \in 0..n : f[i] \in TakeState
               /\ Vdevs(k) = Append(f[n].vdevs, f[n].vdev)
  BY TakeRuns
<1> DEFINE Out(i) == ZpoolArguments(f[i].vdevs) \o Printed(f[i].vdev)
           T == {i \in 0..n : i # 0 => f[i].vdev.type # "" /\ Out(i) = SubSeq(said, 1, i)}
<1> HIDE DEF words, n, said
<1>4. 0 \in T
  BY <1>1
<1>5. ASSUME NEW i \in 0..(n - 1), i \in T PROVE i + 1 \in T
  <2> DEFINE word == words[i + 1]
             state == f[i]
  <2>1. i + 1 \in 1..n /\ i + 1 \in 0..n /\ (i + 1) - 1 = i /\ i + 1 # 0 /\ i \in 0..n
    BY <1>1
  <2>2. f[i + 1] = Take(state, word) /\ state \in TakeState /\ word \in Texts
    BY <1>1, <1>3, <2>1
  <2>3. said[i + 1] = IF word \in DOMAIN Group THEN Group[word] ELSE word
    BY <1>2, <2>1
  <2>4. /\ state.vdevs \in Seq(Vdev) /\ state.vdev \in Vdev
        /\ state.vdev.type \in {"", "mirror", "raidz1", "raidz2", "raidz3"}
        /\ state.vdev.devices \in Seq(Texts)
        /\ f[i + 1] \in TakeState
    BY <1>3, <2>1, <2>2 DEF TakeState, Vdev
  <2>5. /\ ZpoolArguments(state.vdevs) \in Seq(Said)
        /\ ZpoolArguments(Append(state.vdevs, state.vdev))
             = ZpoolArguments(state.vdevs) \o Printed(state.vdev)
        /\ Printed(state.vdev) \in Seq(Said)
    BY <2>4, ZpoolAppend, PrintedType
  <2>6. i # 0 => state.vdev.type # "" /\ Out(i) = SubSeq(said, 1, i)
    BY <1>5
  <2>7. SubSeq(said, 1, i + 1) = Append(SubSeq(said, 1, i), said[i + 1]) /\ SubSeq(said, 1, i) \in Seq(Said)
    <3> DEFINE e == said[i + 1]
               a == SubSeq(said, 1, i)
               b == SubSeq(said, 1, i + 1)
    <3>1. a \in Seq(Said) /\ Len(a) = i /\ \A j \in 1..i : a[j] = said[j]
      BY <1>1, <1>2, <2>1
    <3>2. b \in Seq(Said) /\ Len(b) = i + 1 /\ \A j \in 1..(i + 1) : b[j] = said[j]
      BY <1>1, <1>2, <2>1
    <3>3. e \in Said
      BY <1>2, <2>1
    <3> DEFINE c == Append(a, e)
    <3> HIDE DEF a, b
    <3>4. c \in Seq(Said) /\ Len(c) = i + 1 /\ \A j \in 1..(i + 1) : c[j] = said[j]
      BY <2>1, <3>1, <3>3
    <3> HIDE DEF c
    <3>5. b = c
      BY <3>2, <3>4, SeqEqual
    <3> QED
      BY <3>1, <3>5 DEF a, b, c
  <2> HIDE DEF word, state, Out, T
  <2>8. CASE i = 0
    <3>1. state = Nothing /\ word \in DOMAIN Group
      BY <1>1, <1>3, <2>8 DEF word, state, words
    <3> DEFINE g == Group[word]
               v == [NoVdev EXCEPT !.type = g]
    <3>2. g \in {"mirror", "raidz1", "raidz2", "raidz3"} /\ said[1] = g
      BY <2>3, <2>8, <3>1, GroupType
    <3>3. f[i + 1] = [vdevs |-> <<>>, vdev |-> v]
      BY <2>2, <3>1 DEF Take, Nothing, NoVdev
    <3> HIDE DEF g
    <3>4. v.type = g /\ v.devices = <<>>
      BY DEF NoVdev
    <3> HIDE DEF v
    <3>8. Printed(v) = <<g>>
      BY <3>2, <3>4, PrintedGroup
    <3>9. g # "" /\ g \in Said
      BY <3>2 DEF Said
    <3>10. i + 1 = 1
      BY <2>8
    <3>5. Out(1) = <<g>>
      <4>1. Out(1) = ZpoolArguments(<<>>) \o Printed(v)
        BY <3>3, <3>10 DEF Out
      <4> QED
        BY <3>8, <4>1, ZpoolEmpty
    <3>6. SubSeq(said, 1, 1) = <<g>>
      <4> DEFINE a == SubSeq(said, 1, 1)
                 b == <<g>>
      <4>1. a \in Seq(Said) /\ Len(a) = 1 /\ a[1] = said[1]
        BY <1>1, <1>2, <2>1, <3>10
      <4>2. b \in Seq(Said) /\ Len(b) = 1 /\ b[1] = g
        BY <3>9, OneElement, Zenon
      <4>3. \A j \in 1..1 : j = 1
        OBVIOUS
      <4> HIDE DEF a, b
      <4>4. a = b
        BY <3>2, <4>1, <4>2, <4>3, SeqEqual
      <4> QED
        BY <4>4 DEF a, b
    <3>7. f[1].vdev.type # "" /\ 1 \in 0..n
      <4>1. f[1].vdev = v
        BY <3>3, <3>10
      <4> QED
        BY <2>1, <3>4, <3>9, <3>10, <4>1
    <3>11. 1 \in T
      BY <3>5, <3>6, <3>7 DEF T
    <3> QED
      BY <3>10, <3>11
  <2>9. CASE i # 0 /\ word \in DOMAIN Group
    <3> DEFINE g == Group[word]
               v == [NoVdev EXCEPT !.type = g]
               vs == Append(state.vdevs, state.vdev)
    <3>1. g \in {"mirror", "raidz1", "raidz2", "raidz3"} /\ said[i + 1] = g
      BY <2>3, <2>9, GroupType
    <3>2. f[i + 1] = [vdevs |-> vs, vdev |-> v]
      BY <2>2, <2>6, <2>9 DEF Take
    <3> HIDE DEF g
    <3>3. v.type = g /\ v.devices = <<>>
      BY DEF NoVdev
    <3> HIDE DEF v, vs
    <3>7. Printed(v) = <<g>>
      BY <3>1, <3>3, PrintedGroup
    <3>8. g # "" /\ g \in Said
      BY <3>1 DEF Said
    <3>4. Out(i + 1) = Out(i) \o <<g>>
      <4>1. Out(i + 1) = ZpoolArguments(vs) \o Printed(v)
        BY <3>2 DEF Out
      <4>2. ZpoolArguments(vs) = Out(i)
        BY <2>5 DEF vs, Out, state
      <4> QED
        BY <3>7, <4>1, <4>2
    <3>5. Out(i + 1) = SubSeq(said, 1, i + 1)
      <4> DEFINE a == SubSeq(said, 1, i)
      <4>1. Out(i) = a /\ a \in Seq(Said) /\ SubSeq(said, 1, i + 1) = Append(a, g)
        BY <2>6, <2>7, <2>9, <3>1
      <4> HIDE DEF a
      <4>2. a \o <<g>> = Append(a, g)
        BY <3>8, <4>1, OneElement, Zenon
      <4> QED
        BY <3>4, <4>1, <4>2
    <3>6. f[i + 1].vdev.type # ""
      <4>1. f[i + 1].vdev = v
        BY <3>2
      <4> QED
        BY <3>3, <3>8, <4>1
    <3> QED
      BY <2>1, <3>5, <3>6 DEF T
  <2>10. CASE i # 0 /\ word \notin DOMAIN Group
    <3> DEFINE d == Append(state.vdev.devices, word)
               v == [state.vdev EXCEPT !.devices = d]
               t == state.vdev.type
    <3>1. f[i + 1] = [state EXCEPT !.vdev = v]
      BY <2>2, <2>4, <2>10 DEF Take, TakeState, Vdev
    <3>2. v.type = t /\ v.devices = d /\ t # ""
      BY <2>4, <2>6, <2>10 DEF Vdev
    <3>3. f[i + 1].vdevs = state.vdevs /\ f[i + 1].vdev = v
      BY <2>2, <3>1 DEF TakeState
    <3> HIDE DEF v
    <3>4. Printed(v) = Append(Printed(state.vdev), word)
      <4>1. Printed(state.vdev) = <<t>> \o state.vdev.devices /\ Printed(v) = <<t>> \o d
        BY <3>2 DEF Printed
      <4> DEFINE devices == state.vdev.devices
                 head == <<t>>
      <4>2. devices \in Seq(Said) /\ head \in Seq(Said) /\ word \in Said
        <5>1. devices \in Seq(Texts) /\ Texts \subseteq Said /\ t \in Said
          BY <2>4, <3>2 DEF Said
        <5> QED
          BY <2>2, <5>1, SeqMonotonic
      <4> HIDE DEF devices, head
      <4>3. Append(head \o devices, word) = head \o Append(devices, word)
        BY <4>2
      <4> QED
        BY <4>1, <4>3 DEF devices, head
    <3>5. Out(i + 1) = Append(Out(i), word)
      <4> DEFINE a == ZpoolArguments(state.vdevs)
                 b == Printed(state.vdev)
      <4>1. Out(i + 1) = a \o Append(b, word)
        BY <3>3, <3>4 DEF Out
      <4>2. a \in Seq(Said) /\ b \in Seq(Said) /\ word \in Said
        BY <2>2, <2>5 DEF Said
      <4>3. Out(i) = a \o b
        BY DEF Out, state
      <4> HIDE DEF a, b
      <4>4. Append(a \o b, word) = a \o Append(b, word)
        BY <4>2
      <4> QED
        BY <4>1, <4>3, <4>4
    <3>6. Out(i + 1) = SubSeq(said, 1, i + 1)
      BY <2>3, <2>6, <2>7, <2>10, <3>5
    <3>7. f[i + 1].vdev.type # ""
      BY <3>2, <3>3
    <3> QED
      BY <2>1, <3>6, <3>7 DEF T
  <2> QED
    BY <2>8, <2>9, <2>10
<1> HIDE DEF T, Out
<1>6. 0..n \subseteq T
  BY <1>1, <1>4, <1>5, Upwards
<1>7. Out(n) = SubSeq(said, 1, n) /\ n \in 0..n
  <2>1. n \in 0..n /\ n # 0
    BY <1>1
  <2>2. n \in T
    BY <1>6, <2>1, Zenon
  <2> QED
    BY <2>1, <2>2 DEF T
<1>8. SubSeq(said, 1, n) = said
  BY <1>2
<1>9. ZpoolArguments(Vdevs(k)) = Out(n)
  <2>1. f[n].vdevs \in Seq(Vdev) /\ f[n].vdev \in Vdev
    BY <1>3, <1>7 DEF TakeState
  <2> QED
    BY <1>3, <2>1, ZpoolAppend DEF Out
<1> QED
  BY <1>7, <1>8, <1>9 DEF said, words

(* A keyword's options, each behind a -o.                                    *)
LEMMA SetToSeqType ==
  ASSUME NEW S, IsFiniteSet(S)
  PROVE  /\ SetToSeq(S) \in Seq(S)
         /\ DOMAIN SetToSeq(S) = 1..Cardinality(S)
         /\ Cardinality(S) \in Nat
<1> DEFINE n == Cardinality(S)
           f == SetToSeq(S)
<1>1. n \in Nat /\ ExistsBijection(1..n, S)
  BY FS_CardinalityType
<1>2. PICK g : g \in Bijection(1..n, S)
  BY <1>1 DEF ExistsBijection
<1>3. g \in [1..n -> S] /\ \A a, b \in 1..n : g[a] = g[b] => a = b
  BY <1>2 DEF Bijection, Injection, IsInjective
<1>4. IsInjective(g)
  BY <1>3 DEF IsInjective
<1>5. f = CHOOSE h \in [1..n -> S] : IsInjective(h)
  BY DEF SetToSeq
<1>6. f \in [1..n -> S]
  BY <1>3, <1>4, <1>5
<1> HIDE DEF f, n
<1>7. f \in Seq(S) /\ DOMAIN f = 1..n
  BY <1>1, <1>6
<1> QED
  BY <1>1, <1>7 DEF f, n

(* No option, no words.                                                      *)
LEMMA OptionWordsEmpty == OptionWords({}) = <<>>
<1> DEFINE order == SetToSeq({})
           pairs == [i \in DOMAIN order |-> <<"-o", order[i]>>]
<1>1. DOMAIN order = {}
  BY FS_EmptySet, SetToSeqType
<1>2. OptionWords({}) = FlattenSeq(pairs)
  BY DEF OptionWords
<1> HIDE DEF order
<1>3. pairs = <<>>
  BY <1>1
<1> HIDE DEF pairs
<1> QED
  BY <1>2, <1>3 DEF FlattenSeq

(* The keywords create_pool is reached with.                                 *)
LEMMA PoolType ==
  ASSUME text \in Seq(Token), NEW k \in Pools
  PROVE  /\ k \in Keyword /\ VdevArguments(k) \in Seq(Texts) /\ ~Bails(Vdevs(k))
         /\ ZpoolArguments(Vdevs(k)) \in Seq(Said)
<1>1. IsConfig(text) /\ k \in ToSet(ParseConfig(text)) /\ ~Bails(Vdevs(k))
  BY DEF Pools
<1>2. k \in Keyword
  <2> DEFINE keywords == ParseConfig(text)
  <2>1. keywords \in Seq(Keyword)
    BY <1>1, ParseConfigType
  <2>2. PICK i \in DOMAIN keywords : k = keywords[i]
    BY <1>1 DEF ToSet
  <2> HIDE DEF keywords
  <2> QED
    BY <2>1, <2>2
<1>3. VdevArguments(k) \in Seq(Texts)
  <2> DEFINE a == k.arguments
  <2>1. a \in Seq(Texts)
    BY <1>2 DEF Keyword
  <2>2. VdevArguments(k) = IF a = <<>> THEN <<>> ELSE Tail(a)
    BY DEF VdevArguments
  <2> HIDE DEF a
  <2> QED
    BY <2>1, <2>2
<1>4. ZpoolArguments(Vdevs(k)) \in Seq(Said)
  <2> DEFINE n == Len(VdevArguments(k))
  <2>1. n \in 0..n
    BY <1>3
  <2>2. PICK f : /\ \A i \in 0..n : f[i] \in TakeState
                 /\ Vdevs(k) = Append(f[n].vdevs, f[n].vdev)
    BY <1>3, TakeRuns
  <2> HIDE DEF n
  <2>3. f[n].vdevs \in Seq(Vdev) /\ f[n].vdev \in Vdev
    BY <2>1, <2>2 DEF TakeState
  <2> DEFINE vs == Vdevs(k)
  <2>4. vs \in Seq(Vdev)
    BY <2>2, <2>3
  <2> HIDE DEF vs
  <2>5. ZpoolArguments(vs) \in Seq(Said)
    BY <2>3, <2>4, ZpoolAppend
  <2> QED
    BY <2>5 DEF vs
<1> QED
  BY <1>1, <1>2, <1>3, <1>4

(* A single disk is printed as it stands.                                    *)
LEMMA OneDiskPrinted ==
  ASSUME NEW k, VdevArguments(k) \in Seq(Texts), Len(VdevArguments(k)) = 1,
         VdevArguments(k)[1] \notin DOMAIN Group
  PROVE  ZpoolArguments(Vdevs(k)) = Spelled(VdevArguments(k))
<1> DEFINE words == VdevArguments(k)
           w == words[1]
           v == [NoVdev EXCEPT !.devices = <<w>>]
<1>1. w \in Texts /\ DOMAIN words = 1..1
  BY ElementOfSeq, LenProperties
<1>2. Spelled(words) = <<w>>
  <2> DEFINE s == Spelled(words)
             t == <<w>>
  <2>1. s = [i \in 1..1 |-> w]
    <3>1. s = [i \in 1..1 |-> IF words[i] \in DOMAIN Group THEN Group[words[i]] ELSE words[i]]
      BY <1>1 DEF Spelled
    <3>2. \A i \in 1..1 : i = 1
      OBVIOUS
    <3> QED
      BY <3>1, <3>2
  <2> HIDE DEF w
  <2>2. s \in Seq(Texts) /\ Len(s) = 1 /\ s[1] = w
    BY <1>1, <2>1
  <2>3. t \in Seq(Texts) /\ Len(t) = 1 /\ t[1] = w
    BY <1>1, OneElement
  <2>4. \A i \in 1..1 : i = 1
    OBVIOUS
  <2> HIDE DEF s, t
  <2> QED
    BY <2>2, <2>3, <2>4, SeqEqual DEF s, t
<1>3. Vdevs(k) = Append(<<>>, v)
  <2>1. PICK f : /\ f[0] = Nothing
                 /\ \A i \in 1..Len(words) : f[i] = Take(f[i - 1], words[i])
                 /\ Vdevs(k) = Append(f[Len(words)].vdevs, f[Len(words)].vdev)
    BY TakeRuns
  <2>2. 1 \in 1..Len(words) /\ 1 - 1 = 0
    OBVIOUS
  <2>3. f[1] = Take(Nothing, w)
    BY <2>1, <2>2
  <2> HIDE DEF words, w
  <2>4. Take(Nothing, w) = [Nothing EXCEPT !.vdev.devices = Append(@, w)]
    BY DEF Take, w, words
  <2>5. Append(<<>>, w) = <<w>>
    BY <1>1
  <2>6. f[1] = [vdevs |-> <<>>, vdev |-> v]
    BY <2>3, <2>4, <2>5 DEF Nothing, NoVdev
  <2> HIDE DEF v
  <2> QED
    BY <2>1, <2>6 DEF words
<1>4. v \in Vdev /\ v.type = "" /\ v.devices = <<w>>
  <2> HIDE DEF w
  <2>1. <<w>> \in Seq(Texts)
    BY <1>1, OneElement
  <2> QED
    BY <2>1 DEF Vdev, NoVdev
<1> HIDE DEF v
<1>5. Printed(v) = <<w>>
  <2> HIDE DEF w
  <2>1. Printed(v) = <<>> \o <<w>>
    BY <1>4 DEF Printed
  <2>2. <<w>> \in Seq(Texts)
    BY <1>1, OneElement
  <2> QED
    BY <2>1, <2>2, ConcatEmptySeq
<1>6. ZpoolArguments(Append(<<>>, v)) = <<>> \o Printed(v)
  <2> DEFINE none == <<>>
  <2>1. none \in Seq(Vdev)
    OBVIOUS
  <2>2. ZpoolArguments(none) = none
    BY ZpoolEmpty
  <2> HIDE DEF none
  <2>3. ZpoolArguments(Append(none, v)) = ZpoolArguments(none) \o Printed(v)
    BY <1>4, <2>1, ZpoolAppend
  <2> QED
    BY <2>2, <2>3 DEF none
<1>7. <<>> \o Printed(v) = Printed(v)
  BY <1>4, PrintedType, ConcatEmptySeq
<1> HIDE DEF w, words
<1>8. ZpoolArguments(Vdevs(k)) = Spelled(words)
  BY <1>2, <1>3, <1>5, <1>6, <1>7
<1> QED
  BY <1>8 DEF words

(* Without a word behind the pool's name create_pool bails out.              *)
LEMMA NoDiskBails ==
  ASSUME NEW k, VdevArguments(k) = <<>>
  PROVE  Bails(Vdevs(k))
<1>1. <<>> \in Seq(Texts) /\ Len(<<>>) = 0
  OBVIOUS
<1>2. PICK f : f[0] = Nothing /\ Vdevs(k) = Append(f[0].vdevs, f[0].vdev)
  BY <1>1, TakeRuns
<1>3. Vdevs(k) = <<NoVdev>>
  BY <1>2 DEF Nothing
<1>4. 1 \in DOMAIN Vdevs(k) /\ Vdevs(k)[1] = NoVdev
  BY <1>3
<1>5. NoVdev.type = "" /\ Len(NoVdev.devices) # 1
  BY DEF NoVdev
<1> QED
  BY <1>4, <1>5 DEF Bails

(* LayoutKept: zpool create is told the groups and the disks that stand      *)
(* behind the pool's name, in their order, however many there are.           *)
THEOREM LayoutKeptHolds == TextSpec => []LayoutKept
<1>1. ASSUME text \in Seq(Token) PROVE LayoutKept
  <2> SUFFICES ASSUME NEW k \in Pools, k.options = <<>>,
                      VdevArguments(k)[1] \in DOMAIN Group \/ Len(VdevArguments(k)) = 1
               PROVE  BehindName(k) = Spelled(VdevArguments(k))
    BY DEF LayoutKept
  <2>1. /\ VdevArguments(k) \in Seq(Texts) /\ ~Bails(Vdevs(k))
        /\ ZpoolArguments(Vdevs(k)) \in Seq(Said)
    BY <1>1, PoolType
  <2>2. VdevArguments(k) # <<>>
    BY <2>1, NoDiskBails
  <2>3. ZpoolArguments(Vdevs(k)) = Spelled(VdevArguments(k))
    <3>1. CASE VdevArguments(k)[1] \in DOMAIN Group
      BY <2>1, <2>2, <3>1, GroupsPrinted
    <3>2. CASE VdevArguments(k)[1] \notin DOMAIN Group
      BY <2>1, <3>2, OneDiskPrinted
    <3> QED
      BY <3>1, <3>2
  <2>4. OptionWords(PoolOptions(k)) = <<>>
    BY OptionWordsEmpty DEF PoolOptions, Given
  <2>5. BehindName(k) = <<>> \o ZpoolArguments(Vdevs(k))
    BY <2>4 DEF BehindName
  <2> QED
    BY <2>1, <2>3, <2>5, ConcatEmptySeq
<1> QED
  BY <1>1, TextTyped, PTL

-----------------------------------------------------------------------------
(* sysconfigen.                                                              *)

(* The output file next to what its build knows: what is in it is the        *)
(* beginning of what the text parsed to, and all of it where its end is      *)
(* written.                                                                  *)
GenTyped ==
    /\ out = <<>> \/ (out = <<out[1]>> /\ out[1] \in Document)
    /\ phase \in {"idle", "parse", "write"}
    /\ source \in Sources /\ format \in Format
    /\ set \in Seq(Instruction)
    /\ exit \in {"none", "ok", "err", "panic"}
    /\ faults \in 0..MaxFaults

Begun(d) ==
    /\ ~d.whole
    /\ Len(set) = Len(ParseConfig(source))
    /\ Len(d.set) <= Len(set)
    /\ d.set = SubSeq(set, 1, Len(d.set))
    /\ d.torn => Len(d.set) < Len(set)

Done(d) == d.set = set /\ Len(set) = Len(ParseConfig(source))

Progress ==
    /\ phase # "idle" => out # <<>>
    /\ out # <<>> =>
          /\ out[1].format = format
          /\ phase = "parse" => out[1] = Empty(format) /\ set = <<>>
          /\ phase = "write" => Begun(out[1])
          /\ out[1].whole => phase = "idle" /\ Done(out[1])

(* The output file is rewritten in its only place.                           *)
LEMMA OnlyDocument ==
  ASSUME NEW d \in Document, NEW e \in Document
  PROVE  [<<d>> EXCEPT ![1] = e] = <<e>>
<1>1. [i \in 1..1 |-> d] = <<d>> /\ [i \in 1..1 |-> e] = <<e>>
  OBVIOUS
<1> QED
  BY <1>1

(* One more instruction.                                                     *)
LEMMA OneMore ==
  ASSUME NEW S, NEW s \in Seq(S), NEW n \in Nat, n < Len(s)
  PROVE  /\ Append(SubSeq(s, 1, n), s[n + 1]) = SubSeq(s, 1, n + 1)
         /\ SubSeq(s, 1, n) \in Seq(S) /\ Len(SubSeq(s, 1, n)) = n
         /\ SubSeq(s, 1, n + 1) \in Seq(S) /\ Len(SubSeq(s, 1, n + 1)) = n + 1
         /\ s[n + 1] \in S
<1> DEFINE a == SubSeq(s, 1, n)
           b == SubSeq(s, 1, n + 1)
           e == s[n + 1]
           c == Append(a, e)
<1>1. a \in Seq(S) /\ Len(a) = n /\ \A j \in 1..n : a[j] = s[j]
  OBVIOUS
<1>2. b \in Seq(S) /\ Len(b) = n + 1 /\ \A j \in 1..(n + 1) : b[j] = s[j]
  OBVIOUS
<1>3. e \in S
  OBVIOUS
<1> HIDE DEF a, b
<1>4. c \in Seq(S) /\ Len(c) = n + 1 /\ \A j \in 1..(n + 1) : c[j] = s[j]
  BY <1>1, <1>3
<1> HIDE DEF c
<1>5. b = c
  BY <1>2, <1>4, SeqEqual
<1> QED
  BY <1>1, <1>2, <1>3, <1>5 DEF a, b, c

(* Both are invariants of the build.                                         *)
LEMMA SysconfigenTyped == Spec => [](GenTyped /\ Progress)
<1>1. Init => GenTyped /\ Progress
  BY SysconfigenAssumption DEF Init, GenTyped, Progress, Format
<1>2. GenTyped /\ Progress /\ [Next]_vars => GenTyped' /\ Progress'
  <2> SUFFICES ASSUME GenTyped, Progress, [Next]_vars PROVE GenTyped' /\ Progress'
    OBVIOUS
  <2>1. ASSUME NEW s \in Sources, NEW f \in Format, Build(s, f) PROVE GenTyped' /\ Progress'
    <3> DEFINE d == Empty(f)
    <3>1. d \in Document /\ d.format = f /\ ~d.whole
      BY DEF Empty, Document
    <3>2. /\ out' = <<d>> /\ phase' = "parse" /\ source' = s /\ format' = f
          /\ set' = <<>> /\ exit' = "none" /\ faults' = faults
      BY <2>1 DEF Build
    <3>3. Empty(format') = d
      BY <3>2 DEF Empty
    <3> HIDE DEF d
    <3>4. out' # <<>> /\ out'[1] = d
      BY <3>2
    <3>5. GenTyped'
      BY <3>1, <3>2 DEF GenTyped
    <3>6. Progress'
      BY <3>1, <3>2, <3>3, <3>4 DEF Progress
    <3> QED
      BY <3>5, <3>6
  <2>2. CASE Parse
    <3> DEFINE parsed == ParseText(source)
    <3>1. /\ parsed.result \in {"ok", "err", "panic"} /\ parsed.set \in Seq(Instruction)
          /\ parsed.result = "ok" => Len(parsed.set) = Len(ParseConfig(source))
      <4>1. source \in Seq(Token)
        BY SysconfigenAssumption DEF GenTyped
      <4> QED
        BY <4>1, ParseTextType
    <3>2. /\ phase = "parse"
          /\ IF parsed.result = "ok"
             THEN phase' = "write" /\ set' = parsed.set /\ UNCHANGED exit
             ELSE phase' = "idle" /\ exit' = parsed.result /\ UNCHANGED set
          /\ UNCHANGED <<out, source, format, faults>>
      BY <2>2 DEF Parse
    <3> HIDE DEF parsed
    <3>3. GenTyped'
      BY <3>1, <3>2 DEF GenTyped
    <3> DEFINE d == Empty(format)
    <3>4. out # <<>> /\ out[1] = d /\ d.format = format /\ ~d.whole /\ ~d.torn /\ d.set = <<>>
      BY <3>2 DEF Progress, Empty
    <3>5. ASSUME parsed.result = "ok" PROVE Begun(d)'
      <4> DEFINE n == Len(set')
      <4>1. n \in Nat /\ n = Len(ParseConfig(source')) /\ set' \in Seq(Instruction)
        BY <3>1, <3>2, <3>5
      <4>2. SubSeq(set', 1, 0) = <<>> /\ Len(<<>>) = 0
        BY <4>1
      <4>3. d' = d
        BY <3>2 DEF Empty
      <4> HIDE DEF d
      <4>4. Len(d.set) = 0 /\ SubSeq(set', 1, Len(d.set)) = d.set
        BY <3>4, <4>2
      <4>5. Len(d.set) <= n
        BY <4>1, <4>4
      <4> QED
        BY <3>4, <4>1, <4>3, <4>4, <4>5 DEF Begun
    <3>6. d' = d
      BY <3>2 DEF Empty
    <3> HIDE DEF d
    <3>7. Progress'
      BY <3>2, <3>4, <3>5, <3>6 DEF Progress
    <3> QED
      BY <3>3, <3>7
  <2>3. CASE BeginInstruction
    <3>1. /\ phase = "write" /\ Unwritten /\ ~out[1].torn
          /\ out' = [out EXCEPT ![1].torn = TRUE]
          /\ UNCHANGED <<phase, source, format, set, exit, faults>>
      BY <2>3 DEF BeginInstruction
    <3>2. PICK d \in Document : out = <<d>>
      BY <3>1 DEF GenTyped, Progress
    <3> DEFINE e == [d EXCEPT !.torn = TRUE]
    <3>3. e \in Document /\ e.torn /\ e.set = d.set /\ e.format = d.format /\ e.whole = d.whole
      BY DEF Document
    <3>4. out' = <<e>>
      BY <3>1, <3>2, <3>3, OnlyDocument
    <3> HIDE DEF e
    <3>5. GenTyped'
      <4>1. out'[1] = e /\ out' = <<out'[1]>>
        BY <3>4
      <4> QED
        BY <3>1, <3>3, <4>1 DEF GenTyped
    <3>6. d.format = format /\ Begun(d) /\ Len(d.set) < Len(set)
      BY <3>1, <3>2 DEF Progress, Unwritten
    <3>7. Begun(e)'
      BY <3>1, <3>3, <3>6 DEF Begun
    <3>8. out' # <<>> /\ out'[1] = e
      BY <3>4
    <3>9. Progress'
      BY <3>1, <3>3, <3>6, <3>7, <3>8 DEF Progress, Begun
    <3> QED
      BY <3>5, <3>9
  <2>4. CASE EndInstruction
    <3>1. /\ phase = "write" /\ out[1].torn
          /\ out' = [out EXCEPT ![1].torn = FALSE,
                                ![1].set = Append(@, set[Len(@) + 1])]
          /\ UNCHANGED <<phase, source, format, set, exit, faults>>
      BY <2>4 DEF EndInstruction
    <3>2. PICK d \in Document : out = <<d>>
      BY <3>1 DEF GenTyped, Progress
    <3> DEFINE n == Len(d.set)
               more == Append(d.set, set[n + 1])
               after == [d EXCEPT !.torn = FALSE, !.set = more]
    <3>3. d.format = format /\ Begun(d) /\ d.torn
      BY <3>1, <3>2 DEF Progress
    <3>4. d.set \in Seq(Instruction) /\ set \in Seq(Instruction)
      BY DEF Document, GenTyped
    <3>5. n \in Nat /\ n < Len(set) /\ d.set = SubSeq(set, 1, n)
      BY <3>3, <3>4 DEF Begun
    <3>6. more = SubSeq(set, 1, n + 1) /\ more \in Seq(Instruction) /\ Len(more) = n + 1
      <4> HIDE DEF n
      <4>1. /\ Append(SubSeq(set, 1, n), set[n + 1]) = SubSeq(set, 1, n + 1)
            /\ SubSeq(set, 1, n + 1) \in Seq(Instruction) /\ Len(SubSeq(set, 1, n + 1)) = n + 1
        BY <3>4, <3>5, OneMore
      <4> QED
        BY <3>5, <4>1
    <3>7. out' = [out EXCEPT ![1] = after]
      BY <3>1, <3>2 DEF Document
    <3> HIDE DEF more, n
    <3>8. PICK e \in Document : /\ e = after /\ ~e.torn /\ e.set = more
                                /\ e.format = d.format /\ e.whole = d.whole
      <4>1. /\ after \in Document /\ ~after.torn /\ after.set = more
            /\ after.format = d.format /\ after.whole = d.whole
        BY <3>6 DEF Document
      <4> QED
        BY <4>1
    <3> HIDE DEF after
    <3>9. out' = <<e>>
      BY <3>2, <3>7, <3>8, OnlyDocument
    <3>10. GenTyped'
      <4>1. out'[1] = e /\ out' = <<out'[1]>>
        BY <3>9
      <4> QED
        BY <3>1, <3>8, <4>1 DEF GenTyped
    <3>11. Begun(e)'
      <4>1. Len(more) <= Len(set)
        BY <3>4, <3>5, <3>6
      <4>2. /\ ~d.whole /\ Len(set) = Len(ParseConfig(source))
        BY <3>3 DEF Begun
      <4>3. ~e.whole /\ ~e.torn /\ Len(e.set) <= Len(set) /\ e.set = SubSeq(set, 1, Len(e.set))
        BY <3>6, <3>8, <4>1, <4>2
      <4> QED
        BY <3>1, <4>2, <4>3 DEF Begun
    <3>12. out' # <<>> /\ out'[1] = e
      BY <3>9
    <3>13. Progress'
      BY <3>1, <3>3, <3>8, <3>11, <3>12 DEF Progress, Begun
    <3> QED
      BY <3>10, <3>13
  <2>5. CASE Finish
    <3>1. /\ phase = "write" /\ ~Unwritten
          /\ out' = [out EXCEPT ![1].whole = TRUE]
          /\ phase' = "idle" /\ exit' = "ok"
          /\ UNCHANGED <<source, format, set, faults>>
      BY <2>5 DEF Finish
    <3>2. PICK d \in Document : out = <<d>>
      BY <3>1 DEF GenTyped, Progress
    <3> DEFINE e == [d EXCEPT !.whole = TRUE]
    <3>3. e \in Document /\ e.set = d.set /\ e.format = d.format
      BY DEF Document
    <3>4. out' = <<e>>
      BY <3>1, <3>2, <3>3, OnlyDocument
    <3> HIDE DEF e
    <3>5. GenTyped'
      <4>1. out'[1] = e /\ out' = <<out'[1]>>
        BY <3>4
      <4> QED
        BY <3>1, <3>3, <4>1 DEF GenTyped
    <3>6. d.format = format /\ Begun(d) /\ ~(Len(d.set) < Len(set))
      BY <3>1, <3>2 DEF Progress, Unwritten
    <3>7. d.set = set
      <4>1. d.set \in Seq(Instruction) /\ set \in Seq(Instruction)
        BY DEF Document, GenTyped
      <4>2. Len(d.set) = Len(set)
        BY <3>6, <4>1 DEF Begun
      <4>3. SubSeq(set, 1, Len(set)) = set
        BY <4>1
      <4> QED
        BY <3>6, <4>2, <4>3 DEF Begun
    <3>8. Done(e)'
      BY <3>1, <3>3, <3>6, <3>7 DEF Begun, Done
    <3>9. out' # <<>> /\ out'[1] = e
      BY <3>4
    <3>10. Progress'
      BY <3>1, <3>3, <3>6, <3>8, <3>9 DEF Progress
    <3> QED
      BY <3>5, <3>10
  <2>6. CASE Fail
    <3>1. GenTyped'
      BY <2>6, SysconfigenAssumption DEF Fail, GenTyped
    <3>2. Progress'
      BY <2>6 DEF Fail, Progress, Begun, Done
    <3> QED
      BY <3>1, <3>2
  <2>7. CASE UNCHANGED vars
    BY <2>7 DEF vars, GenTyped, Progress, Begun, Done, Empty
  <2> QED
    BY <2>1, <2>2, <2>3, <2>4, <2>5, <2>6, <2>7 DEF Next
<1> QED
  BY <1>1, <1>2, PTL DEF Spec

(* TypeOK of Sysconfigen: no instruction is taken from behind the last one.  *)
THEOREM SysconfigenTypeCorrect == Spec => []TypeOK
<1>1. GenTyped => TypeOK
  BY DEF GenTyped, TypeOK
<1> QED
  BY <1>1, SysconfigenTyped, PTL

(* WholeOrNothing: a document with an end mark, whenever sysconfig reads it, *)
(* has every instruction of the text built last.                             *)
THEOREM WholeOrNothingHolds == Spec => []WholeOrNothing
<1>1. Progress => WholeOrNothing
  <2> SUFFICES ASSUME Progress, NEW ext \in Extension, NEW loaded \in LoadedBy(ext),
                      out[1].format # "yaml"
               PROVE  /\ out[1].format = format
                      /\ Len(loaded) = Len(ParseConfig(source))
                      /\ loaded = set
    BY DEF WholeOrNothing
  <2>1. out # <<>> /\ out[1].whole /\ loaded = out[1].set
    BY DEF LoadedBy
  <2> QED
    BY <2>1 DEF Progress, Done
<1> QED
  BY <1>1, SysconfigenTyped, PTL
=============================================================================

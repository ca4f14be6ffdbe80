---------------------- MODULE AssistantAnswersProofs ----------------------
(***************************************************************************)
(* Proofs about AssistantAnswers, for any evidence, sources, limits and     *)
(* fields: accepted answers are grounded, the conversation's state is       *)
(* valid whatever updates are applied to it, corrections win, and what the  *)
(* model is given is allowed by the plan and within the limits.             *)
(***************************************************************************)
EXTENDS AssistantAnswers, NaturalsInduction, WellFoundedInduction, FiniteSetTheorems,
        SequenceTheorems, TLAPS

-----------------------------------------------------------------------------
(* What a recursive function computes.  It is the function that CHOOSE       *)
(* takes, so that one must exist: it is built up to n by induction, and      *)
(* induction is that a set of numbers has a least element.                   *)

\* A set of numbers has a least element.
LEMMA LeastNumber ==
    ASSUME NEW T \in SUBSET Nat, T # {}
    PROVE  \E n \in T : \A m \in T : n <= m
<1> DEFINE R == {ss \in Nat \X Nat : ss[1] < ss[2]}
<1>1. IsWellFoundedOn(R, Nat)
    BY NatLessThanWellFounded DEF OpToRel
<1>2. \A i, j \in Nat : i < j => <<i, j>> \in R
    OBVIOUS
<1> HIDE DEF R
<1>3. PICK n \in T : \A m \in T : ~(<<m, n>> \in R)
    BY <1>1, WFMin
<1>4. ASSUME NEW m \in T PROVE n <= m
    <2>1. m \in Nat /\ n \in Nat
       OBVIOUS
    <2>2. ~(m < n)
       BY <1>3, <1>2, <2>1
    <2> QED BY <2>1, <2>2
<1>5. QED
    BY <1>4

\* Induction up to m, over a set instead of a predicate.
LEMMA UpTo ==
    ASSUME NEW m \in Nat, NEW S, 0 \in S,
           \A n \in 1..m : n - 1 \in S => n \in S
    PROVE  0..m \subseteq S
<1> DEFINE T == {n \in 0..m : n \notin S}
<1>1. SUFFICES ASSUME T # {} PROVE FALSE
    OBVIOUS
<1>2. T \in SUBSET Nat
    OBVIOUS
<1>3. PICK n \in T : \A i \in T : n <= i
    BY <1>1, <1>2, LeastNumber
<1>4. n \in 1..m /\ n \notin S
    OBVIOUS
<1>5. n - 1 \in 0..m /\ n - 1 \in S
    BY <1>3, <1>4
<1>6. QED
    BY <1>4, <1>5

\* The table g of a recursion of m steps.
Computes(g, m, base, step) == g[0] = base /\ \A n \in 1..m : g[n] = step[n][g[n - 1]]

\* There is one, of values in S.
LEMMA Recursion ==
    ASSUME NEW m \in Nat, NEW S, NEW base \in S, NEW step \in [1..m -> [S -> S]]
    PROVE  \E g \in [0..m -> S] : Computes(g, m, base, step)
<1> DEFINE Good(n, g) == g[0] = base /\ \A i \in 1..n : g[i] = step[i][g[i - 1]]
           T == {n \in Nat : \E g \in [0..m -> S] : Good(n, g)}
<1>1. 0 \in T
    <2>1. [i \in 0..m |-> base] \in [0..m -> S] /\ Good(0, [i \in 0..m |-> base])
        OBVIOUS
    <2>2. QED
        BY <2>1
<1>2. ASSUME NEW n \in 1..m, n - 1 \in T PROVE n \in T
    <2>1. PICK g \in [0..m -> S] : Good(n - 1, g)
        BY <1>2
    <2> DEFINE h == [g EXCEPT ![n] = step[n][g[n - 1]]]
    <2>2. h \in [0..m -> S] /\ h[n] = step[n][g[n - 1]] /\ \A i \in 0..m : i # n => h[i] = g[i]
        OBVIOUS
    <2> HIDE DEF h
    <2>3. Good(n, h)
        <3>1. h[0] = base
            BY <2>1, <2>2
        <3>2. ASSUME NEW i \in 1..n PROVE h[i] = step[i][h[i - 1]]
            <4>1. CASE i = n
                BY <2>2, <4>1
            <4>2. CASE i # n
                <5>1. i \in 1..(n-1) /\ i \in 0..m /\ i - 1 \in 0..m /\ i - 1 # n
                   BY <4>2
                <5>2. QED BY <2>1, <2>2, <5>1
            <4>3. QED BY <4>1, <4>2
        <3>3. QED
            BY <3>1, <3>2
    <2>4. QED
        BY <2>2, <2>3
<1>3. m \in T
    <2> HIDE DEF T
    <2>1. 0..m \subseteq T
        BY <1>1, <1>2, UpTo
    <2>2. QED
        BY <2>1
<1>4. QED
    BY <1>3 DEF Computes

\* What Keep has kept of the first n items of s.
KeepSteps(g, s, S) ==
    /\ g[0] = <<>>
    /\ \A n \in 1..Len(s) : g[n] = IF s[n] \in S THEN Append(g[n - 1], s[n]) ELSE g[n - 1]
    /\ Keep(s, S) = g[Len(s)]

LEMMA KeepTable ==
    ASSUME NEW C, NEW s \in Seq(C), NEW S
    PROVE  \E g \in [0..Len(s) -> Seq(C)] : KeepSteps(g, s, S)
<1> DEFINE m == Len(s)
           L == Seq(C)
           step == [n \in 1..m |-> [t \in L |-> IF s[n] \in S THEN Append(t, s[n]) ELSE t]]
           base == <<>>
           E(h) == h = [n \in 0..m |-> IF n = 0 THEN base
                           ELSE IF s[n] \in S THEN Append(h[n - 1], s[n]) ELSE h[n - 1]]
           k == CHOOSE h : E(h)
<1>1. m \in Nat /\ base \in L /\ step \in [1..m -> [L -> L]]
    OBVIOUS
<1>2. \A n \in 1..m : \A t \in L : step[n][t] = IF s[n] \in S THEN Append(t, s[n]) ELSE t
    OBVIOUS
<1>3. Keep(s, S) = k[m]
    BY DEF Keep
<1> HIDE DEF step, L, m, base
<1>4. PICK g \in [0..m -> L] : Computes(g, m, base, step)
    <2>1. QED
        BY <1>1, Recursion
<1>5. \A n \in 1..m : n - 1 \in 0..m
    BY <1>1
<1>6. \A n \in 1..m : g[n] = IF s[n] \in S THEN Append(g[n - 1], s[n]) ELSE g[n - 1]
    BY <1>2, <1>4, <1>5 DEF Computes
<1>7. E(g)
    <2>1. \A n \in 0..m : g[n] = IF n = 0 THEN base
                           ELSE IF s[n] \in S THEN Append(g[n - 1], s[n]) ELSE g[n - 1]
        <3>1. TAKE n \in 0..m
        <3>2. n = 0 \/ n \in 1..m
            BY <1>1
        <3>3. QED
            BY <1>4, <1>6, <3>2 DEF Computes
    <2>2. QED
        BY <1>4, <2>1
<1>8. E(k)
    BY <1>7
<1> HIDE DEF k
<1>9. \A n \in 0..m : k[n] = IF n = 0 THEN base
                           ELSE IF s[n] \in S THEN Append(k[n - 1], s[n]) ELSE k[n - 1]
    BY <1>8
<1>10. /\ k[0] = base
      /\ \A n \in 1..m : k[n] = IF s[n] \in S THEN Append(k[n - 1], s[n]) ELSE k[n - 1]
    BY <1>1, <1>9
<1>11. \A n \in 0..m : k[n] \in L
    <2> DEFINE T == {n \in 0..m : k[n] \in L}
    <2>1. 0 \in T
        BY <1>1, <1>10
    <2>2. ASSUME NEW n \in 1..m, n - 1 \in T PROVE n \in T
        BY <1>1, <1>2, <1>10, <2>2
    <2> HIDE DEF T
    <2>3. 0..m \subseteq T
        BY <1>1, <2>1, <2>2, UpTo
    <2>4. QED
        BY <2>3 DEF T
<1>12. k \in [0..m -> L]
    BY <1>8, <1>11
<1>13. QED
    BY <1>3, <1>10, <1>12 DEF m, L, base, KeepSteps
\* What Build has packed of the first n items of s.
BuildSteps(g, s) ==
    /\ g[0] = <<>>
    /\ \A n \in 1..Len(s) : g[n] = IF Fits(g[n - 1], s[n]) THEN Append(g[n - 1], s[n])
                                                           ELSE g[n - 1]
    /\ Build(s) = g[Len(s)]

LEMMA BuildTable ==
    ASSUME NEW C, NEW s \in Seq(C)
    PROVE  \E g \in [0..Len(s) -> Seq(C)] : BuildSteps(g, s)
<1> DEFINE m == Len(s)
           L == Seq(C)
           step == [n \in 1..m |-> [t \in L |-> IF Fits(t, s[n]) THEN Append(t, s[n]) ELSE t]]
           base == <<>>
           E(h) == h = [n \in 0..m |-> IF n = 0 THEN base
                           ELSE IF Fits(h[n - 1], s[n]) THEN Append(h[n - 1], s[n]) ELSE h[n - 1]]
           k == CHOOSE h : E(h)
<1>1. m \in Nat /\ base \in L /\ step \in [1..m -> [L -> L]]
    OBVIOUS
<1>2. \A n \in 1..m : \A t \in L : step[n][t] = IF Fits(t, s[n]) THEN Append(t, s[n]) ELSE t
    OBVIOUS
<1>3. Build(s) = k[m]
    BY DEF Build
<1> HIDE DEF step, L, m, base
<1>4. PICK g \in [0..m -> L] : Computes(g, m, base, step)
    <2>1. QED
        BY <1>1, Recursion
<1>5. \A n \in 1..m : n - 1 \in 0..m
    BY <1>1
<1>6. \A n \in 1..m : g[n] = IF Fits(g[n - 1], s[n]) THEN Append(g[n - 1], s[n]) ELSE g[n - 1]
    BY <1>2, <1>4, <1>5 DEF Computes
<1>7. E(g)
    <2>1. \A n \in 0..m : g[n] = IF n = 0 THEN base
                           ELSE IF Fits(g[n - 1], s[n]) THEN Append(g[n - 1], s[n]) ELSE g[n - 1]
        <3>1. TAKE n \in 0..m
        <3>2. n = 0 \/ n \in 1..m
            BY <1>1
        <3>3. QED
            BY <1>4, <1>6, <3>2 DEF Computes
    <2>2. QED
        BY <1>4, <2>1
<1>8. E(k)
    BY <1>7
<1> HIDE DEF k
<1>9. \A n \in 0..m : k[n] = IF n = 0 THEN base
                           ELSE IF Fits(k[n - 1], s[n]) THEN Append(k[n - 1], s[n]) ELSE k[n - 1]
    BY <1>8
<1>10. /\ k[0] = base
      /\ \A n \in 1..m : k[n] = IF Fits(k[n - 1], s[n]) THEN Append(k[n - 1], s[n]) ELSE k[n - 1]
    BY <1>1, <1>9
<1>11. \A n \in 0..m : k[n] \in L
    <2> DEFINE T == {n \in 0..m : k[n] \in L}
    <2>1. 0 \in T
        BY <1>1, <1>10
    <2>2. ASSUME NEW n \in 1..m, n - 1 \in T PROVE n \in T
        BY <1>1, <1>2, <1>10, <2>2
    <2> HIDE DEF T
    <2>3. 0..m \subseteq T
        BY <1>1, <2>1, <2>2, UpTo
    <2>4. QED
        BY <2>3 DEF T
<1>12. k \in [0..m -> L]
    BY <1>8, <1>11
<1>13. QED
    BY <1>3, <1>10, <1>12 DEF m, L, base, BuildSteps

\* The characters of the first n items of s.
CharacterSteps(g, s) ==
    /\ g[0] = 0
    /\ \A n \in 1..Len(s) : g[n] = g[n - 1] + InfoOf[s[n]].size
    /\ Characters(s) = g[Len(s)]

LEMMA CharactersTable ==
    ASSUME NEW s \in Seq(Chunks \cup Pages)
    PROVE  \E g \in [0..Len(s) -> Nat] : CharacterSteps(g, s)
<1> DEFINE m == Len(s)
           step == [n \in 1..m |-> [t \in Nat |-> t + InfoOf[s[n]].size]]
           E(h) == h = [n \in 0..m |-> IF n = 0 THEN 0 ELSE h[n - 1] + InfoOf[s[n]].size]
           k == CHOOSE h : E(h)
<1>1. m \in Nat /\ \A n \in 1..m : s[n] \in Chunks \cup Pages
    OBVIOUS
<1>2. \A n \in 1..m : InfoOf[s[n]].size \in Nat
    BY <1>1, AssistantAssumption DEF Infos
<1>3. step \in [1..m -> [Nat -> Nat]]
    BY <1>2
<1>4. \A n \in 1..m : \A t \in Nat : step[n][t] = t + InfoOf[s[n]].size
    OBVIOUS
<1>5. Characters(s) = k[m]
    BY DEF Characters
<1> HIDE DEF step, m
<1>6. PICK g \in [0..m -> Nat] : Computes(g, m, 0, step)
    BY <1>1, <1>3, Recursion
<1>7. \A n \in 1..m : n - 1 \in 0..m
    BY <1>1
<1>8. \A n \in 1..m : g[n] = g[n - 1] + InfoOf[s[n]].size
    BY <1>4, <1>6, <1>7 DEF Computes
<1>9. E(g)
    <2>1. \A n \in 0..m : g[n] = IF n = 0 THEN 0 ELSE g[n - 1] + InfoOf[s[n]].size
        <3>1. TAKE n \in 0..m
        <3>2. n = 0 \/ n \in 1..m
            BY <1>1
        <3>3. QED
            BY <1>6, <1>8, <3>2 DEF Computes
    <2>2. QED
        BY <1>6, <2>1
<1>10. E(k)
    BY <1>9
<1> HIDE DEF k
<1>11. \A n \in 0..m : k[n] = IF n = 0 THEN 0 ELSE k[n - 1] + InfoOf[s[n]].size
    BY <1>10
<1>12. k[0] = 0 /\ \A n \in 1..m : k[n] = k[n - 1] + InfoOf[s[n]].size
    BY <1>1, <1>11
<1>13. \A n \in 0..m : k[n] \in Nat
    <2> DEFINE T == {n \in 0..m : k[n] \in Nat}
    <2>1. 0 \in T
        BY <1>1, <1>12
    <2>2. ASSUME NEW n \in 1..m, n - 1 \in T PROVE n \in T
        <3>1. n \in 0..m /\ k[n - 1] \in Nat
            BY <1>1, <2>2
        <3>2. k[n - 1] + InfoOf[s[n]].size \in Nat
            BY <1>2, <3>1
        <3>3. QED
            BY <1>12, <3>1, <3>2
    <2> HIDE DEF T
    <2>3. 0..m \subseteq T
        BY <1>1, <2>1, <2>2, UpTo
    <2>4. QED
        BY <2>3 DEF T
<1>14. k \in [0..m -> Nat]
    BY <1>10, <1>13
<1>15. QED
    BY <1>5, <1>12, <1>14 DEF m, CharacterSteps

LEMMA CharactersEmpty == Characters(<<>>) = 0
<1>1. <<>> \in Seq(Chunks \cup Pages) /\ Len(<<>>) = 0
    OBVIOUS
<1>2. QED
    BY <1>1, CharactersTable DEF CharacterSteps

\* One more item adds its size: the running total of the builder.
LEMMA CharactersAppend ==
    ASSUME NEW s \in Seq(Chunks \cup Pages), NEW k \in Chunks \cup Pages
    PROVE  /\ Characters(s) \in Nat
           /\ Characters(Append(s, k)) = Characters(s) + InfoOf[k].size
<1> DEFINE m == Len(s)
           t == Append(s, k)
<1>1. m \in Nat /\ t \in Seq(Chunks \cup Pages) /\ Len(t) = m + 1
      /\ t[m + 1] = k /\ \A n \in 1..m : t[n] = s[n]
    OBVIOUS
<1>2. PICK g \in [0..m -> Nat] : CharacterSteps(g, s)
    BY CharactersTable
<1>3. PICK h \in [0..Len(t) -> Nat] : CharacterSteps(h, t)
    BY <1>1, CharactersTable
<1>4. /\ g[0] = 0
      /\ \A n \in 1..m : g[n] = g[n - 1] + InfoOf[s[n]].size
      /\ Characters(s) = g[m]
    BY <1>2 DEF CharacterSteps
<1>5. /\ h[0] = 0
      /\ \A n \in 1..(m + 1) : h[n] = h[n - 1] + InfoOf[t[n]].size
      /\ Characters(t) = h[m + 1]
    BY <1>1, <1>3 DEF CharacterSteps
<1> HIDE DEF t
<1> DEFINE T == {n \in 0..m : g[n] = h[n]}
<1> HIDE DEF m, T
<1>6. 0 \in T
    BY <1>1, <1>4, <1>5 DEF T
<1>7. ASSUME NEW n \in 1..m, n - 1 \in T PROVE n \in T
    <2>1. n \in 1..(m + 1) /\ n \in 0..m /\ t[n] = s[n] /\ g[n - 1] = h[n - 1]
        BY <1>1, <1>7 DEF T
    <2>2. QED
        BY <1>4, <1>5, <2>1 DEF T
<1>8. 0..m \subseteq T
    BY <1>1, <1>6, <1>7, UpTo
<1>9. g[m] = h[m]
    BY <1>1, <1>8 DEF T
<1>10. h[m + 1] = h[m] + InfoOf[t[m + 1]].size
    BY <1>1, <1>5
<1>11. QED
    BY <1>1, <1>4, <1>5, <1>9, <1>10 DEF t


-----------------------------------------------------------------------------
(* The lists of the retrieval and of the evidence pack.                     *)

\* What an evidence pack is built from, and its limits.
Items == Chunks \cup Pages
Packed(items) ==
    /\ \A k \in Range(items) : InfoOf[k].cited /\ ~InfoOf[k].control
    /\ \A i, j \in DOMAIN items : InfoOf[items[i]].body = InfoOf[items[j]].body => i = j
    /\ Len(items) <= MaxItems
    /\ Characters(items) <= MaxCharacters

LEMMA RangeOfAppend ==
    ASSUME NEW C, NEW s \in Seq(C), NEW k \in C
    PROVE  Append(s, k) \in Seq(C) /\ Range(Append(s, k)) = Range(s) \cup {k}
<1>1. /\ Append(s, k) \in Seq(C) /\ Len(s) \in Nat /\ DOMAIN s = 1..Len(s)
      /\ DOMAIN Append(s, k) = 1..(Len(s) + 1)
      /\ Append(s, k)[Len(s) + 1] = k /\ \A i \in 1..Len(s) : Append(s, k)[i] = s[i]
    OBVIOUS
<1>2. \A i \in 1..(Len(s) + 1) : i \in 1..Len(s) \/ i = Len(s) + 1
    BY <1>1
<1>3. Len(s) + 1 \in 1..(Len(s) + 1) /\ \A i \in 1..Len(s) : i \in 1..(Len(s) + 1)
    BY <1>1
<1>4. QED
    BY <1>1, <1>2, <1>3 DEF Range

LEMMA RangeOfEmpty == Range(<<>>) = {}
    BY DEF Range

\* Keep returns the items of s that are in S, and nothing else.
LEMMA KeepFacts ==
    ASSUME NEW C, NEW s \in Seq(C), NEW S
    PROVE  Keep(s, S) \in Seq(C) /\ Range(Keep(s, S)) = Range(s) \cap S
<1> DEFINE m == Len(s)
<1>1. m \in Nat /\ DOMAIN s = 1..m /\ \A n \in 1..m : s[n] \in C
    OBVIOUS
<1>2. PICK g \in [0..m -> Seq(C)] : KeepSteps(g, s, S)
    BY KeepTable
<1>3. /\ g[0] = <<>>
      /\ \A n \in 1..m : g[n] = IF s[n] \in S THEN Append(g[n - 1], s[n]) ELSE g[n - 1]
      /\ Keep(s, S) = g[m]
    BY <1>2 DEF KeepSteps
<1> DEFINE T == {n \in 0..m : Range(g[n]) = {s[i] : i \in 1..n} \cap S}
<1> HIDE DEF m, T
<1>4. 0 \in T
    BY <1>1, <1>3, RangeOfEmpty DEF T
<1>5. ASSUME NEW n \in 1..m, n - 1 \in T PROVE n \in T
    <2>1. n \in 0..m /\ n - 1 \in 0..m /\ g[n - 1] \in Seq(C) /\ s[n] \in C
        BY <1>1, <1>3
    <2>2. 1..n = 1..(n - 1) \cup {n}
        BY <1>1
    <2>3. {s[i] : i \in 1..n} = {s[i] : i \in 1..(n - 1)} \cup {s[n]}
        BY <2>2
    <2>4. Range(g[n - 1]) = {s[i] : i \in 1..(n - 1)} \cap S
        BY <1>5 DEF T
    <2>5. Range(g[n]) = IF s[n] \in S THEN Range(g[n - 1]) \cup {s[n]} ELSE Range(g[n - 1])
        BY <1>3, <2>1, RangeOfAppend
    <2>6. QED
        BY <2>1, <2>3, <2>4, <2>5 DEF T
<1>6. m \in T
    <2>1. 0..m \subseteq T
        BY <1>1, <1>4, <1>5, UpTo
    <2>2. QED
        BY <1>1, <2>1
<1>7. Range(s) = {s[i] : i \in 1..m}
    BY <1>1 DEF Range
<1>8. QED
    BY <1>1, <1>3, <1>6, <1>7 DEF T

\* An item that fits leaves the pack within its limits.
LEMMA PackedAppend ==
    ASSUME NEW s \in Seq(Items), NEW k \in Items, Packed(s), Fits(s, k)
    PROVE  Packed(Append(s, k))
<1>1. /\ Len(s) \in Nat /\ DOMAIN s = 1..Len(s)
      /\ DOMAIN Append(s, k) = 1..(Len(s) + 1) /\ Len(Append(s, k)) = Len(s) + 1
      /\ Append(s, k)[Len(s) + 1] = k /\ \A i \in 1..Len(s) : Append(s, k)[i] = s[i]
    OBVIOUS
<1>2. \A i \in 1..(Len(s) + 1) : i \in 1..Len(s) \/ i = Len(s) + 1
    BY <1>1
<1>3. ASSUME NEW i \in DOMAIN Append(s, k), NEW j \in DOMAIN Append(s, k),
             InfoOf[Append(s, k)[i]].body = InfoOf[Append(s, k)[j]].body
      PROVE  i = j
    BY <1>1, <1>2, <1>3 DEF Packed, Fits
<1>4. Len(Append(s, k)) <= MaxItems
    BY <1>1, AssistantAssumption DEF Fits
<1>5. Characters(Append(s, k)) <= MaxCharacters
    BY CharactersAppend DEF Fits, Items
<1>6. \A l \in Range(Append(s, k)) : InfoOf[l].cited /\ ~InfoOf[l].control
    BY RangeOfAppend DEF Packed, Fits
<1>7. QED
    BY <1>3, <1>4, <1>5, <1>6 DEF Packed

LEMMA PackedEmpty == Packed(<<>>)
<1>1. Len(<<>>) = 0 /\ DOMAIN <<>> = {}
    OBVIOUS
<1>2. QED
    BY <1>1, RangeOfEmpty, CharactersEmpty, AssistantAssumption DEF Packed

\* Whatever is offered, the pack is of it and within its limits.
LEMMA BuildFacts ==
    ASSUME NEW C \in SUBSET Items, NEW s \in Seq(C)
    PROVE  Build(s) \in Seq(C) /\ Range(Build(s)) \subseteq Range(s) /\ Packed(Build(s))
<1> DEFINE m == Len(s)
<1>1. m \in Nat /\ DOMAIN s = 1..m /\ \A n \in 1..m : s[n] \in C
    OBVIOUS
<1>2. PICK g \in [0..m -> Seq(C)] : BuildSteps(g, s)
    BY BuildTable
<1>3. /\ g[0] = <<>>
      /\ \A n \in 1..m : g[n] = IF Fits(g[n - 1], s[n]) THEN Append(g[n - 1], s[n]) ELSE g[n - 1]
      /\ Build(s) = g[m]
    BY <1>2 DEF BuildSteps
<1> DEFINE T == {n \in 0..m : Range(g[n]) \subseteq Range(s) /\ Packed(g[n])}
<1> HIDE DEF m, T
<1>4. 0 \in T
    BY <1>1, <1>3, RangeOfEmpty, PackedEmpty DEF T
<1>5. ASSUME NEW n \in 1..m, n - 1 \in T PROVE n \in T
    <2>1. n \in 0..m /\ n - 1 \in 0..m
        BY <1>1
    <2>2. g[n - 1] \in Seq(C) /\ s[n] \in C /\ s[n] \in Range(s)
        BY <1>1, <1>3, <2>1 DEF Range
    <2>3. Range(g[n - 1]) \subseteq Range(s) /\ Packed(g[n - 1])
        BY <1>5 DEF T
    <2>4. g[n - 1] \in Seq(Items) /\ s[n] \in Items
        BY <2>2, SeqMonotonic
    <2>5. CASE Fits(g[n - 1], s[n])
        <3>1. g[n] = Append(g[n - 1], s[n])
            BY <1>3, <2>5
        <3>2. Range(g[n]) = Range(g[n - 1]) \cup {s[n]}
            BY <2>2, <3>1, RangeOfAppend
        <3>3. Packed(g[n])
            BY <2>3, <2>4, <2>5, <3>1, PackedAppend
        <3>4. QED
            BY <2>1, <2>2, <2>3, <3>2, <3>3 DEF T
    <2>6. CASE ~Fits(g[n - 1], s[n])
        BY <1>3, <2>1, <2>3, <2>6 DEF T
    <2>7. QED
        BY <2>5, <2>6
<1>6. m \in T
    <2>1. 0..m \subseteq T
        BY <1>1, <1>4, <1>5, UpTo
    <2>2. QED
        BY <1>1, <2>1
<1>7. QED
    BY <1>1, <1>3, <1>6 DEF T

LEMMA TopFacts ==
    ASSUME NEW C, NEW s \in Seq(C), NEW n \in Nat
    PROVE  /\ Top(s, n) \in Seq(C)
           /\ DOMAIN Top(s, n) = {i \in DOMAIN s : i <= n}
           /\ \A i \in DOMAIN Top(s, n) : Top(s, n)[i] = s[i]
<1> DEFINE l == IF Len(s) < n THEN Len(s) ELSE n
<1>1. /\ Len(s) \in Nat /\ DOMAIN s = 1..Len(s) /\ l \in 0..Len(s) /\ l <= n
      /\ 1..l = {i \in 1..Len(s) : i <= n} /\ \A i \in 1..l : s[i] \in C
    OBVIOUS
<1>2. Top(s, n) = SubSeq(s, 1, l)
    BY DEF Top
<1> HIDE DEF l
<1>3. /\ SubSeq(s, 1, l) \in Seq(C) /\ Len(SubSeq(s, 1, l)) = l
      /\ \A i \in 1..l : SubSeq(s, 1, l)[i] = s[i]
    BY <1>1, SubSeqProperties
<1>4. DOMAIN SubSeq(s, 1, l) = 1..l
    BY <1>3
<1>5. QED
    BY <1>1, <1>2, <1>3, <1>4

\* A list of n different chunks out of n misses none of them.
LEMMA OrderFacts ==
    ASSUME NEW chunks \in SUBSET Chunks, NEW r \in SetToSeqs(chunks)
    PROVE  r \in Seq(chunks) /\ Range(r) = chunks
<1> DEFINE n == Cardinality(chunks)
<1>1. IsFiniteSet(chunks) /\ n \in Nat
    BY AssistantAssumption, FS_Subset, FS_CardinalityType
<1>2. r \in [1..n -> chunks] /\ \A i, j \in 1..n : i # j => r[i] # r[j]
    BY DEF SetToSeqs
<1> HIDE DEF n
<1>3. r \in Injection(1..n, chunks)
    BY <1>2 DEF Injection, IsInjective
<1>4. Cardinality(1..n) = n
    BY <1>1, FS_Interval
<1>5. r \in Surjection(1..n, chunks)
    BY <1>1, <1>3, <1>4, FS_Injection DEF n
<1>6. Range(r) = chunks
    BY <1>2, <1>5 DEF Range, Surjection
<1>7. r \in Seq(chunks)
    BY <1>1, <1>2
<1>8. QED
    BY <1>6, <1>7

\* A ranking holds every chunk, its corrections first.
LEMMA RankingFacts ==
    ASSUME NEW chunks \in SUBSET Chunks, NEW r \in Rankings(chunks)
    PROVE  /\ r \in Seq(Chunks)
           /\ Range(r) = chunks
           /\ \A i \in DOMAIN r : InfoOf[r[i]].correction =>
                 \A j \in 1..i : InfoOf[r[j]].correction
<1> DEFINE corrections == {c \in chunks : InfoOf[c].correction}
           others == chunks \ corrections
<1>1. corrections \in SUBSET Chunks /\ others \in SUBSET Chunks
      /\ chunks = corrections \cup others
    OBVIOUS
<1>2. PICK first \in SetToSeqs(corrections), rest \in SetToSeqs(others) : r = first \o rest
    BY DEF Rankings
<1> HIDE DEF corrections, others
<1>3. /\ first \in Seq(corrections) /\ Range(first) = corrections
      /\ rest \in Seq(others) /\ Range(rest) = others
    BY <1>1, <1>2, OrderFacts
<1>4. /\ r \in Seq(chunks) /\ Len(first) \in Nat /\ Len(rest) \in Nat
      /\ DOMAIN first = 1..Len(first) /\ DOMAIN rest = 1..Len(rest)
      /\ DOMAIN r = 1..(Len(first) + Len(rest))
      /\ \A i \in 1..Len(first) : r[i] = first[i]
      /\ \A i \in 1..Len(rest) : r[Len(first) + i] = rest[i]
    <2>1. first \in Seq(chunks) /\ rest \in Seq(chunks)
        BY <1>1, <1>3, SeqMonotonic
    <2>2. QED
        BY <1>2, <2>1, ConcatProperties
<1>5. \A i \in DOMAIN r : i \in 1..Len(first) \/ (i - Len(first) \in 1..Len(rest)
                                                  /\ r[i] = rest[i - Len(first)])
    BY <1>4
<1>6. Range(r) = chunks
    <2>1. ASSUME NEW i \in DOMAIN r PROVE r[i] \in chunks
        BY <1>4
    <2>2. ASSUME NEW c \in corrections PROVE \E i \in DOMAIN r : r[i] = c
        <3>1. PICK i \in 1..Len(first) : first[i] = c
            BY <1>3, <1>4 DEF Range
        <3>2. i \in DOMAIN r /\ r[i] = c
            BY <1>4, <3>1
        <3>3. QED
            BY <3>2
    <2>3. ASSUME NEW c \in others PROVE \E i \in DOMAIN r : r[i] = c
        <3>1. PICK i \in 1..Len(rest) : rest[i] = c
            BY <1>3, <1>4 DEF Range
        <3>2. Len(first) + i \in DOMAIN r /\ r[Len(first) + i] = c
            BY <1>4, <3>1
        <3>3. QED
            BY <3>2
    <2>4. QED
        BY <1>1, <2>1, <2>2, <2>3 DEF Range
<1>7. ASSUME NEW i \in DOMAIN r, InfoOf[r[i]].correction, NEW j \in 1..i
      PROVE  InfoOf[r[j]].correction
    <2>1. i \in 1..Len(first)
        <3>1. ASSUME i - Len(first) \in 1..Len(rest), r[i] = rest[i - Len(first)]
              PROVE  FALSE
            <4>1. r[i] \in others
                BY <1>3, <1>4, <3>1 DEF Range
            <4>2. QED
                BY <1>7, <4>1 DEF others, corrections
        <3>2. QED
            BY <1>5, <3>1
    <2>2. j \in 1..Len(first) /\ r[j] = first[j]
        BY <1>4, <2>1
    <2>3. r[j] \in corrections
        BY <1>3, <1>4, <2>2 DEF Range
    <2>4. QED
        BY <2>3 DEF corrections
<1>8. r \in Seq(Chunks)
    BY <1>4, SeqMonotonic
<1>9. QED
    BY <1>6, <1>7, <1>8

\* What is retrieved matches the plan, and no limit cut a correction off while
\* what it corrects stayed: the correction stands before it in the ranking, so it
\* is among the candidates too, and among those what it corrects is dropped.
LEMMA RetrievedFacts ==
    ASSUME NEW chunks \in SUBSET Chunks, NEW r \in Rankings(chunks), NEW p
    PROVE  /\ Retrieved(r, p) \in Seq(Chunks)
           /\ \A k \in Range(Retrieved(r, p)) : MatchesPlan(k, p)
           /\ \A c \in chunks, k \in Range(Retrieved(r, p)) :
                 InfoOf[c].correction /\ MatchesPlan(c, p) /\ ~InfoOf[k].correction =>
                     InfoOf[c].sources \cap InfoOf[k].sources = {}
<1> DEFINE t == Top(r, CandidateLimit)
           M == {c \in Chunks : MatchesPlan(c, p)}
           kept == Keep(t, M)
           corrected == UNION {InfoOf[kept[i]].sources : i \in Corrections(kept)}
           D == {c \in Chunks : InfoOf[c].correction \/ InfoOf[c].sources \cap corrected = {}}
           best == Keep(kept, D)
           final == Top(best, RetrievalLimit)
<1>1. PreferCorrections(kept) = best
    <2> HIDE DEF kept
    <2>1. QED
        BY DEF PreferCorrections
<1>2. Retrieved(r, p) = final
    <2>1. Retrieved(r, p) = Top(PreferCorrections(kept), RetrievalLimit)
        BY DEF Retrieved
    <2> HIDE DEF kept, best
    <2>2. QED
        BY <1>1, <2>1
<1>3. r \in Seq(Chunks) /\ Range(r) = chunks
    BY RankingFacts
<1>4. CandidateLimit \in Nat /\ RetrievalLimit \in Nat
    BY AssistantAssumption
<1>5. /\ t \in Seq(Chunks)
      /\ DOMAIN t = {i \in DOMAIN r : i <= CandidateLimit}
      /\ \A i \in DOMAIN t : t[i] = r[i]
    BY <1>3, <1>4, TopFacts
<1>6. kept \in Seq(Chunks) /\ Range(kept) = Range(t) \cap M
    BY <1>5, KeepFacts
<1>7. best \in Seq(Chunks) /\ Range(best) = Range(kept) \cap D
    <2> HIDE DEF kept, D
    <2>1. QED
        BY <1>6, KeepFacts
<1>8. final \in Seq(Chunks) /\ Range(final) \subseteq Range(best)
    <2> HIDE DEF t, M, kept, corrected, D, best
    <2>1. final \in Seq(Chunks) /\ DOMAIN final \subseteq DOMAIN best
          /\ \A i \in DOMAIN final : final[i] = best[i]
        BY <1>4, <1>7, TopFacts
    <2> HIDE DEF final
    <2>2. QED
        BY <2>1 DEF Range
<1>9. ASSUME NEW c \in chunks, NEW k \in Range(final),
             InfoOf[c].correction, MatchesPlan(c, p), ~InfoOf[k].correction
      PROVE  InfoOf[c].sources \cap InfoOf[k].sources = {}
    <2>1. k \in Range(t) /\ k \in D
        BY <1>6, <1>7, <1>8
    <2> HIDE DEF t, M, kept, D, best, final
    <2>2. PICK i \in DOMAIN r : r[i] = k /\ i <= CandidateLimit
        BY <1>5, <2>1 DEF Range
    <2>3. PICK j \in DOMAIN r : r[j] = c
        BY <1>3 DEF Range
    <2>4. i \in Nat \ {0} /\ j \in Nat \ {0}
        BY <1>3
    <2>5. ~(i \in 1..j)
        BY <1>9, <2>2, <2>3, RankingFacts
    <2>6. j <= CandidateLimit
        BY <1>4, <2>2, <2>4, <2>5
    <2>7. c \in Range(t)
        BY <1>5, <2>3, <2>6 DEF Range
    <2>8. c \in Range(kept)
        BY <1>6, <1>9, <2>7 DEF M
    <2>9. PICK l \in DOMAIN kept : kept[l] = c
        BY <2>8 DEF Range
    <2>10. InfoOf[c].sources \subseteq corrected
        BY <1>9, <2>9 DEF Corrections
    <2>11. QED
        BY <1>9, <2>1, <2>10 DEF D
<1> HIDE DEF t, kept, D, best, final
<1>10. \A k \in Range(final) : MatchesPlan(k, p)
    BY <1>6, <1>7, <1>8
<1>11. QED
    BY <1>8, <1>2, <1>9, <1>10

-----------------------------------------------------------------------------
(* The answers.                                                            *)

\* Every claim of an answer without issues is grounded.
LEMMA NoIssues ==
    ASSUME NEW a, NEW items, NEW p, Issues(a, items, p) = {}, NEW claim \in a.claims
    PROVE  /\ claim.cites \in Range(items)
           /\ claim.quote # "inexact"
           /\ Supported(claim, p)
<1>1. ClaimIssue(claim, items, p) = "none"
    BY DEF Issues
<1>2. QED
    BY <1>1 DEF ClaimIssue

\* So is every claim of an accepted answer, repaired or not.
LEMMA AcceptedGrounded ==
    ASSUME NEW a, NEW items, NEW p, NEW b \in Accepted(a, items, p), NEW claim \in b.claims
    PROVE  /\ claim.cites \in Range(items)
           /\ claim.quote # "inexact"
           /\ claim.support >= (IF HighRisk(p) THEN 2 ELSE 1)
<1>1. Issues(b, items, p) = {}
    BY DEF Accepted
<1>2. QED
    BY <1>1, NoIssues DEF Supported

\* Answers without a claim have nothing to be grounded.
LEMMA ClosedGrounded ==
    ASSUME NEW kind, Finish(Closed(kind))
    PROVE  AnswersAreGrounded'
<1>1. outcome' = [kind |-> kind, claims |-> {}, items |-> <<>>, high |-> FALSE]
    BY DEF Finish, Closed, Outcome
<1>2. QED
    BY <1>1 DEF AnswersAreGrounded

LEMMA AnswerGrounded ==
    ASSUME NEW a, Finish(Outcome("accepted", UNION {b.claims : b \in Accepted(a, evidence, plan)},
                                 evidence, HighRisk(plan)))
    PROVE  AnswersAreGrounded'
<1> DEFINE C == UNION {b.claims : b \in Accepted(a, evidence, plan)}
<1>1. /\ outcome'.claims = C
      /\ outcome'.items = evidence
      /\ outcome'.high = HighRisk(plan)
    BY DEF Finish, Outcome
<1>2. ASSUME NEW claim \in C
      PROVE  /\ claim.cites \in Range(evidence)
             /\ claim.quote # "inexact"
             /\ claim.support >= (IF HighRisk(plan) THEN 2 ELSE 1)
    BY <1>2, AcceptedGrounded
<1> HIDE DEF C
<1>3. QED
    BY <1>1, <1>2 DEF AnswersAreGrounded

\* Every accepted answer is grounded in the evidence that is returned with it.
THEOREM AcceptedAnswersAreGrounded == Spec => []AnswersAreGrounded
<1>1. Init => AnswersAreGrounded
    BY DEF Init, Closed, Outcome, AnswersAreGrounded
<1>2. AnswersAreGrounded /\ [Next]_vars => AnswersAreGrounded'
    <2> SUFFICES ASSUME AnswersAreGrounded, [Next]_vars PROVE AnswersAreGrounded'
        OBVIOUS
    <2>1. ASSUME UNCHANGED outcome PROVE AnswersAreGrounded'
        BY <2>1 DEF AnswersAreGrounded
    <2>2. ASSUME outcome' = Closed("none") PROVE AnswersAreGrounded'
        BY <2>2 DEF Closed, Outcome, AnswersAreGrounded
    <2>3. CASE UNCHANGED vars
        BY <2>1, <2>3 DEF vars, request
    <2>4. ASSUME NEW q \in Questions, NEW requested, NEW stateful, Ask(q, requested, stateful)
          PROVE  AnswersAreGrounded'
        BY <2>2, <2>4, ClosedGrounded DEF Ask
    <2>5. ASSUME Pipeline PROVE AnswersAreGrounded'
        <3>1. CASE Retrieve
            BY <2>1, <3>1 DEF Retrieve
        <3>2. CASE ReadApproved
            BY <2>1, <3>2 DEF ReadApproved
        <3>3. CASE SearchWeb
            BY <2>1, <3>3 DEF SearchWeb
        <3>4. CASE FetchPage
            BY <2>1, <3>4 DEF FetchPage
        <3>5. CASE Orchestrate
            BY <2>1, <3>5, ClosedGrounded DEF Orchestrate
        <3>6. CASE GatewayRefuses
            BY <3>6, ClosedGrounded DEF GatewayRefuses
        <3>7. CASE RetryableFailure
            BY <2>1, <3>7, ClosedGrounded DEF RetryableFailure, AttemptAgain
        <3>8. CASE FatalFailure
            BY <3>8, ClosedGrounded DEF FatalFailure
        <3>9. CASE ModelAnswers
            <4>1. PICK a \in RawAnswers(evidence) :
                      Finish(IF Accepted(a, evidence, plan) = {} THEN Closed("insufficient")
                             ELSE Outcome("accepted",
                                          UNION {b.claims : b \in Accepted(a, evidence, plan)},
                                          evidence, HighRisk(plan)))
                BY <3>9 DEF ModelAnswers
            <4>2. CASE Accepted(a, evidence, plan) = {}
                BY <4>1, <4>2, ClosedGrounded
            <4>3. CASE Accepted(a, evidence, plan) # {}
                BY <4>1, <4>3, AnswerGrounded
            <4>4. QED
                BY <4>2, <4>3
        <3>10. QED
            BY <2>5, <3>1, <3>2, <3>3, <3>4, <3>5, <3>6, <3>7, <3>8, <3>9 DEF Pipeline
    <2>6. ASSUME NEW s \in Sources, SwitchSource(s) PROVE AnswersAreGrounded'
        BY <2>1, <2>6 DEF SwitchSource, request
    <2>7. ASSUME UpdateConversation PROVE AnswersAreGrounded'
        BY <2>2, <2>7 DEF UpdateConversation
    <2>8. QED
        BY <2>3, <2>4, <2>5, <2>6, <2>7 DEF Next
<1>3. QED
    BY <1>1, <1>2, PTL DEF Spec

-----------------------------------------------------------------------------
(* The state of the conversation.                                          *)

\* A state that a list of updates may pass through.
Sound(x) == x \in States /\ Valid(x)

\* Every update of a field settles it, contests it, or forgets it.
LEMMA SettleSound ==
    ASSUME NEW x, Sound(x), NEW f \in Fields, NEW fact \in Facts
    PROVE  Sound(Settle(x, f, fact))
<1> DEFINE y == Settle(x, f, fact)
<1>1. /\ x.facts \in [Fields -> Facts \cup {NoFact}]
      /\ x.conflicts \in [Fields -> ConflictPairs \cup {NoFact}]
      /\ x.missing \in SUBSET Fields
    BY DEF Sound, States
<1>2. /\ y.facts = [x.facts EXCEPT ![f] = fact]
      /\ y.conflicts = [x.conflicts EXCEPT ![f] = NoFact]
      /\ y.missing = x.missing \ {f}
    BY DEF Settle, Sound, States
<1>3. y \in States
    BY <1>1 DEF Settle, Sound, States
<1>4. Active(y) \subseteq Active(x) \cup {f}
    BY <1>1, <1>2 DEF Active
<1>5. Conflicted(y) \subseteq Conflicted(x) \ {f}
    BY <1>1, <1>2 DEF Conflicted
<1>6. QED
    BY <1>2, <1>3, <1>4, <1>5 DEF Sound, Valid

LEMMA ContestSound ==
    ASSUME NEW x, Sound(x), NEW f \in Fields, NEW fact \in Facts, Contradicts(x, f, fact)
    PROVE  Sound(Contest(x, f, fact))
<1> DEFINE y == Contest(x, f, fact)
           pair == [previous |-> x.facts[f], proposed |-> fact]
<1>1. /\ x.facts \in [Fields -> Facts \cup {NoFact}]
      /\ x.conflicts \in [Fields -> ConflictPairs \cup {NoFact}]
      /\ x.missing \in SUBSET Fields
    BY DEF Sound, States
<1>2. /\ y.facts = [x.facts EXCEPT ![f] = NoFact]
      /\ y.conflicts = [x.conflicts EXCEPT ![f] = pair]
      /\ y.missing = x.missing \ {f}
    BY DEF Contest, Sound, States
<1>3. pair \in ConflictPairs
    BY <1>1 DEF Contradicts, ConflictPairs
<1>4. y \in States
    <2>1. /\ [x.facts EXCEPT ![f] = NoFact] \in [Fields -> Facts \cup {NoFact}]
          /\ [x.conflicts EXCEPT ![f] = pair] \in [Fields -> ConflictPairs \cup {NoFact}]
        BY <1>1, <1>3
    <2>2. QED
        BY <1>1, <2>1 DEF Contest, Sound, States
<1>5. Active(y) \subseteq Active(x) \ {f}
    BY <1>1, <1>2 DEF Active
<1>6. Conflicted(y) \subseteq Conflicted(x) \cup {f}
    BY <1>1, <1>2 DEF Conflicted
<1>7. QED
    BY <1>2, <1>4, <1>5, <1>6 DEF Sound, Valid

LEMMA ForgetSound ==
    ASSUME NEW x, Sound(x), NEW f \in Fields
    PROVE  Sound(Forget(x, f))
<1> DEFINE y == Forget(x, f)
<1>1. /\ x.facts \in [Fields -> Facts \cup {NoFact}]
      /\ x.conflicts \in [Fields -> ConflictPairs \cup {NoFact}]
      /\ x.missing \in SUBSET Fields
    BY DEF Sound, States
<1>2. /\ y.facts = [x.facts EXCEPT ![f] = NoFact]
      /\ y.conflicts = [x.conflicts EXCEPT ![f] = NoFact]
      /\ y.missing = x.missing
    BY DEF Forget, Sound, States
<1>3. y \in States
    BY <1>1 DEF Forget, Sound, States
<1>4. Active(y) \subseteq Active(x)
    BY <1>1, <1>2 DEF Active
<1>5. Conflicted(y) \subseteq Conflicted(x)
    BY <1>1, <1>2 DEF Conflicted
<1>6. QED
    BY <1>2, <1>3, <1>4, <1>5 DEF Sound, Valid

\* A field that the workflow asks for is not active.
LEMMA RequireSound ==
    ASSUME NEW x, Sound(x), NEW f \in Fields \ Active(x)
    PROVE  Sound([x EXCEPT !.missing = @ \cup {f}])
<1> DEFINE y == [x EXCEPT !.missing = @ \cup {f}]
<1>1. /\ y = [facts |-> x.facts, conflicts |-> x.conflicts, missing |-> x.missing \cup {f}]
      /\ y \in States
    BY DEF Sound, States
<1>2. Active(y) = Active(x) /\ Conflicted(y) = Conflicted(x)
    BY <1>1 DEF Active, Conflicted
<1>3. QED
    BY <1>1, <1>2 DEF Sound, Valid

\* The invariant: both the state and the copy that apply works on are sound.
ConversationInv == Sound(memory) /\ (draft = NoDraft \/ Sound(draft))

LEMMA ConversationStart == ConversationInit => ConversationInv
<1>1. EmptyState \in States /\ Active(EmptyState) = {} /\ Conflicted(EmptyState) = {}
    BY DEF EmptyState, States, Active, Conflicted
<1>2. QED
    BY <1>1 DEF ConversationInit, ConversationInv, Sound, Valid, EmptyState

LEMMA ConversationNext == ConversationInv /\ ConversationStep => ConversationInv'
<1> SUFFICES ASSUME ConversationInv, ConversationStep PROVE ConversationInv'
    OBVIOUS
<1>1. CASE BeginApply
    BY <1>1 DEF BeginApply, ConversationInv
<1>2. ASSUME NEW f \in Fields, NEW fact \in Facts, Observe(f, fact)
      PROVE  ConversationInv'
    <2>1. /\ Sound(draft) /\ UNCHANGED memory
          /\ draft' = IF Contradicts(draft, f, fact) THEN Contest(draft, f, fact)
                                                     ELSE Settle(draft, f, fact)
        BY <1>2 DEF Observe, ConversationInv
    <2>2. Sound(draft')
        BY <2>1, ContestSound, SettleSound
    <2>3. QED
        BY <2>1, <2>2 DEF ConversationInv
<1>3. ASSUME NEW f \in Fields, NEW fact \in Facts, Correct(f, fact)
      PROVE  ConversationInv'
    BY <1>3, SettleSound DEF Correct, ConversationInv
<1>4. ASSUME NEW f \in Fields, RemoveFact(f) PROVE ConversationInv'
    BY <1>4, ForgetSound DEF RemoveFact, ConversationInv
<1>5. ASSUME NEW f \in Fields, RequireContext(f) PROVE ConversationInv'
    BY <1>5, RequireSound DEF RequireContext, ConversationInv
<1>6. CASE RaiseStateError
    BY <1>6 DEF RaiseStateError, ConversationInv
<1>7. CASE EndApply
    BY <1>7 DEF EndApply, ConversationInv
<1>8. QED
    BY <1>1, <1>2, <1>3, <1>4, <1>5, <1>6, <1>7 DEF ConversationStep

\* No other step touches the state of the conversation.
LEMMA OthersKeepState ==
    ASSUME [Next]_vars, ~UpdateConversation
    PROVE  UNCHANGED conversationVars
<1>1. ASSUME NEW result, Finish(result) PROVE UNCHANGED conversationVars
    BY <1>1 DEF Finish
<1>2. CASE UNCHANGED vars
    BY <1>2 DEF vars
<1>3. ASSUME NEW q \in Questions, NEW requested, NEW stateful, Ask(q, requested, stateful)
      PROVE  UNCHANGED conversationVars
    BY <1>1, <1>3 DEF Ask
<1>4. ASSUME Pipeline PROVE UNCHANGED conversationVars
    <2>1. CASE Retrieve \/ ReadApproved \/ SearchWeb \/ FetchPage
        BY <2>1 DEF Retrieve, ReadApproved, SearchWeb, FetchPage
    <2>2. CASE Orchestrate
        BY <1>1, <2>2 DEF Orchestrate
    <2>3. CASE GatewayRefuses \/ RetryableFailure \/ FatalFailure
        BY <1>1, <2>3 DEF GatewayRefuses, RetryableFailure, FatalFailure, AttemptAgain
    <2>4. CASE ModelAnswers
        BY <1>1, <2>4 DEF ModelAnswers
    <2>5. QED
        BY <1>4, <2>1, <2>2, <2>3, <2>4 DEF Pipeline
<1>5. ASSUME NEW s \in Sources, SwitchSource(s) PROVE UNCHANGED conversationVars
    BY <1>5 DEF SwitchSource
<1>6. QED
    BY <1>2, <1>3, <1>4, <1>5 DEF Next

\* The invariant of the conversation, over the steps of the assistant.
LEMMA ConversationKept == ConversationInv /\ [Next]_vars => ConversationInv'
<1> SUFFICES ASSUME ConversationInv, [Next]_vars PROVE ConversationInv'
    OBVIOUS
<1>1. CASE UpdateConversation
    BY <1>1, ConversationNext DEF UpdateConversation
<1>2. CASE ~UpdateConversation
    BY <1>2, OthersKeepState DEF conversationVars, ConversationInv
<1>3. QED
    BY <1>1, <1>2

-----------------------------------------------------------------------------
(* One request after the other.                                             *)

\* If the least trusted source of a chunk is allowed, all its sources are.
LEMMA PlanTiers ==
    ASSUME NEW p, NEW c \in Chunks, MatchesPlan(c, p), NEW s \in InfoOf[c].sources
    PROVE  TierOf[s] \in AllowedTiers(p)
<1>1. /\ \A t \in InfoOf[c].sources : TierOf[t] \in {1, 2, 3}
      /\ s \in InfoOf[c].sources
    BY AssistantAssumption DEF Infos
<1>2. PICK m \in InfoOf[c].sources : \A t \in InfoOf[c].sources : TierOf[t] <= TierOf[m]
    <2>1. CASE \E m \in InfoOf[c].sources : TierOf[m] = 3
        BY <1>1, <2>1
    <2>2. CASE /\ \A m \in InfoOf[c].sources : TierOf[m] # 3
               /\ \E m \in InfoOf[c].sources : TierOf[m] = 2
        BY <1>1, <2>2
    <2>3. CASE \A m \in InfoOf[c].sources : TierOf[m] # 3 /\ TierOf[m] # 2
        BY <1>1, <2>3
    <2>4. QED
        BY <2>1, <2>2, <2>3
<1>3. TierOf[m] \in AllowedTiers(p)
    BY <1>2 DEF MatchesPlan
<1>4. TierOf[s] <= TierOf[m] /\ TierOf[s] \in {1, 2, 3} /\ TierOf[m] \in {1, 2, 3}
    BY <1>1, <1>2
<1>5. QED
    BY <1>3, <1>4 DEF AllowedTiers

\* A resolved request holds values, not facts.
LEMMA ResolveType ==
    ASSUME NEW x \in States, NEW requested \in [RetrievalFields -> Values \cup {NoFact}]
    PROVE  Resolve(requested, x) \in [RetrievalFields -> Values \cup {NoFact}]
<1>1. ASSUME NEW f \in Confirmed(x) PROVE x.facts[f].value \in Values
    <2>1. f \in Fields /\ x.facts[f] # NoFact /\ x.facts \in [Fields -> Facts \cup {NoFact}]
        BY DEF Confirmed, Active, States
    <2>2. x.facts[f] \in Facts
        BY <2>1
    <2>3. QED
        BY <2>2 DEF Facts
<1>2. QED
    BY <1>1 DEF Resolve

\* A chunk is of the plan's language and domains, does not contradict its
\* applicability, and has sources of the allowed tiers only.
ChunkAllowed(k, p) ==
    /\ InfoOf[k].language = p.language
    /\ InfoOf[k].domain \in IntentDomains[p.intent]
    /\ \A f \in RetrievalFields : \/ InfoOf[k].applies[f] = {}
                                  \/ p.applicability[f] = NoFact
                                  \/ p.applicability[f] \in InfoOf[k].applies[f]
    /\ \A s \in InfoOf[k].sources : TierOf[s] \in AllowedTiers(p)

\* Of a page, one source is of an allowed tier.
AllowedEvidence(items, p) ==
    /\ \A k \in Range(items) \cap Chunks : ChunkAllowed(k, p)
    /\ \A k \in Range(items) \cap Pages : \E s \in InfoOf[k].sources :
          TierOf[s] \in AllowedTiers(p)

RequestTypes ==
    /\ active \subseteq Sources
    /\ pc \in {"idle", "retrieve", "web", "search", "fetch", "orchestrate", "generate"}
    /\ plan \in Plans \cup {NoPlan}
    /\ matched \subseteq Chunks /\ approved \subseteq Sources
    /\ hits \in Seq(Pages) /\ fetched \in Seq(Pages) /\ evidence \in Seq(Items)
    /\ attempts \in 0..MaxAttempts - 1
    /\ outcome.kind \in Kinds

\* What each phase has left behind, and the next one starts with.
RequestPhases ==
    /\ pc # "idle" => plan \in Plans
    /\ pc \notin {"orchestrate", "generate"} => evidence = <<>>
    /\ pc \in {"idle", "retrieve", "generate"} => matched = {}
    /\ pc \notin {"fetch", "orchestrate"} => fetched = <<>>
    /\ pc = "fetch" => hits # <<>>

\* Between the reading of the approved sources and the last page, no source that
\* the plan does not allow is relied on, although sources are switched meanwhile.
PagesApproved ==
    /\ pc \in {"search", "fetch"} => \A s \in approved : TierOf[s] \in AllowedTiers(plan)
    /\ pc = "fetch" => \A k \in Range(hits) \cup Range(fetched) : Covered(k)

EvidenceInv == Packed(evidence) /\ AllowedEvidence(evidence, plan) /\ CorrectionsWin

RequestInv == RequestTypes /\ RequestPhases /\ PagesApproved /\ EvidenceInv

\* The inductive invariant.
AssistantInv == ConversationInv /\ RequestInv

LEMMA EmptyEvidence ==
    /\ <<>> \in Seq(Items) /\ <<>> \in Seq(Pages) /\ Range(<<>>) = {}
    /\ Packed(<<>>) /\ \A p : AllowedEvidence(<<>>, p)
    BY RangeOfEmpty, PackedEmpty DEF AllowedEvidence

LEMMA NoAttempts == 0 \in 0..MaxAttempts - 1
    BY AssistantAssumption

LEMMA RequestStart == Init => RequestInv
<1> SUFFICES ASSUME Init PROVE RequestInv
    OBVIOUS
<1>1. /\ active = Sources /\ pc = "idle" /\ plan = NoPlan /\ matched = {} /\ evidence = <<>>
      /\ approved = {} /\ hits = <<>> /\ fetched = <<>> /\ attempts = 0
      /\ outcome.kind \in Kinds
    BY DEF Init, Closed, Outcome, Kinds
<1>2. RequestTypes
    BY <1>1, EmptyEvidence, NoAttempts DEF RequestTypes
<1>3. RequestPhases /\ PagesApproved
    BY <1>1 DEF RequestPhases, PagesApproved
<1>4. EvidenceInv
    BY <1>1, EmptyEvidence DEF EvidenceInv, CorrectionsWin
<1>5. QED
    BY <1>2, <1>3, <1>4 DEF RequestInv

\* Every way to end a request leaves nothing of it.
LEMMA FinishInv ==
    ASSUME RequestInv, NEW result, result.kind \in Kinds, Finish(result)
    PROVE  RequestInv'
<1>1. /\ active' \subseteq Sources /\ pc' = "idle" /\ plan' = NoPlan /\ matched' = {}
      /\ evidence' = <<>> /\ approved' = {} /\ hits' = <<>> /\ fetched' = <<>>
      /\ attempts' = 0 /\ outcome'.kind \in Kinds
    BY DEF Finish, RequestInv, RequestTypes
<1>2. RequestTypes'
    BY <1>1, EmptyEvidence, NoAttempts DEF RequestTypes
<1>3. RequestPhases' /\ PagesApproved'
    BY <1>1 DEF RequestPhases, PagesApproved
<1>4. EvidenceInv'
    <2>1. Packed(evidence') /\ AllowedEvidence(evidence', plan')
        BY <1>1, EmptyEvidence
    <2>2. QED
        BY <1>1, <2>1 DEF EvidenceInv, CorrectionsWin, Packed, AllowedEvidence
<1>5. QED
    BY <1>2, <1>3, <1>4 DEF RequestInv

LEMMA ClosedInv ==
    ASSUME RequestInv, NEW kind \in Kinds, Finish(Closed(kind))
    PROVE  RequestInv'
<1>1. Closed(kind).kind \in Kinds
    BY DEF Closed, Outcome
<1>2. QED
    BY <1>1, FinishInv

LEMMA CoveredUnchanged ==
    ASSUME UNCHANGED approved, NEW k, Covered(k)
    PROVE  Covered(k)'
    BY DEF Covered

\* Steps that leave the request alone.
LEMMA OtherStepInv ==
    ASSUME RequestInv, active' \subseteq Sources, outcome'.kind \in Kinds,
           UNCHANGED <<pc, plan, matched, web, evidence, attempts>>
    PROVE  RequestInv'
<1>1. UNCHANGED <<pc, plan, matched, approved, hits, fetched, evidence, attempts>>
    BY DEF web
<1>2. RequestTypes'
    BY <1>1 DEF RequestInv, RequestTypes
<1>3. RequestPhases'
    BY <1>1 DEF RequestInv, RequestPhases
<1>4. PagesApproved'
    BY <1>1 DEF RequestInv, PagesApproved, Covered
<1>5. EvidenceInv'
    BY <1>1 DEF RequestInv, EvidenceInv, Packed, AllowedEvidence, CorrectionsWin
<1>6. QED
    BY <1>2, <1>3, <1>4, <1>5 DEF RequestInv

LEMMA AskInv ==
    ASSUME ConversationInv, RequestInv, NEW q \in Questions,
           NEW requested \in [RetrievalFields -> Values \cup {NoFact}],
           NEW stateful \in BOOLEAN, Ask(q, requested, stateful)
    PROVE  RequestInv'
<1>1. CASE q.delimiter
    <2>1. Finish(Closed("control_delimiter"))
        BY <1>1 DEF Ask
    <2>2. QED
        BY <2>1, ClosedInv DEF Kinds
<1>2. CASE ~q.delimiter /\ ~InScope(q)
    <2>1. Finish(Closed("out_of_scope"))
        BY <1>2 DEF Ask
    <2>2. QED
        BY <2>1, ClosedInv DEF Kinds
<1>3. CASE ~q.delimiter /\ InScope(q)
    <2>1. /\ pc = "idle" /\ pc' = "retrieve"
          /\ outcome' = Closed("none")
          /\ plan' = [language |-> q.language, intent |-> q.intent, stateful |-> stateful,
                      applicability |-> IF stateful THEN Resolve(requested, memory)
                                                    ELSE requested]
          /\ UNCHANGED <<active, matched, web, evidence, attempts>>
        BY <1>3 DEF Ask
    <2>2. memory \in States
        BY DEF ConversationInv, Sound
    <2>3. Resolve(requested, memory) \in [RetrievalFields -> Values \cup {NoFact}]
        BY <2>2, ResolveType
    <2>4. plan' \in Plans
        BY <2>1, <2>3 DEF Plans, Questions
    <2>5. outcome'.kind \in Kinds
        BY <2>1 DEF Closed, Outcome, Kinds
    <2>6. /\ UNCHANGED <<active, matched, approved, hits, fetched, evidence, attempts>>
          /\ matched = {} /\ evidence = <<>> /\ fetched = <<>>
        BY <2>1 DEF web, RequestInv, RequestPhases
    <2>7. RequestTypes'
        BY <2>1, <2>4, <2>5, <2>6 DEF RequestInv, RequestTypes
    <2>8. RequestPhases' /\ PagesApproved'
        BY <2>1, <2>4, <2>6 DEF RequestPhases, PagesApproved
    <2>9. EvidenceInv'
        <3>1. Packed(evidence') /\ AllowedEvidence(evidence', plan')
            BY <2>6, EmptyEvidence
        <3>2. QED
            BY <2>6, <3>1 DEF EvidenceInv, CorrectionsWin, Packed, AllowedEvidence
    <2>10. QED
        BY <2>7, <2>8, <2>9 DEF RequestInv
<1>4. QED
    BY <1>1, <1>2, <1>3

\* The pack of the retrieval: matching chunks, of which the corrections have
\* displaced what they correct.
LEMMA RetrieveInv == RequestInv /\ Retrieve => RequestInv'
<1> SUFFICES ASSUME RequestInv, Retrieve PROVE RequestInv'
    OBVIOUS
<1>1. /\ pc = "retrieve"
      /\ pc' \in {"web", "orchestrate"} /\ (pc' = "web" => evidence' = <<>>)
      /\ UNCHANGED <<active, plan, approved, hits, fetched, attempts, outcome>>
    BY DEF Retrieve, web
<1>2. PICK chunks \in SUBSET Retrievable(plan) : \E r \in Rankings(chunks) :
          matched' = chunks /\ evidence' = Build(Retrieved(r, plan))
    BY DEF Retrieve
<1>3. PICK r \in Rankings(chunks) :
          matched' = chunks /\ evidence' = Build(Retrieved(r, plan))
    BY <1>2
<1>4. chunks \in SUBSET Chunks
    BY DEF Retrievable
<1> DEFINE found == Retrieved(r, plan)
<1>5. /\ found \in Seq(Chunks)
      /\ \A k \in Range(found) : MatchesPlan(k, plan)
      /\ \A c \in chunks, k \in Range(found) :
            InfoOf[c].correction /\ MatchesPlan(c, plan) /\ ~InfoOf[k].correction =>
                InfoOf[c].sources \cap InfoOf[k].sources = {}
    BY <1>4, RetrievedFacts
<1> HIDE DEF found
<1>6. /\ evidence' \in Seq(Chunks) /\ Range(evidence') \subseteq Range(found)
      /\ Packed(evidence')
    BY <1>3, <1>5, BuildFacts DEF found, Items
<1>7. evidence' \in Seq(Items) /\ Range(evidence') \subseteq Chunks
    BY <1>6, SeqMonotonic, RangeOfSeq DEF Items
<1>8. AllowedEvidence(evidence', plan)
    <2>1. ASSUME NEW k \in Range(evidence') PROVE ChunkAllowed(k, plan)
        <3>1. k \in Chunks /\ MatchesPlan(k, plan)
            BY <1>5, <1>6, <1>7
        <3>2. \A s \in InfoOf[k].sources : TierOf[s] \in AllowedTiers(plan)
            BY <3>1, PlanTiers
        <3>3. QED
            BY <3>1, <3>2 DEF MatchesPlan, ChunkAllowed
    <2>2. Range(evidence') \cap Pages = {}
        BY <1>7, AssistantAssumption
    <2>3. QED
        BY <2>1, <2>2 DEF AllowedEvidence
<1>9. RequestTypes'
    BY <1>1, <1>3, <1>4, <1>7 DEF RequestInv, RequestTypes
<1>10. RequestPhases' /\ PagesApproved'
    BY <1>1 DEF RequestInv, RequestPhases, PagesApproved
<1>11. CorrectionsWin'
    BY <1>1, <1>3, <1>5, <1>6 DEF CorrectionsWin, MatchesPlan, AllowedTiers, HighRisk
<1>12. EvidenceInv'
    BY <1>1, <1>6, <1>8, <1>11 DEF EvidenceInv, Packed, AllowedEvidence
<1>13. QED
    BY <1>9, <1>10, <1>12 DEF RequestInv

LEMMA ReadApprovedInv == RequestInv /\ ReadApproved => RequestInv'
<1> SUFFICES ASSUME RequestInv, ReadApproved PROVE RequestInv'
    OBVIOUS
<1>1. /\ pc = "web" /\ pc' \in {"search", "orchestrate"}
      /\ approved' \subseteq active /\ \A s \in approved' : TierOf[s] \in AllowedTiers(plan)
      /\ matched' = {}
      /\ UNCHANGED <<active, plan, hits, fetched, evidence, attempts, outcome>>
    BY DEF ReadApproved
<1>2. RequestTypes'
    BY <1>1 DEF RequestInv, RequestTypes
<1>3. RequestPhases'
    BY <1>1 DEF RequestInv, RequestPhases
<1>4. PagesApproved'
    BY <1>1 DEF PagesApproved, AllowedTiers, HighRisk
<1>5. EvidenceInv'
    BY <1>1 DEF RequestInv, EvidenceInv, Packed, AllowedEvidence, CorrectionsWin
<1>6. QED
    BY <1>2, <1>3, <1>4, <1>5 DEF RequestInv

LEMMA SearchWebInv == RequestInv /\ SearchWeb => RequestInv'
<1> SUFFICES ASSUME RequestInv, SearchWeb PROVE RequestInv'
    OBVIOUS
<1>1. /\ pc = "search" /\ pc' = (IF hits' = <<>> THEN "orchestrate" ELSE "fetch")
      /\ UNCHANGED <<active, plan, matched, approved, fetched, evidence, attempts, outcome>>
    BY DEF SearchWeb
<1>2. PICK found \in {S \in SUBSET Pages : Cardinality(S) <= MaxSources} :
          (\A k \in found : Covered(k)) /\ hits' \in SetToSeqs(found)
    BY DEF SearchWeb
<1>3. IsFiniteSet(found) /\ Cardinality(found) \in Nat
    BY AssistantAssumption, FS_Subset, FS_CardinalityType
<1>4. hits' \in Seq(Pages) /\ Range(hits') \subseteq found
    <2> DEFINE n == Cardinality(found)
    <2>1. hits' \in [1..n -> found]
        BY <1>2 DEF SetToSeqs
    <2>2. n \in Nat
        BY <1>3
    <2> HIDE DEF n
    <2>3. QED
        BY <2>1, <2>2 DEF Range
<1>5. RequestTypes'
    BY <1>1, <1>4 DEF RequestInv, RequestTypes
<1>6. RequestPhases'
    BY <1>1 DEF RequestInv, RequestPhases
<1>7. PagesApproved'
    <2>1. fetched' = <<>>
        BY <1>1 DEF RequestInv, RequestPhases
    <2>2. \A k \in Range(hits') \cup Range(fetched') : Covered(k)'
        BY <1>1, <1>2, <1>4, <2>1, RangeOfEmpty, CoveredUnchanged
    <2>3. QED
        BY <1>1, <2>2 DEF RequestInv, PagesApproved
<1>8. EvidenceInv'
    BY <1>1 DEF RequestInv, EvidenceInv, Packed, AllowedEvidence, CorrectionsWin
<1>9. QED
    BY <1>5, <1>6, <1>7, <1>8 DEF RequestInv

\* The pack of the web fallback: pages of approved sources.  No chunk is in it,
\* so nothing that a correction corrects is.
LEMMA FetchPageInv == RequestInv /\ FetchPage => RequestInv'
<1> SUFFICES ASSUME RequestInv, FetchPage PROVE RequestInv'
    OBVIOUS
<1>1. /\ pc = "fetch" /\ hits' = Tail(hits)
      /\ fetched' \in {fetched, Append(fetched, Head(hits))}
      /\ IF hits' = <<>> THEN evidence' = Build(fetched') /\ pc' = "orchestrate"
                         ELSE UNCHANGED <<evidence, pc>>
      /\ UNCHANGED <<active, plan, matched, approved, attempts, outcome>>
    BY DEF FetchPage
<1>2. /\ hits \in Seq(Pages) /\ hits # <<>> /\ fetched \in Seq(Pages) /\ evidence = <<>>
      /\ \A k \in Range(hits) \cup Range(fetched) : Covered(k)
      /\ \A s \in approved : TierOf[s] \in AllowedTiers(plan)
    BY <1>1 DEF RequestInv, RequestTypes, RequestPhases, PagesApproved
<1>3. Head(hits) \in Range(hits) /\ Head(hits) \in Pages
    BY <1>2 DEF Range
<1>4. Tail(hits) \in Seq(Pages) /\ Range(Tail(hits)) \subseteq Range(hits)
    <2>1. /\ Tail(hits) \in Seq(Pages) /\ Len(Tail(hits)) = Len(hits) - 1 /\ Len(hits) \in Nat
          /\ \A i \in 1..Len(Tail(hits)) : Tail(hits)[i] = hits[i + 1]
        BY <1>2, HeadTailProperties
    <2>2. DOMAIN hits = 1..Len(hits) /\ DOMAIN Tail(hits) = 1..Len(Tail(hits))
        BY <1>2, <2>1
    <2>3. \A i \in 1..Len(Tail(hits)) : i + 1 \in 1..Len(hits)
        BY <2>1
    <2>4. QED
        BY <2>1, <2>2, <2>3 DEF Range
<1>5. fetched' \in Seq(Pages) /\ Range(fetched') \subseteq Range(fetched) \cup {Head(hits)}
    <2> DEFINE k == Head(hits)
    <2>1. k \in Pages
        BY <1>3
    <2>2. fetched' = fetched \/ fetched' = Append(fetched, k)
        BY <1>1
    <2> HIDE DEF k
    <2>3. Append(fetched, k) \in Seq(Pages) /\ Range(Append(fetched, k)) = Range(fetched) \cup {k}
        BY <1>2, <2>1, RangeOfAppend
    <2>4. fetched' \in Seq(Pages) /\ Range(fetched') \subseteq Range(fetched) \cup {k}
        BY <1>2, <2>2, <2>3
    <2>5. QED
        BY <2>4 DEF k
<1>6. \A k \in Range(hits') \cup Range(fetched') : Covered(k)
    BY <1>1, <1>2, <1>3, <1>4, <1>5
<1>7. Build(fetched') \in Seq(Pages) /\ Range(Build(fetched')) \subseteq Range(fetched')
      /\ Packed(Build(fetched'))
    <2>1. Pages \in SUBSET Items
        BY DEF Items
    <2>2. QED
        BY <1>5, <2>1, BuildFacts
<1>8. /\ evidence' \in Seq(Pages) /\ Range(evidence') \subseteq Range(fetched')
      /\ Packed(evidence')
    <2>1. CASE hits' = <<>>
        BY <1>1, <1>7, <2>1
    <2>2. CASE hits' # <<>>
        <3>1. evidence' = <<>>
            BY <1>1, <1>2, <2>2
        <3>2. QED
            BY <3>1, EmptyEvidence
    <2>3. QED
        BY <2>1, <2>2
<1>9. Range(evidence') \subseteq Pages /\ evidence' \in Seq(Items)
    BY <1>8, SeqMonotonic, RangeOfSeq DEF Items
<1>10. AllowedEvidence(evidence', plan)
    <2>1. ASSUME NEW k \in Range(evidence') PROVE \E s \in InfoOf[k].sources : TierOf[s] \in AllowedTiers(plan)
        BY <1>2, <1>6, <1>8 DEF Covered
    <2>2. Range(evidence') \cap Chunks = {}
        BY <1>9, AssistantAssumption
    <2>3. QED
        BY <2>1, <2>2 DEF AllowedEvidence
<1>11. RequestTypes'
    BY <1>1, <1>4, <1>5, <1>9 DEF RequestInv, RequestTypes
<1>12. RequestPhases'
    BY <1>1 DEF RequestInv, RequestPhases
<1>13. PagesApproved'
    <2>1. \A k \in Range(hits') \cup Range(fetched') : Covered(k)'
        BY <1>1, <1>6, CoveredUnchanged
    <2>2. \A s \in approved' : TierOf[s] \in AllowedTiers(plan')
        BY <1>1, <1>2
    <2>3. QED
        BY <2>1, <2>2 DEF PagesApproved, AllowedTiers, HighRisk
<1>14. CorrectionsWin'
    <2>1. matched' \cap Range(evidence') = {}
        BY <1>1, <1>9, AssistantAssumption DEF RequestInv, RequestTypes
    <2>2. QED
        BY <2>1 DEF CorrectionsWin
<1>15. EvidenceInv'
    BY <1>1, <1>8, <1>10, <1>14 DEF EvidenceInv, Packed, AllowedEvidence
<1>16. QED
    BY <1>11, <1>12, <1>13, <1>15 DEF RequestInv

LEMMA OrchestrateInv == RequestInv /\ Orchestrate => RequestInv'
<1> SUFFICES ASSUME RequestInv, Orchestrate PROVE RequestInv'
    OBVIOUS
<1>1. CASE \/ Finish(Closed("insufficient"))
           \/ Finish(Closed("clarification"))
    BY <1>1, ClosedInv DEF Kinds
<1>2. CASE /\ pc = "orchestrate" /\ pc' = "generate"
           /\ matched' = {} /\ approved' = {} /\ fetched' = <<>>
           /\ UNCHANGED <<active, plan, hits, evidence, attempts, outcome, conversationVars>>
    <2>1. RequestTypes'
        BY <1>2, EmptyEvidence DEF RequestInv, RequestTypes
    <2>2. RequestPhases' /\ PagesApproved'
        BY <1>2 DEF RequestInv, RequestPhases, PagesApproved
    <2>3. EvidenceInv'
        BY <1>2 DEF RequestInv, EvidenceInv, Packed, AllowedEvidence, CorrectionsWin
    <2>4. QED
        BY <2>1, <2>2, <2>3 DEF RequestInv
<1>3. QED
    BY <1>1, <1>2 DEF Orchestrate

LEMMA GenerateInv ==
    RequestInv /\ (GatewayRefuses \/ RetryableFailure \/ FatalFailure \/ ModelAnswers)
        => RequestInv'
<1> SUFFICES ASSUME RequestInv,
                    GatewayRefuses \/ RetryableFailure \/ FatalFailure \/ ModelAnswers
             PROVE  RequestInv'
    OBVIOUS
<1>1. ASSUME Finish(Closed("insufficient")) PROVE RequestInv'
    BY <1>1, ClosedInv DEF Kinds
<1>2. CASE GatewayRefuses \/ FatalFailure
    BY <1>1, <1>2 DEF GatewayRefuses, FatalFailure
<1>3. CASE RetryableFailure
    <2>1. CASE ~(attempts + 1 < MaxAttempts)
        BY <1>1, <1>3, <2>1 DEF RetryableFailure
    <2>2. CASE attempts + 1 < MaxAttempts
        <3>1. /\ pc = "generate" /\ attempts' = attempts + 1
              /\ UNCHANGED <<active, pc, plan, matched, approved, hits, fetched, evidence, outcome>>
            BY <1>3, <2>2 DEF RetryableFailure, AttemptAgain, web
        <3>2. attempts' \in 0..MaxAttempts - 1
            BY <2>2, <3>1, AssistantAssumption DEF RequestInv, RequestTypes
        <3>3. RequestTypes'
            BY <3>1, <3>2 DEF RequestInv, RequestTypes
        <3>4. RequestPhases' /\ PagesApproved'
            BY <3>1 DEF RequestInv, RequestPhases, PagesApproved
        <3>5. EvidenceInv'
            BY <3>1 DEF RequestInv, EvidenceInv, Packed, AllowedEvidence, CorrectionsWin
        <3>6. QED
            BY <3>3, <3>4, <3>5 DEF RequestInv
    <2>3. QED
        BY <2>1, <2>2
<1>4. CASE ModelAnswers
    <2>1. PICK a \in RawAnswers(evidence) :
              Finish(IF Accepted(a, evidence, plan) = {} THEN Closed("insufficient")
                     ELSE Outcome("accepted", UNION {b.claims : b \in Accepted(a, evidence, plan)},
                                  evidence, HighRisk(plan)))
        BY <1>4 DEF ModelAnswers
    <2>2. CASE Accepted(a, evidence, plan) = {}
        BY <1>1, <2>1, <2>2
    <2>3. CASE Accepted(a, evidence, plan) # {}
        <3> DEFINE result == Outcome("accepted",
                                     UNION {b.claims : b \in Accepted(a, evidence, plan)},
                                     evidence, HighRisk(plan))
        <3>1. result.kind \in Kinds
            BY DEF Outcome, Kinds
        <3>2. Finish(result)
            BY <2>1, <2>3
        <3> HIDE DEF result
        <3>3. QED
            BY <3>1, <3>2, FinishInv
    <2>4. QED
        BY <2>2, <2>3
<1>5. QED
    BY <1>2, <1>3, <1>4

LEMMA RequestNext == AssistantInv /\ [Next]_vars => RequestInv'
<1> SUFFICES ASSUME AssistantInv, [Next]_vars PROVE RequestInv'
    OBVIOUS
<1>1. ConversationInv /\ RequestInv
    BY DEF AssistantInv
<1>2. active \subseteq Sources /\ outcome.kind \in Kinds
    BY <1>1 DEF RequestInv, RequestTypes
<1>3. CASE UNCHANGED vars
    BY <1>1, <1>2, <1>3, OtherStepInv DEF vars, request
<1>4. ASSUME NEW q \in Questions, NEW requested \in [RetrievalFields -> Values \cup {NoFact}],
             NEW stateful \in BOOLEAN, Ask(q, requested, stateful)
      PROVE  RequestInv'
    BY <1>1, <1>4, AskInv
<1>5. CASE Pipeline
    BY <1>1, <1>5, RetrieveInv, ReadApprovedInv, SearchWebInv, FetchPageInv, OrchestrateInv,
       GenerateInv DEF Pipeline
<1>6. ASSUME NEW s \in Sources, SwitchSource(s) PROVE RequestInv'
    BY <1>1, <1>2, <1>6, OtherStepInv DEF SwitchSource, request
<1>7. CASE UpdateConversation
    <2>1. outcome'.kind \in Kinds
        BY <1>7 DEF UpdateConversation, Closed, Outcome, Kinds
    <2>2. QED
        BY <1>1, <1>2, <1>7, <2>1, OtherStepInv DEF UpdateConversation
<1>8. QED
    BY <1>3, <1>4, <1>5, <1>6, <1>7 DEF Next

\* Its steps are the lemmas above: one per action.
THEOREM AssistantInvariant == Spec => []AssistantInv
<1>1. Init => AssistantInv
    BY RequestStart, ConversationStart DEF Init, AssistantInv
<1>2. AssistantInv /\ [Next]_vars => AssistantInv'
    <2>1. AssistantInv /\ [Next]_vars => RequestInv'
        BY RequestNext
    <2>2. AssistantInv /\ [Next]_vars => ConversationInv'
        BY ConversationKept DEF AssistantInv
    <2>3. QED
        BY <2>1, <2>2 DEF AssistantInv
<1>3. QED
    BY <1>1, <1>2, PTL DEF Spec

\* Variables keep their types: the attempts stay below the limit of the route.
THEOREM TypeCorrect == Spec => []TypeOK
<1>1. AssistantInv => TypeOK
    <2> SUFFICES ASSUME AssistantInv PROVE TypeOK
        OBVIOUS
    <2>1. ConversationTypeOK
        BY DEF AssistantInv, ConversationInv, Sound, ConversationTypeOK
    <2>2. RequestTypes
        BY DEF AssistantInv, RequestInv
    <2>3. Range(hits) \cup Range(fetched) \subseteq Pages
        BY <2>2, RangeOfSeq DEF RequestTypes
    <2>4. Range(evidence) \subseteq Chunks \cup Pages
        BY <2>2, RangeOfSeq DEF RequestTypes, Items
    <2>5. QED
        BY <2>1, <2>2, <2>3, <2>4 DEF RequestTypes, TypeOK
<1>2. QED
    BY <1>1, AssistantInvariant, PTL

\* A correction that applies to the user is never cut off by a limit while what it
\* corrects stays in the evidence.
THEOREM CorrectionsAlwaysWin == Spec => []CorrectionsWin
<1>1. AssistantInv => CorrectionsWin
    BY DEF AssistantInv, RequestInv, EvidenceInv
<1>2. QED
    BY <1>1, AssistantInvariant, PTL

\* What the model is given is cited and gives no instructions; its chunks are of
\* the plan's language and domains, apply to the user, and like its pages are of
\* the allowed trust tiers; its bodies are distinct, and the limits of items and of
\* characters are kept.
THEOREM EvidenceAlwaysAllowed == Spec => []EvidenceAllowed
<1>1. AssistantInv => EvidenceAllowed
    BY DEF AssistantInv, RequestInv, EvidenceInv, Packed, AllowedEvidence, ChunkAllowed,
       EvidenceAllowed
<1>2. QED
    BY <1>1, AssistantInvariant, PTL

\* A step of a request leaves it fewer steps; all others leave the request alone.
LEMMA StepDown ==
    ASSUME RequestInv, pc # "idle", [Next]_vars
    PROVE  StepsLeft' < StepsLeft \/ UNCHANGED request
<1>1. /\ MaxAttempts \in Nat /\ MaxSources \in Nat
      /\ attempts \in 0..MaxAttempts - 1
      /\ hits \in Seq(Pages) /\ Len(hits) \in Nat
      /\ pc \in {"retrieve", "web", "search", "fetch", "orchestrate", "generate"}
      /\ pc = "fetch" => hits # <<>>
    BY AssistantAssumption DEF RequestInv, RequestTypes, RequestPhases
<1>2. ASSUME pc' = "idle"
      PROVE  StepsLeft' < StepsLeft
    BY <1>1, <1>2 DEF StepsLeft
<1>3. CASE Retrieve \/ ReadApproved
    BY <1>1, <1>3 DEF Retrieve, ReadApproved, StepsLeft
<1>4. CASE SearchWeb
    <2>1. PICK found \in {S \in SUBSET Pages : Cardinality(S) <= MaxSources} :
              hits' \in SetToSeqs(found)
        BY <1>4 DEF SearchWeb
    <2>2. Cardinality(found) \in Nat
        BY AssistantAssumption, FS_Subset, FS_CardinalityType
    <2>3. hits' \in [1..Cardinality(found) -> found]
        BY <2>1 DEF SetToSeqs
    <2>4. Len(hits') = Cardinality(found)
        BY <2>2, <2>3
    <2>5. Len(hits') \in Nat /\ Len(hits') <= MaxSources
        BY <2>1, <2>2, <2>4
    <2>6. pc = "search" /\ pc' \in {"orchestrate", "fetch"}
        BY <1>4 DEF SearchWeb
    <2>7. QED
        BY <1>1, <2>5, <2>6 DEF StepsLeft
<1>5. CASE FetchPage
    <2>1. Len(hits') = Len(hits) - 1 /\ Len(hits) > 0
        BY <1>1, <1>5 DEF FetchPage
    <2>2. pc = "fetch" /\ pc' \in {"orchestrate", "fetch"}
        BY <1>5 DEF FetchPage
    <2>3. QED
        BY <1>1, <2>1, <2>2 DEF StepsLeft
<1>6. CASE Orchestrate
    <2>1. CASE pc' = "idle"
        BY <1>2, <2>1
    <2>2. CASE pc' # "idle"
        <3>1. pc = "orchestrate" /\ pc' = "generate" /\ attempts' = attempts
            BY <1>6, <2>2 DEF Orchestrate, Finish
        <3>2. QED
            BY <1>1, <3>1 DEF StepsLeft
    <2>3. QED
        BY <2>1, <2>2
<1>7. CASE RetryableFailure
    <2>1. CASE pc' = "idle"
        BY <1>2, <2>1
    <2>2. CASE pc' # "idle"
        <3>1. pc = "generate" /\ pc' = pc /\ attempts' = attempts + 1
            BY <1>7, <2>2 DEF RetryableFailure, Finish, AttemptAgain
        <3>2. QED
            BY <1>1, <3>1 DEF StepsLeft
    <2>3. QED
        BY <2>1, <2>2
<1>8. CASE GatewayRefuses \/ FatalFailure \/ ModelAnswers
    BY <1>2, <1>8 DEF GatewayRefuses, FatalFailure, ModelAnswers, Finish
<1>9. CASE (\E s \in Sources : SwitchSource(s)) \/ UNCHANGED vars
    BY <1>9 DEF SwitchSource, vars
<1>10. QED
    BY <1>3, <1>4, <1>5, <1>6, <1>7, <1>8, <1>9 DEF Next, Ask, UpdateConversation, Pipeline

\* No failure, retry or change of a source prolongs a request.
THEOREM RequestsRunOutOfSteps == Spec => StepsRunOut
<1>1. AssistantInv /\ [Next]_vars
        => [pc # "idle" => StepsLeft' < StepsLeft \/ UNCHANGED request]_vars
    BY StepDown DEF AssistantInv
<1>2. QED
    BY <1>1, AssistantInvariant, PTL DEF Spec, StepsRunOut

\* No list of updates, in any order, makes apply raise on its own result.
THEOREM UpdatesStayValid == Spec => []AppliedStatesValid
<1>1. AssistantInv => AppliedStatesValid
    BY DEF AssistantInv, ConversationInv, Sound, AppliedStatesValid
<1>2. QED
    BY <1>1, AssistantInvariant, PTL

=============================================================================

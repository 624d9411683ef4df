---------------------- MODULE MutableBufferList_proofs ----------------------
(***************************************************************************)
(* Facts about the list of MutableBuffer.  b is a list when its clusters,  *)
(* each handed out once, follow one another from pStart (Linked); its      *)
(* contents are what they hold, one behind the other (Cat).  A call under  *)
(* way stands at a place of the list, which divides clusters and bytes     *)
(* into those before it and those behind it (Standing).  What the code     *)
(* does to clusters and links is stated here once for all calls.           *)
(***************************************************************************)
EXTENDS MutableBuffer, FiniteSetTheorems, SequenceTheorems, WellFoundedInduction, TLAPS

(* Numbers, and functions that recurse *)

\* What holds of 0, and of n + 1 when of n, holds of every number.
LEMMA CountUp ==
    ASSUME NEW G, G \subseteq Nat, 0 \in G, \A n \in G : n + 1 \in G
    PROVE  Nat \subseteq G
<1> SUFFICES ASSUME Nat \ G # {} PROVE FALSE
    OBVIOUS
<1>1. PICK m \in Nat \ G : \A k \in Nat \ G : ~(<<k, m>> \in OpToRel(<, Nat))
    BY NatLessThanWellFounded, WFMin
<1>2. \A k \in Nat \ G : ~(k < m)
    BY <1>1 DEF OpToRel
<1>3. m # 0 /\ m - 1 \in Nat /\ m - 1 < m
    OBVIOUS
<1>4. m - 1 \in G
    BY <1>2, <1>3
<1> QED BY <1>3, <1>4

\* f recurses in its last step only, until it reaches stop.
Recurses(f, D, stop, val, next) == f = [x \in D |-> IF x \in stop THEN val[x] ELSE f[next[x]]]

\* Such a function exists: its value at x is the one at the end of the chain of calls.
LEMMA TailRecursion ==
    ASSUME NEW D, NEW stop, NEW val, NEW next, \A x \in D : x \notin stop => next[x] \in D
    PROVE  \E f : Recurses(f, D, stop, val, next)
<1> DEFINE Closed(S) == \A x \in S : x \notin stop => next[x] \in S
           Ends0(x) == {y \in D \cap stop : \A S \in SUBSET D : x \in S /\ Closed(S) => y \in S}
           End0(x) == CHOOSE y : y \in Ends0(x)
           f == [x \in D |-> val[End0(x)]]
<1>1. ASSUME NEW x \in D, x \in stop PROVE Ends0(x) = {x}
    <2>1. {x} \in SUBSET D /\ x \in {x} /\ Closed({x})
        BY <1>1
    <2> QED BY <2>1, <1>1
<1>2. ASSUME NEW x \in D, x \notin stop PROVE Ends0(x) = Ends0(next[x])
    <2>1. ASSUME NEW y \in D \cap stop, NEW S \in SUBSET D, x \in S, Closed(S), y \in Ends0(next[x])
          PROVE  y \in S
        <3>1. next[x] \in S
            BY <1>2, <2>1
        <3> QED BY <2>1, <3>1
    <2>2. ASSUME NEW y \in D \cap stop, NEW S \in SUBSET D, next[x] \in S, Closed(S), y \in Ends0(x)
          PROVE  y \in S
        <3>1. S \cup {x} \in SUBSET D /\ x \in S \cup {x} /\ Closed(S \cup {x})
            BY <2>2
        <3>2. y \in S \cup {x}
            BY <2>2, <3>1
        <3> QED BY <1>2, <2>2, <3>2
    <2> QED BY <2>1, <2>2
<1>3. ASSUME NEW x \in D, x \in stop PROVE End0(x) = x
    BY <1>1, <1>3
<1>4. ASSUME NEW x \in D, x \notin stop PROVE End0(x) = End0(next[x])
    BY <1>2, <1>4
<1> HIDE DEF End0
<1>5. ASSUME NEW x \in D PROVE f[x] = IF x \in stop THEN val[x] ELSE f[next[x]]
    <2>1. CASE x \in stop
        BY <2>1, <1>3
    <2>2. CASE x \notin stop
        <3>1. next[x] \in D
            BY <2>2
        <3>2. f[next[x]] = val[End0(next[x])] /\ f[x] = val[End0(x)]
            BY <3>1
        <3> QED BY <2>2, <3>2, <1>4
    <2> QED BY <2>1, <2>2
<1>6. PICK g : g = f
    OBVIOUS
<1>7. g = [x \in D |-> g[x]] /\ \A x \in D : g[x] = IF x \in stop THEN val[x] ELSE g[next[x]]
    BY <1>5, <1>6
<1> HIDE DEF f
<1>8. Recurses(g, D, stop, val, next)
    BY <1>7 DEF Recurses
<1> QED BY <1>8

\* The least and the greatest of two.
LEMMA MinMax ==
    \A a, b \in Int : Min({a, b}) = (IF a <= b THEN a ELSE b) /\ Max({a, b}) = (IF a >= b THEN a ELSE b)
BY DEF Min, Max

-----------------------------------------------------------------------------
(* Sequences, one behind the other *)

\* s \o t, not to be looked into.
s ++ t == s \o t

\* What comes of two sequences.
LEMMA JoinIs ==
    ASSUME NEW S, NEW x \in Seq(S), NEW y \in Seq(S)
    PROVE  /\ x ++ y \in Seq(S) /\ Len(x ++ y) = Len(x) + Len(y)
           /\ x ++ <<>> = x /\ <<>> ++ x = x
           /\ \A i \in 1 .. Len(x) : (x ++ y)[i] = x[i]
           /\ \A i \in 1 .. Len(y) : (x ++ y)[Len(x) + i] = y[i]
BY ConcatEmptySeq DEF ++

\* Only the type and the length of it.
LEMMA JoinLen ==
    ASSUME NEW S, NEW x \in Seq(S), NEW y \in Seq(S)
    PROVE  x ++ y \in Seq(S) /\ Len(x ++ y) = Len(x) + Len(y)
BY JoinIs

\* The empty sequence, not to be looked into.
Nil == <<>>

\* Nothing else is of length 0.
LEMMA NilIs ==
    ASSUME NEW S
    PROVE  Nil \in Seq(S) /\ Len(Nil) = 0 /\ \A s \in Seq(S) : Len(s) \in Nat /\ (Len(s) = 0 <=> s = Nil)
BY EmptySeq DEF Nil

\* Nothing is added by it.
LEMMA JoinNone ==
    ASSUME NEW S, NEW x \in Seq(S)
    PROVE  x ++ Nil = x /\ Nil ++ x = x
BY ConcatEmptySeq DEF ++, Nil

\* The sequence of u alone, not to be looked into.
One(u) == <<u>>

\* Its type, its length and its element.
LEMMA OneIs ==
    ASSUME NEW S, NEW u \in S
    PROVE  One(u) \in Seq(S) /\ Len(One(u)) = 1 /\ One(u)[1] = u /\ One(u) # Nil
BY DEF One, Nil

\* Where the pieces are joined first does not matter.
LEMMA JoinAssociative ==
    ASSUME NEW S, NEW x \in Seq(S), NEW y \in Seq(S), NEW z \in Seq(S)
    PROVE  (x ++ y) ++ z = x ++ (y ++ z)
BY DEF ++

\* f[i] is what the first i of ss come to.
Sums(ss, f) ==
    /\ f[0] = <<>>
    /\ \A i \in 0 .. Len(ss) - 1 : f[i + 1] = f[i] ++ ss[i + 1]

\* FlattenSeq adds up from the front.
LEMMA FlattenIs ==
    ASSUME NEW S, NEW ss \in Seq(Seq(S))
    PROVE  \E f : Sums(ss, f) /\ FlattenSeq(ss) = f[Len(ss)]
<1>1. CASE Len(ss) = 0
    <2>1. FlattenSeq(ss) = <<>>
        BY <1>1 DEF FlattenSeq
    <2> DEFINE f == [i \in {0} |-> <<>>]
    <2>2. Sums(ss, f) /\ FlattenSeq(ss) = f[Len(ss)]
        BY <1>1, <2>1 DEF Sums
    <2> QED BY <2>2
<1>2. CASE Len(ss) # 0
    <2> DEFINE Eq(f, n) == f = [i \in 1 .. n |-> IF i = 1 THEN ss[i] ELSE f[i - 1] ++ ss[i]]
               G == {n \in Nat : \E f : Eq(f, n)}
    <2>1. 0 \in G
        <3>1. \E f : f = [i \in 1 .. 0 |-> <<>>]
            OBVIOUS
        <3>2. PICK f : f = [i \in 1 .. 0 |-> <<>>]
            BY <3>1
        <3>3. Eq(f, 0)
            BY <3>2
        <3> QED BY <3>3
    <2>2. ASSUME NEW n \in G PROVE n + 1 \in G
        <3>1. PICK f : Eq(f, n)
            OBVIOUS
        <3>2. PICK g : g = [i \in 1 .. n + 1 |-> IF i <= n THEN f[i] ELSE IF i = 1 THEN ss[i] ELSE f[i - 1] ++ ss[i]]
            OBVIOUS
        <3>3. /\ g = [i \in 1 .. n + 1 |-> g[i]]
              /\ \A i \in 1 .. n + 1 : g[i] = IF i = 1 THEN ss[i] ELSE g[i - 1] ++ ss[i]
            <4>1. \A i \in 1 .. n : f[i] = IF i = 1 THEN ss[i] ELSE f[i - 1] ++ ss[i]
                BY <3>1
            <4>2. ASSUME NEW i \in 1 .. n + 1 PROVE g[i] = IF i = 1 THEN ss[i] ELSE g[i - 1] ++ ss[i]
                <5>1. i # 1 => i - 1 \in 1 .. n /\ g[i - 1] = f[i - 1]
                    BY <3>2
                <5> QED BY <3>2, <4>1, <5>1
            <4> QED BY <3>2, <4>2
        <3>4. Eq(g, n + 1)
            BY <3>3
        <3> HIDE DEF Eq
        <3> QED BY <3>4
    <2>3. Len(ss) \in G
        <3> HIDE DEF G
        <3>1. G \subseteq Nat /\ Len(ss) \in Nat
            BY LenProperties DEF G
        <3> QED BY <2>1, <2>2, <3>1, CountUp
    <2>4. \E f : Eq(f, Len(ss))
        BY <2>3
    <2> DEFINE fl == CHOOSE f : Eq(f, Len(ss))
    <2>5. Eq(fl, Len(ss))
        BY <2>4
    <2>6. FlattenSeq(ss) = fl[Len(ss)]
        BY <1>2 DEF FlattenSeq, ++
    <2> HIDE DEF fl
    <2>7. \A i \in 1 .. Len(ss) : fl[i] = IF i = 1 THEN ss[i] ELSE fl[i - 1] ++ ss[i]
        BY <2>5
    <2> DEFINE h == [i \in 0 .. Len(ss) |-> IF i = 0 THEN <<>> ELSE fl[i]]
    <2>8. Sums(ss, h)
        <3>1. h[0] = <<>> /\ \A i \in 1 .. Len(ss) : h[i] = fl[i]
            OBVIOUS
        <3> HIDE DEF h
        <3>2. ASSUME NEW i \in 0 .. Len(ss) - 1 PROVE h[i + 1] = h[i] ++ ss[i + 1]
            <4>1. CASE i = 0
                <5>1. ss[1] \in Seq(S) /\ h[1] = ss[1]
                    BY <2>7, <3>1, <4>1
                <5>2. <<>> ++ ss[1] = ss[1]
                    BY <5>1, JoinIs
                <5> QED BY <4>1, <5>1, <5>2, <3>1
            <4>2. CASE i # 0
                <5>1. i \in 1 .. Len(ss) /\ i + 1 \in 1 .. Len(ss) /\ i + 1 # 1 /\ (i + 1) - 1 = i
                    BY <4>2
                <5>2. fl[i + 1] = fl[i] ++ ss[i + 1]
                    BY <2>7, <5>1
                <5> QED BY <3>1, <5>1, <5>2
            <4> QED BY <4>1, <4>2
        <3> HIDE DEF h
        <3> QED BY <3>1, <3>2 DEF Sums
    <2>9. FlattenSeq(ss) = h[Len(ss)]
        BY <1>2, <2>6
    <2> QED BY <2>8, <2>9
<1> QED BY <1>1, <1>2

\* On the way there are sequences, too.
LEMMA SumsType ==
    ASSUME NEW S, NEW ss \in Seq(Seq(S)), NEW f, Sums(ss, f)
    PROVE  \A i \in 0 .. Len(ss) : f[i] \in Seq(S)
<1> DEFINE G == {n \in Nat : n <= Len(ss) => f[n] \in Seq(S)}
<1>1. 0 \in G
    BY EmptySeq DEF Sums
<1>2. ASSUME NEW n \in G PROVE n + 1 \in G
    <2> SUFFICES ASSUME n + 1 <= Len(ss) PROVE f[n + 1] \in Seq(S)
        OBVIOUS
    <2>1. n \in 0 .. Len(ss) - 1 /\ n + 1 \in 1 .. Len(ss) /\ f[n] \in Seq(S)
        OBVIOUS
    <2>2. f[n + 1] = f[n] ++ ss[n + 1]
        BY <2>1 DEF Sums
    <2>3. ss[n + 1] \in Seq(S)
        BY <2>1, ElementOfSeq
    <2>4. f[n] ++ ss[n + 1] \in Seq(S)
        BY <2>1, <2>3, JoinLen
    <2> QED BY <2>2, <2>4
<1>3. Nat \subseteq G
    <2> HIDE DEF G
    <2>1. G \subseteq Nat
        BY DEF G
    <2> QED BY <1>1, <1>2, <2>1, CountUp
<1> QED BY <1>3

\* ss then tt.
LEMMA SumsJoin ==
    ASSUME NEW S, NEW ss \in Seq(Seq(S)), NEW tt \in Seq(Seq(S)),
           NEW f, Sums(ss, f), NEW g, Sums(tt, g), NEW h, Sums(ss ++ tt, h)
    PROVE  h[Len(ss) + Len(tt)] = f[Len(ss)] ++ g[Len(tt)]
<1>0. /\ ss ++ tt \in Seq(Seq(S)) /\ Len(ss ++ tt) = Len(ss) + Len(tt)
      /\ Len(ss) \in Nat /\ Len(tt) \in Nat
    <2>1. Len(ss) \in Nat /\ Len(tt) \in Nat
        OBVIOUS
    <2> QED BY <2>1, JoinIs
<1>1. /\ \A i \in 0 .. Len(ss) : f[i] \in Seq(S)
      /\ \A i \in 0 .. Len(tt) : g[i] \in Seq(S)
    BY SumsType
<1> DEFINE G == {n \in Nat : n <= Len(ss) => h[n] = f[n]}
           H == {n \in Nat : n <= Len(tt) => h[Len(ss) + n] = f[Len(ss)] ++ g[n]}
<1>2. Nat \subseteq G
    <2>1. 0 \in G
        BY DEF Sums
    <2>2. ASSUME NEW n \in G PROVE n + 1 \in G
        <3> SUFFICES ASSUME n + 1 <= Len(ss) PROVE h[n + 1] = f[n + 1]
            OBVIOUS
        <3>1. n \in 0 .. Len(ss) - 1 /\ n + 1 \in 1 .. Len(ss) /\ n \in 0 .. Len(ss ++ tt) - 1 /\ h[n] = f[n]
            BY <1>0
        <3>2. (ss ++ tt)[n + 1] = ss[n + 1]
            BY <3>1, JoinIs
        <3> QED BY <3>1, <3>2 DEF Sums
    <2> HIDE DEF G
    <2>3. G \subseteq Nat
        BY DEF G
    <2> QED BY <2>1, <2>2, <2>3, CountUp
<1>3. Nat \subseteq H
    <2>1. 0 \in H
        <3>1. Len(ss) \in G /\ Len(ss) \in 0 .. Len(ss) /\ Len(ss) + 0 = Len(ss)
            <4> HIDE DEF G
            <4> QED BY <1>0, <1>2
        <3>2. h[Len(ss)] = f[Len(ss)] /\ f[Len(ss)] \in Seq(S) /\ g[0] = <<>>
            BY <1>1, <3>1 DEF Sums
        <3> QED BY <3>1, <3>2, JoinIs
    <2>2. ASSUME NEW n \in H PROVE n + 1 \in H
        <3> SUFFICES ASSUME n + 1 <= Len(tt)
                     PROVE  n + 1 \in Nat /\ h[Len(ss) + (n + 1)] = f[Len(ss)] ++ g[n + 1]
            <4>1. n \in Nat /\ (n + 1 <= Len(tt) \/ ~(n + 1 <= Len(tt)))
                OBVIOUS
            <4>2. n + 1 \in Nat
                BY <4>1
            <4> QED BY <4>2, Zenon
        <3>0. n \in Nat /\ (n <= Len(tt) => h[Len(ss) + n] = f[Len(ss)] ++ g[n])
            OBVIOUS
        <3> HIDE DEF H
        <3>1. /\ n \in 0 .. Len(tt) - 1 /\ n + 1 \in 1 .. Len(tt) /\ Len(ss) + n \in 0 .. Len(ss ++ tt) - 1
              /\ Len(ss) + (n + 1) = (Len(ss) + n) + 1 /\ Len(ss) \in 0 .. Len(ss) /\ n \in 0 .. Len(tt)
            BY <1>0, <3>0
        <3>2. h[Len(ss) + n] = f[Len(ss)] ++ g[n]
            <4>1. n <= Len(tt)
                BY <1>0, <3>0, <3>1
            <4> QED BY <3>0, <4>1, Zenon
        <3> DEFINE m == Len(ss) + n
        <3>3. (ss ++ tt)[m + 1] = tt[n + 1] /\ tt[n + 1] \in Seq(S)
            <4>1. (ss ++ tt)[Len(ss) + (n + 1)] = tt[n + 1]
                BY <3>1, JoinIs
            <4> QED BY <3>1, <4>1
        <3>4. h[m + 1] = h[m] ++ (ss ++ tt)[m + 1] /\ g[n + 1] = g[n] ++ tt[n + 1]
            BY <3>1 DEF Sums
        <3>5. f[Len(ss)] \in Seq(S) /\ g[n] \in Seq(S)
            BY <1>1, <3>1
        <3>6. h[m + 1] = (f[Len(ss)] ++ g[n]) ++ tt[n + 1]
            BY <3>2, <3>3, <3>4
        <3>7. (f[Len(ss)] ++ g[n]) ++ tt[n + 1] = f[Len(ss)] ++ (g[n] ++ tt[n + 1])
            BY <3>3, <3>5, JoinAssociative
        <3>8. n + 1 \in Nat
            BY <3>0
        <3>9. h[Len(ss) + (n + 1)] = h[m + 1]
            BY <3>1
        <3> QED BY <3>4, <3>6, <3>7, <3>8, <3>9, Zenon
    <2> HIDE DEF H
    <2>3. H \subseteq Nat
        BY DEF H
    <2> QED BY <2>1, <2>2, <2>3, CountUp
<1>4. Len(tt) \in H
    <2> HIDE DEF H
    <2> QED BY <1>0, <1>3
<1>5. Len(tt) <= Len(tt)
    BY <1>0
<1> QED BY <1>4, <1>5, Zenon

\* Sequences are put together piece by piece.
LEMMA FlattenJoin ==
    ASSUME NEW S, NEW ss \in Seq(Seq(S)), NEW tt \in Seq(Seq(S))
    PROVE  FlattenSeq(ss ++ tt) = FlattenSeq(ss) ++ FlattenSeq(tt)
<1>1. ss ++ tt \in Seq(Seq(S)) /\ Len(ss ++ tt) = Len(ss) + Len(tt)
    BY JoinIs
<1>2. PICK f : Sums(ss, f) /\ FlattenSeq(ss) = f[Len(ss)]
    BY FlattenIs
<1>3. PICK g : Sums(tt, g) /\ FlattenSeq(tt) = g[Len(tt)]
    BY FlattenIs
<1>4. PICK h : Sums(ss ++ tt, h) /\ FlattenSeq(ss ++ tt) = h[Len(ss ++ tt)]
    BY <1>1, FlattenIs
<1>5. h[Len(ss) + Len(tt)] = f[Len(ss)] ++ g[Len(tt)]
    BY <1>2, <1>3, <1>4, SumsJoin
<1> QED BY <1>1, <1>2, <1>3, <1>4, <1>5

\* The type of what is put together.
LEMMA FlattenType ==
    ASSUME NEW S, NEW ss \in Seq(Seq(S))
    PROVE  FlattenSeq(ss) \in Seq(S)
BY FlattenIs, SumsType

\* Of one piece, and of none.
LEMMA FlattenOne ==
    ASSUME NEW S, NEW s \in Seq(S)
    PROVE  FlattenSeq(<<s>>) = s /\ FlattenSeq(<<>>) = <<>>
<1>1. <<s>> \in Seq(Seq(S)) /\ Len(<<s>>) = 1 /\ <<s>>[1] = s
    OBVIOUS
<1>2. PICK f : Sums(<<s>>, f) /\ FlattenSeq(<<s>>) = f[Len(<<s>>)]
    BY <1>1, FlattenIs
<1>3. f[0] = <<>> /\ 0 \in 0 .. Len(<<s>>) - 1 /\ 0 + 1 = 1
    BY <1>1, <1>2 DEF Sums
<1>4. f[1] = <<>> ++ s
    BY <1>1, <1>2, <1>3 DEF Sums
<1>5. FlattenSeq(<<>>) = <<>>
    BY DEF FlattenSeq
<1> QED BY <1>1, <1>2, <1>4, <1>5, JoinIs

\* The first n of s, and those behind them.
Upto(s, n) == SubSeq(s, 1, n)
Beyond(s, n) == SubSeq(s, n + 1, Len(s))

\* A sequence is what is before a place and what is behind it.
LEMMA CutIs ==
    ASSUME NEW S, NEW s \in Seq(S), NEW n \in 0 .. Len(s)
    PROVE  /\ Upto(s, n) \in Seq(S) /\ Len(Upto(s, n)) = n
           /\ Beyond(s, n) \in Seq(S) /\ Len(Beyond(s, n)) = Len(s) - n
           /\ s = Upto(s, n) ++ Beyond(s, n)
<1>1. Upto(s, n) \in Seq(S) /\ Len(Upto(s, n)) = n
    BY DEF Upto
<1>2. Beyond(s, n) \in Seq(S) /\ Len(Beyond(s, n)) = Len(s) - n
    BY DEF Beyond
<1>3. s = Upto(s, n) \o Beyond(s, n)
    <2>1. SubSeq(s, 1, n) \o SubSeq(s, n + 1, Len(s)) = SubSeq(s, 1, Len(s))
        <3>1. 1 \in 1 .. Len(s) + 1 /\ n \in 1 - 1 .. Len(s) /\ Len(s) \in n .. Len(s)
            OBVIOUS
        <3> QED BY <3>1, ConcatAdjacentSubSeq
    <2>2. SubSeq(s, 1, Len(s)) = s
        BY SubSeqFull
    <2> QED BY <2>1, <2>2, Zenon DEF Upto, Beyond
<1> QED BY <1>1, <1>2, <1>3, Zenon DEF ++

\* Where two were joined, each of them is found again.
LEMMA CutJoined ==
    ASSUME NEW S, NEW x \in Seq(S), NEW y \in Seq(S)
    PROVE  Upto(x ++ y, Len(x)) = x /\ Beyond(x ++ y, Len(x)) = y
BY DEF Upto, Beyond, ++

\* What SubSeq takes out of the middle.
LEMMA MiddleIs ==
    ASSUME NEW S, NEW x \in Seq(S), NEW y \in Seq(S), NEW z \in Seq(S)
    PROVE  SubSeq(x ++ (y ++ z), Len(x) + 1, Len(x) + Len(y)) = y
BY DEF ++

\* Of equal wholes with front parts of the same length, the parts are equal.
LEMMA JoinCancel ==
    ASSUME NEW S, NEW x \in Seq(S), NEW y \in Seq(S), NEW z \in Seq(S), NEW w \in Seq(S),
           x ++ y = z ++ w, Len(x) = Len(z)
    PROVE  x = z /\ y = w
<1>1. Upto(x ++ y, Len(x)) = x /\ Beyond(x ++ y, Len(x)) = y
    BY CutJoined
<1>2. Upto(z ++ w, Len(z)) = z /\ Beyond(z ++ w, Len(z)) = w
    BY CutJoined
<1> QED BY <1>1, <1>2, Zenon

-----------------------------------------------------------------------------
(* The bytes of clusters *)

\* What d holds for the clusters of s, one behind the other.
Mapped(d, s) == [i \in DOMAIN s |-> d[s[i]]]
Cat(d, s) == FlattenSeq(Mapped(d, s))

\* Their types and their number.
LEMMA MappedIs ==
    ASSUME NEW S, NEW d \in [Units -> Seq(S)], NEW s \in Seq(Units)
    PROVE  /\ Mapped(d, s) \in Seq(Seq(S)) /\ Len(Mapped(d, s)) = Len(s)
           /\ \A i \in 1 .. Len(s) : Mapped(d, s)[i] = d[s[i]]
<1>1. DOMAIN s = 1 .. Len(s) /\ Len(s) \in Nat /\ \A i \in 1 .. Len(s) : d[s[i]] \in Seq(S)
    OBVIOUS
<1> DEFINE m == [i \in DOMAIN s |-> d[s[i]]]
<1>2. m \in [1 .. Len(s) -> Seq(S)]
    BY <1>1
<1>3. m \in Seq(Seq(S))
    <2> HIDE DEF m
    <2>1. Seq(Seq(S)) = UNION {[1 .. n -> Seq(S)] : n \in Nat}
        BY SeqDef
    <2> QED BY <1>1, <1>2, <2>1
<1>4. Len(m) = Len(s)
    <2> HIDE DEF m
    <2> QED BY <1>1, <1>2, <1>3
<1> QED BY <1>1, <1>3, <1>4 DEF Mapped

\* No cluster, no bytes.
LEMMA CatNone ==
    ASSUME NEW d
    PROVE  Cat(d, Nil) = Nil
<1>1. Mapped(d, Nil) = Nil
    BY DEF Mapped, Nil
<1> QED BY <1>1, FlattenOne, EmptySeq DEF Cat, Nil

\* One cluster, its bytes.
LEMMA CatOne ==
    ASSUME NEW S, NEW d \in [Units -> Seq(S)], NEW u \in Units
    PROVE  Cat(d, One(u)) = d[u]
<1>1. Mapped(d, One(u)) = <<d[u]>>
    BY DEF Mapped, One
<1>2. d[u] \in Seq(S)
    OBVIOUS
<1> QED BY <1>1, <1>2, FlattenOne DEF Cat

\* The bytes of two runs of clusters are those of the one and then those of the other.
LEMMA CatJoin ==
    ASSUME NEW S, NEW d \in [Units -> Seq(S)], NEW s \in Seq(Units), NEW t \in Seq(Units)
    PROVE  /\ Cat(d, s) \in Seq(S) /\ Cat(d, t) \in Seq(S)
           /\ Cat(d, s ++ t) = Cat(d, s) ++ Cat(d, t)
<1>0. s ++ t \in Seq(Units) /\ Len(s ++ t) = Len(s) + Len(t) /\ Len(s) \in Nat /\ Len(t) \in Nat
    <2>1. Len(s) \in Nat /\ Len(t) \in Nat
        OBVIOUS
    <2> QED BY <2>1, JoinIs
<1>1. ASSUME NEW q \in Seq(Units)
      PROVE  /\ Mapped(d, q) \in Seq(Seq(S)) /\ Len(Mapped(d, q)) = Len(q)
             /\ \A i \in 1 .. Len(q) : Mapped(d, q)[i] = d[q[i]]
    BY MappedIs
<1>2. Mapped(d, s ++ t) = Mapped(d, s) ++ Mapped(d, t)
    <2>1. /\ Mapped(d, s) ++ Mapped(d, t) \in Seq(Seq(S)) /\ Len(Mapped(d, s) ++ Mapped(d, t)) = Len(s) + Len(t)
          /\ \A i \in 1 .. Len(s) : (Mapped(d, s) ++ Mapped(d, t))[i] = Mapped(d, s)[i]
          /\ \A i \in 1 .. Len(t) : (Mapped(d, s) ++ Mapped(d, t))[Len(s) + i] = Mapped(d, t)[i]
        <3>1. PICK a \in Seq(Seq(S)) : a = Mapped(d, s) /\ Len(a) = Len(s)
            BY <1>1
        <3>2. PICK b \in Seq(Seq(S)) : b = Mapped(d, t) /\ Len(b) = Len(t)
            BY <1>1
        <3>3. a ++ b \in Seq(Seq(S)) /\ Len(a ++ b) = Len(a) + Len(b)
            BY JoinIs
        <3>4. \A i \in 1 .. Len(a) : (a ++ b)[i] = a[i]
            BY JoinIs
        <3>5. \A i \in 1 .. Len(b) : (a ++ b)[Len(a) + i] = b[i]
            BY JoinIs
        <3> QED BY <3>1, <3>2, <3>3, <3>4, <3>5
    <2>2. /\ Mapped(d, s ++ t) \in Seq(Seq(S)) /\ Len(Mapped(d, s ++ t)) = Len(s) + Len(t)
          /\ \A i \in 1 .. Len(s) + Len(t) : Mapped(d, s ++ t)[i] = d[(s ++ t)[i]]
        BY <1>0, <1>1
    <2>3. ASSUME NEW i \in 1 .. Len(s) + Len(t) PROVE Mapped(d, s ++ t)[i] = (Mapped(d, s) ++ Mapped(d, t))[i]
        <3>1. CASE i \in 1 .. Len(s)
            <4>1. (s ++ t)[i] = s[i]
                BY <3>1, JoinIs
            <4>2. Mapped(d, s ++ t)[i] = d[(s ++ t)[i]]
                BY <2>2
            <4>3. (Mapped(d, s) ++ Mapped(d, t))[i] = Mapped(d, s)[i] /\ Mapped(d, s)[i] = d[s[i]]
                BY <1>1, <2>1, <3>1
            <4> QED BY <4>1, <4>2, <4>3
        <3>2. CASE i \notin 1 .. Len(s)
            <4>1. PICK j \in 1 .. Len(t) : i = Len(s) + j
                <5>1. i - Len(s) \in 1 .. Len(t) /\ i = Len(s) + (i - Len(s))
                    BY <1>0, <3>2
                <5> QED BY <5>1
            <4>2. (s ++ t)[Len(s) + j] = t[j]
                BY JoinIs
            <4>3. Mapped(d, s ++ t)[i] = d[t[j]]
                BY <2>2, <4>1, <4>2
            <4>4. (Mapped(d, s) ++ Mapped(d, t))[i] = Mapped(d, t)[j]
                BY <2>1, <4>1
            <4> QED BY <1>1, <4>3, <4>4
        <3> QED BY <3>1, <3>2
    <2> QED BY <2>1, <2>2, <2>3, SeqEqual
<1>3. FlattenSeq(Mapped(d, s)) \in Seq(S) /\ FlattenSeq(Mapped(d, t)) \in Seq(S)
    BY <1>1, FlattenType
<1>4. FlattenSeq(Mapped(d, s) ++ Mapped(d, t)) = FlattenSeq(Mapped(d, s)) ++ FlattenSeq(Mapped(d, t))
    BY <1>1, FlattenJoin
<1>5. Cat(d, s) = FlattenSeq(Mapped(d, s)) /\ Cat(d, t) = FlattenSeq(Mapped(d, t)) /\ Cat(d, s ++ t) = FlattenSeq(Mapped(d, s ++ t))
    BY DEF Cat
<1> QED BY <1>2, <1>3, <1>4, <1>5

\* Clusters with the same bytes give the same bytes.
LEMMA CatSame ==
    ASSUME NEW s \in Seq(Units), NEW d, NEW e, \A i \in 1 .. Len(s) : d[s[i]] = e[s[i]]
    PROVE  Cat(d, s) = Cat(e, s)
<1>1. Mapped(d, s) = Mapped(e, s)
    BY DEF Mapped
<1> QED BY <1>1, Zenon DEF Cat

-----------------------------------------------------------------------------
(* Segments of the list *)

\* The first cluster of a run, or else e; the last one.
HeadOr(s, e) == IF s = Nil THEN e ELSE s[1]
End(s) == IF s = Nil THEN NULL ELSE s[Len(s)]

\* From c the clusters of s follow one another along nx, and the last one leads to e.
Segment(nx, c, s, e) ==
    /\ s \in Seq(Units)
    /\ \A i, j \in 1 .. Len(s) : s[i] = s[j] => i = j
    /\ c = HeadOr(s, e)
    /\ \A i \in 1 .. Len(s) : nx[s[i]] = IF i = Len(s) THEN e ELSE s[i + 1]

\* The clusters of a run, and of two.
LEMMA RangeIs ==
    ASSUME NEW S, NEW s \in Seq(S), NEW t \in Seq(S)
    PROVE  /\ Range(s) = {s[i] : i \in 1 .. Len(s)} /\ Range(s) \subseteq S
           /\ Range(s ++ t) = Range(s) \cup Range(t)
<1>1. Range(s) = {s[i] : i \in 1 .. Len(s)} /\ Range(s) \subseteq S
    BY DEF Range
<1>2. Range(s ++ t) = Range(s) \cup Range(t)
    BY RangeConcatenation DEF ++
<1> QED BY <1>1, <1>2

\* Of a run of one, and of none.
LEMMA RangeOne == \A u : Range(One(u)) = {u} /\ Range(Nil) = {}
<1> SUFFICES ASSUME NEW u PROVE Range(<<u>>) = {u} /\ Range(Nil) = {}
    BY DEF One
<1>1. DOMAIN <<u>> = {1} /\ <<u>>[1] = u /\ DOMAIN Nil = {}
    BY DEF Nil
<1> QED BY <1>1 DEF Range

\* Segments of none and of one.
LEMMA SegmentOne ==
    ASSUME NEW nx, NEW c, NEW e
    PROVE  /\ Segment(nx, c, Nil, e) <=> c = e
           /\ \A u \in Units : Segment(nx, c, One(u), e) <=> c = u /\ nx[u] = e
<1>1. Segment(nx, c, Nil, e) <=> c = e
    BY EmptySeq DEF Nil, Segment, HeadOr
<1>2. ASSUME NEW u \in Units PROVE Segment(nx, c, <<u>>, e) <=> c = u /\ nx[u] = e
    <2>1. <<u>> \in Seq(Units) /\ Len(<<u>>) = 1 /\ <<u>>[1] = u /\ <<u>> # Nil
        BY DEF Nil
    <2>2. \A i \in 1 .. 1 : i = 1
        OBVIOUS
    <2> HIDE DEF Segment
    <2> QED BY <2>1, <2>2 DEF Segment, HeadOr
<1> QED BY <1>1, <1>2 DEF One

\* What a segment of one cluster says about it.
LEMMA SegmentAt ==
    ASSUME NEW nx, NEW c, NEW e, NEW u \in Units, Segment(nx, c, One(u), e)
    PROVE  c = u /\ nx[u] = e
<1>1. One(u) \in Seq(Units) /\ Len(One(u)) = 1 /\ One(u)[1] = u /\ One(u) # Nil
    BY OneIs
<1> QED BY <1>1 DEF Segment, HeadOr

\* And when it is one.
LEMMA SegmentMade ==
    ASSUME NEW nx, NEW c \in Units, NEW e, nx[c] = e
    PROVE  Segment(nx, c, One(c), e)
<1>1. One(c) \in Seq(Units) /\ Len(One(c)) = 1 /\ One(c)[1] = c /\ One(c) # Nil
    BY OneIs
<1>2. \A i \in 1 .. 1 : i = 1
    OBVIOUS
<1> QED BY <1>1, <1>2 DEF Segment, HeadOr

\* A segment depends on the links of its own clusters only.
LEMMA SegmentSame ==
    ASSUME NEW nx, NEW ny, NEW c, NEW s, NEW e, Segment(nx, c, s, e),
           \A u \in Range(s) : ny[u] = nx[u]
    PROVE  Segment(ny, c, s, e)
<1>1. s \in Seq(Units)
    BY DEF Segment
<1>2. \A i \in 1 .. Len(s) : s[i] \in Range(s)
    BY <1>1, RangeIs
<1> QED BY <1>1, <1>2 DEF Segment

\* The first of two runs is the first of the second when the first is empty.
LEMMA HeadOrJoin ==
    ASSUME NEW S, NEW s \in Seq(S), NEW t \in Seq(S), NEW e
    PROVE  HeadOr(s ++ t, e) = HeadOr(s, HeadOr(t, e))
<1>1. CASE s = Nil
    BY <1>1, JoinNone DEF HeadOr
<1>2. CASE s # Nil
    <2>1. Len(s) \in Nat \ {0} /\ Len(t) \in Nat
        BY <1>2, NilIs
    <2>2. (s ++ t)[1] = s[1]
        <3>1. 1 \in 1 .. Len(s)
            BY <2>1
        <3> QED BY <3>1, JoinIs
    <2>2a. Len(s ++ t) = Len(s) + Len(t)
        BY JoinIs
    <2>3. s ++ t # Nil
        BY <2>1, <2>2a, NilIs
    <2> QED BY <1>2, <2>2, <2>3 DEF HeadOr
<1> QED BY <1>1, <1>2

\* Two segments, one behind the other, and back: they have no cluster in common.
LEMMA SegmentJoin ==
    ASSUME NEW nx, NEW c, NEW s \in Seq(Units), NEW t \in Seq(Units), NEW e
    PROVE  Segment(nx, c, s ++ t, e) <=> /\ Segment(nx, c, s, HeadOr(t, e))
                                         /\ Segment(nx, HeadOr(t, e), t, e)
                                         /\ Range(s) \cap Range(t) = {}
<1>0. Len(s) \in Nat /\ Len(t) \in Nat
    OBVIOUS
<1>1. /\ s ++ t \in Seq(Units) /\ Len(s ++ t) = Len(s) + Len(t)
      /\ \A i \in 1 .. Len(s) : (s ++ t)[i] = s[i]
      /\ \A i \in 1 .. Len(t) : (s ++ t)[Len(s) + i] = t[i]
    <2>1. s ++ t \in Seq(Units) /\ Len(s ++ t) = Len(s) + Len(t)
        BY JoinIs
    <2>2. \A i \in 1 .. Len(s) : (s ++ t)[i] = s[i]
        BY JoinIs
    <2>3. \A i \in 1 .. Len(t) : (s ++ t)[Len(s) + i] = t[i]
        BY JoinIs
    <2> QED BY <2>1, <2>2, <2>3
<1>2. \A i \in 1 .. Len(s) + Len(t) : i \in 1 .. Len(s) \/ \E j \in 1 .. Len(t) : i = Len(s) + j
    <2> SUFFICES ASSUME NEW i \in 1 .. Len(s) + Len(t), i \notin 1 .. Len(s)
                 PROVE  \E j \in 1 .. Len(t) : i = Len(s) + j
        OBVIOUS
    <2>1. i - Len(s) \in 1 .. Len(t) /\ i = Len(s) + (i - Len(s))
        BY <1>0
    <2> QED BY <2>1
<1>3. HeadOr(s ++ t, e) = HeadOr(s, HeadOr(t, e))
    BY HeadOrJoin
<1>4. Range(s) = {s[i] : i \in 1 .. Len(s)} /\ Range(t) = {t[i] : i \in 1 .. Len(t)}
    BY RangeIs
<1>5. ASSUME Segment(nx, c, s ++ t, e)
      PROVE  Segment(nx, c, s, HeadOr(t, e)) /\ Segment(nx, HeadOr(t, e), t, e) /\ Range(s) \cap Range(t) = {}
    <2>1. /\ \A i, j \in 1 .. Len(s) + Len(t) : (s ++ t)[i] = (s ++ t)[j] => i = j
          /\ c = HeadOr(s ++ t, e)
          /\ \A i \in 1 .. Len(s) + Len(t) : nx[(s ++ t)[i]] = IF i = Len(s) + Len(t) THEN e ELSE (s ++ t)[i + 1]
        BY <1>1, <1>5 DEF Segment
    <2>2. ASSUME NEW i \in 1 .. Len(s), NEW j \in 1 .. Len(s), s[i] = s[j] PROVE i = j
        <3>1. i \in 1 .. Len(s) + Len(t) /\ j \in 1 .. Len(s) + Len(t)
            BY <1>0
        <3> QED BY <1>1, <2>1, <2>2, <3>1
    <2>3. ASSUME NEW i \in 1 .. Len(t), NEW j \in 1 .. Len(t), t[i] = t[j] PROVE i = j
        <3>1. Len(s) + i \in 1 .. Len(s) + Len(t) /\ Len(s) + j \in 1 .. Len(s) + Len(t)
            BY <1>0
        <3>2. (s ++ t)[Len(s) + i] = (s ++ t)[Len(s) + j]
            BY <1>1, <2>3
        <3>3. Len(s) + i = Len(s) + j
            BY <2>1, <3>1, <3>2
        <3> QED BY <1>0, <3>3
    <2>4. ASSUME NEW i \in 1 .. Len(s) PROVE nx[s[i]] = IF i = Len(s) THEN HeadOr(t, e) ELSE s[i + 1]
        <3>1. i \in 1 .. Len(s) + Len(t) /\ nx[s[i]] = IF i = Len(s) + Len(t) THEN e ELSE (s ++ t)[i + 1]
            BY <1>0, <1>1, <2>1
        <3>2. CASE i # Len(s)
            <4>1. i + 1 \in 1 .. Len(s) /\ i # Len(s) + Len(t)
                BY <1>0, <3>2
            <4> QED BY <1>1, <3>1, <3>2, <4>1
        <3>3. CASE i = Len(s) /\ t = Nil
            <4>1. Len(t) = 0
                BY <3>3, NilIs
            <4> QED BY <1>0, <3>1, <3>3, <4>1 DEF HeadOr
        <3>4. CASE i = Len(s) /\ t # Nil
            <4>1. Len(t) # 0 /\ 1 \in 1 .. Len(t)
                BY <3>4, <1>0, NilIs
            <4>2. (s ++ t)[Len(s) + 1] = t[1]
                BY <1>1, <4>1
            <4>3. Len(s) # Len(s) + Len(t)
                BY <1>0, <4>1
            <4> QED BY <3>1, <3>4, <4>2, <4>3 DEF HeadOr
        <3> QED BY <3>2, <3>3, <3>4
    <2>5. ASSUME NEW i \in 1 .. Len(t) PROVE nx[t[i]] = IF i = Len(t) THEN e ELSE t[i + 1]
        <3>1. Len(s) + i \in 1 .. Len(s) + Len(t)
            BY <1>0
        <3>2. nx[t[i]] = IF Len(s) + i = Len(s) + Len(t) THEN e ELSE (s ++ t)[(Len(s) + i) + 1]
            BY <1>1, <2>1, <3>1
        <3>3. CASE i = Len(t)
            BY <3>2, <3>3
        <3>4. CASE i # Len(t)
            <4>1. i + 1 \in 1 .. Len(t) /\ (Len(s) + i) + 1 = Len(s) + (i + 1) /\ Len(s) + i # Len(s) + Len(t)
                BY <1>0, <3>4
            <4>2. (s ++ t)[Len(s) + (i + 1)] = t[i + 1]
                BY <1>1, <4>1
            <4> QED BY <3>2, <3>4, <4>1, <4>2
        <3> QED BY <3>3, <3>4
    <2>6. ASSUME NEW i \in 1 .. Len(s), NEW j \in 1 .. Len(t), s[i] = t[j] PROVE FALSE
        <3>1. i \in 1 .. Len(s) + Len(t) /\ Len(s) + j \in 1 .. Len(s) + Len(t) /\ i # Len(s) + j
            BY <1>0
        <3>2. (s ++ t)[i] = (s ++ t)[Len(s) + j]
            BY <1>1, <2>6
        <3> QED BY <2>1, <3>1, <3>2
    <2>7. Range(s) \cap Range(t) = {}
        BY <1>4, <2>6
    <2>8. Segment(nx, c, s, HeadOr(t, e))
        BY <1>3, <2>1, <2>2, <2>4 DEF Segment
    <2>9. Segment(nx, HeadOr(t, e), t, e)
        BY <2>3, <2>5 DEF Segment
    <2> QED BY <2>7, <2>8, <2>9
<1>6. ASSUME Segment(nx, c, s, HeadOr(t, e)), Segment(nx, HeadOr(t, e), t, e), Range(s) \cap Range(t) = {}
      PROVE  Segment(nx, c, s ++ t, e)
    <2>1. /\ \A i, j \in 1 .. Len(s) : s[i] = s[j] => i = j
          /\ c = HeadOr(s, HeadOr(t, e))
          /\ \A i \in 1 .. Len(s) : nx[s[i]] = IF i = Len(s) THEN HeadOr(t, e) ELSE s[i + 1]
          /\ \A i, j \in 1 .. Len(t) : t[i] = t[j] => i = j
          /\ \A i \in 1 .. Len(t) : nx[t[i]] = IF i = Len(t) THEN e ELSE t[i + 1]
        BY <1>6 DEF Segment
    <2>2. \A i \in 1 .. Len(s), j \in 1 .. Len(t) : s[i] # t[j]
        BY <1>4, <1>6
    <2>3. ASSUME NEW i \in 1 .. Len(s) + Len(t), NEW j \in 1 .. Len(s) + Len(t), (s ++ t)[i] = (s ++ t)[j]
          PROVE  i = j
        <3>1. CASE i \in 1 .. Len(s) /\ j \in 1 .. Len(s)
            BY <1>1, <2>1, <2>3, <3>1
        <3>2. CASE i \in 1 .. Len(s) /\ j \notin 1 .. Len(s)
            BY <1>1, <1>2, <2>2, <2>3, <3>2
        <3>3. CASE i \notin 1 .. Len(s) /\ j \in 1 .. Len(s)
            BY <1>1, <1>2, <2>2, <2>3, <3>3
        <3>4. CASE i \notin 1 .. Len(s) /\ j \notin 1 .. Len(s)
            <4>1. PICK k \in 1 .. Len(t) : i = Len(s) + k
                BY <1>2, <3>4
            <4>2. PICK l \in 1 .. Len(t) : j = Len(s) + l
                BY <1>2, <3>4
            <4> QED BY <1>1, <2>1, <2>3, <4>1, <4>2
        <3> QED BY <3>1, <3>2, <3>3, <3>4
    <2>4. ASSUME NEW i \in 1 .. Len(s) + Len(t)
          PROVE  nx[(s ++ t)[i]] = IF i = Len(s) + Len(t) THEN e ELSE (s ++ t)[i + 1]
        <3>1. CASE i \in 1 .. Len(s) /\ i # Len(s)
            <4>1. i + 1 \in 1 .. Len(s) /\ i # Len(s) + Len(t)
                BY <1>0, <3>1
            <4> QED BY <1>1, <2>1, <3>1, <4>1
        <3>2. CASE i \in 1 .. Len(s) /\ i = Len(s) /\ t = Nil
            <4>1. Len(t) = 0
                BY <3>2, NilIs
            <4>2. i = Len(s) + Len(t)
                BY <1>0, <3>2, <4>1
            <4> QED BY <1>1, <2>1, <3>2, <4>2 DEF HeadOr
        <3>3. CASE i \in 1 .. Len(s) /\ i = Len(s) /\ t # Nil
            <4>1. Len(t) # 0 /\ 1 \in 1 .. Len(t)
                BY <3>3, <1>0, NilIs
            <4>2. (s ++ t)[Len(s) + 1] = t[1] /\ i # Len(s) + Len(t)
                BY <1>0, <1>1, <3>3, <4>1
            <4> QED BY <1>1, <2>1, <3>3, <4>2 DEF HeadOr
        <3>4. CASE i \notin 1 .. Len(s)
            <4>1. PICK k \in 1 .. Len(t) : i = Len(s) + k
                BY <1>2, <3>4
            <4>2. (s ++ t)[i] = t[k]
                BY <1>1, <4>1
            <4>3. CASE k = Len(t)
                BY <2>1, <4>1, <4>2, <4>3
            <4>4. CASE k # Len(t)
                <5>1. k + 1 \in 1 .. Len(t) /\ i + 1 = Len(s) + (k + 1) /\ i # Len(s) + Len(t)
                    BY <1>0, <4>1, <4>4
                <5>2. (s ++ t)[Len(s) + (k + 1)] = t[k + 1]
                    BY <1>1, <5>1
                <5> QED BY <2>1, <4>2, <4>4, <5>1, <5>2
            <4> QED BY <4>3, <4>4
        <3> QED BY <3>1, <3>2, <3>3, <3>4
    <2> QED BY <1>1, <1>3, <2>1, <2>3, <2>4 DEF Segment
<1> QED BY <1>5, <1>6

\* A sequence of length 1 is that of its element.
LEMMA OneElement ==
    ASSUME NEW S, NEW s \in Seq(S), Len(s) = 1
    PROVE  s = One(s[1])
<1>1. s[1] \in S
    OBVIOUS
<1>2. PICK t \in Seq(S) : t = One(s[1]) /\ Len(t) = 1 /\ t[1] = s[1]
    BY <1>1, OneIs
<1>3. \A i \in 1 .. 1 : s[i] = t[i]
    BY <1>2
<1>4. s = t
    BY <1>2, <1>3, SeqEqual
<1> QED BY <1>2, <1>4

\* The first element, and the others.
LEMMA HeadSplit ==
    ASSUME NEW S, NEW s \in Seq(S), s # Nil
    PROVE  \E u \in S, t \in Seq(S) : s = One(u) ++ t /\ Len(s) = Len(t) + 1 /\ HeadOr(s, NULL) = u
<1>1. Len(s) \in Nat \ {0} /\ 1 \in 0 .. Len(s) /\ s[1] \in S
    BY NilIs
<1>2. Beyond(s, 1) \in Seq(S) /\ Len(Beyond(s, 1)) = Len(s) - 1 /\ s = Upto(s, 1) ++ Beyond(s, 1)
    BY <1>1, CutIs
<1>3. Upto(s, 1) = One(s[1])
    <2>1. Upto(s, 1) \in Seq(S) /\ Len(Upto(s, 1)) = 1 /\ Upto(s, 1)[1] = s[1]
        BY <1>1 DEF Upto
    <2> QED BY <1>1, <2>1, OneIs, OneElement
<1>4. s = One(s[1]) ++ Beyond(s, 1)
    BY <1>2, <1>3, Zenon
<1>5. Len(s) = Len(Beyond(s, 1)) + 1
    BY <1>1, <1>2
<1>6. HeadOr(s, NULL) = s[1]
    BY DEF HeadOr
<1> QED BY <1>1, <1>2, <1>4, <1>5, <1>6, Zenon

\* The others, and the last element.
LEMMA LastSplit ==
    ASSUME NEW S, NEW s \in Seq(S), s # Nil
    PROVE  \E u \in S, t \in Seq(S) : s = t ++ One(u) /\ Len(s) = Len(t) + 1 /\ End(s) = u
<1>1. Len(s) \in Nat \ {0} /\ Len(s) - 1 \in 0 .. Len(s) /\ s[Len(s)] \in S
    BY NilIs
<1> DEFINE t == Upto(s, Len(s) - 1)
<1>2. t \in Seq(S) /\ Len(t) = Len(s) - 1 /\ s = t ++ Beyond(s, Len(s) - 1)
    BY <1>1, CutIs
<1>3. Beyond(s, Len(s) - 1) = One(s[Len(s)])
    <2>1. Beyond(s, Len(s) - 1) = SubSeq(s, Len(s), Len(s))
        <3>1. (Len(s) - 1) + 1 = Len(s)
            BY <1>1
        <3> QED BY <3>1, Zenon DEF Beyond
    <2>2. SubSeq(s, Len(s), Len(s)) \in Seq(S) /\ Len(SubSeq(s, Len(s), Len(s))) = 1
          /\ SubSeq(s, Len(s), Len(s))[1] = s[Len(s)]
        <3>1. Len(s) \in 1 .. Len(s)
            BY <1>1
        <3> QED BY <3>1
    <2> QED BY <1>1, <2>1, <2>2, OneElement
<1>4. Len(s) = Len(t) + 1
    BY <1>1, <1>2
<1>5. End(s) = s[Len(s)]
    BY DEF End
<1> HIDE DEF t
<1> QED BY <1>1, <1>2, <1>3, <1>4, <1>5, Zenon

\* The last of two runs is the last of the first when the second is empty.
LEMMA EndJoin ==
    ASSUME NEW S, NEW s \in Seq(S), NEW t \in Seq(S)
    PROVE  End(s ++ t) = IF t = Nil THEN End(s) ELSE End(t)
<1>1. CASE t = Nil
    BY <1>1, JoinNone
<1>2. CASE t # Nil
    <2>1. Len(t) \in Nat \ {0} /\ Len(s) \in Nat /\ Len(t) \in 1 .. Len(t)
        BY <1>2, NilIs
    <2>2. Len(s ++ t) = Len(s) + Len(t)
        BY JoinIs
    <2>3. (s ++ t)[Len(s) + Len(t)] = t[Len(t)]
        BY <2>1, JoinIs
    <2>4. s ++ t # Nil
        BY <2>1, <2>2, NilIs
    <2> QED BY <1>2, <2>2, <2>3, <2>4 DEF End
<1> QED BY <1>1, <1>2

\* The first and the last of a run of one, and of none.
LEMMA EndOne == \A u : End(One(u)) = u /\ End(Nil) = NULL /\ \A e : HeadOr(One(u), e) = u /\ HeadOr(Nil, e) = e
<1> SUFFICES ASSUME NEW u PROVE End(One(u)) = u /\ End(Nil) = NULL /\ \A e : HeadOr(One(u), e) = u /\ HeadOr(Nil, e) = e
    OBVIOUS
<1>1. One(u) # Nil /\ Len(One(u)) = 1 /\ One(u)[1] = u
    <2>1. u \in {u}
        OBVIOUS
    <2> QED BY <2>1, OneIs
<1> QED BY <1>1 DEF End, HeadOr

\* They are clusters of the run.
LEMMA EndIn ==
    ASSUME NEW S, NEW s \in Seq(S), s # Nil
    PROVE  End(s) \in Range(s) /\ HeadOr(s, NULL) \in Range(s)
<1>1. Len(s) \in 1 .. Len(s) /\ 1 \in 1 .. Len(s)
    BY NilIs
<1>2. Range(s) = {s[i] : i \in 1 .. Len(s)}
    BY RangeIs
<1>3. End(s) = s[Len(s)] /\ HeadOr(s, NULL) = s[1]
    BY DEF End, HeadOr
<1> QED BY <1>1, <1>2, <1>3

\* A cluster alone is a run of clusters.
LEMMA UnitSeq == \A u \in Units : One(u) \in Seq(Units) /\ One(u) # Nil /\ Len(One(u)) = 1
BY OneIs

\* A chain has no more clusters than there are.
LEMMA SegmentLen ==
    ASSUME NEW nx, NEW c, NEW s, NEW e, Segment(nx, c, s, e)
    PROVE  Len(s) <= Cardinality(Units)
<1>1. s \in Seq(Units) /\ Len(s) \in Nat /\ s \in [1 .. Len(s) -> Units]
    BY DEF Segment
<1>2. s \in Injection(1 .. Len(s), Units)
    BY <1>1 DEF Segment, Injection, IsInjective
<1>3. Cardinality(1 .. Len(s)) <= Cardinality(Units)
    BY <1>2, FS_Injection, BufferAssumption
<1>4. Cardinality(1 .. Len(s)) = Len(s)
    BY <1>1, FS_Interval
<1> QED BY <1>3, <1>4

-----------------------------------------------------------------------------
(* The list *)

\* What a cluster may hold, and every buffer.
Held == {d \in Seq(Bytes) : Len(d) <= Capacity}

Buffers == [pStart : Units \cup {NULL}, pLast : Units \cup {NULL}, clusterCount : Int,
            held : SUBSET Units, pNext : [Units -> Units \cup {NULL}], data : [Units -> Held]]

\* The list of b consists of the clusters of s.
Linked(b, s) ==
    /\ Segment(b.pNext, b.pStart, s, NULL)
    /\ Range(s) = b.held /\ b.clusterCount = Len(s) /\ b.pLast = End(s)

\* A buffer, by its fields.
Record(s, l, n, h, nx, d) ==
    [pStart |-> s, pLast |-> l, clusterCount |-> n, held |-> h, pNext |-> nx, data |-> d]

\* A buffer is its fields, and they have their types.
LEMMA RecordIs ==
    ASSUME NEW b \in Buffers
    PROVE  /\ b = Record(b.pStart, b.pLast, b.clusterCount, b.held, b.pNext, b.data)
           /\ b.pStart \in Units \cup {NULL} /\ b.pLast \in Units \cup {NULL} /\ b.clusterCount \in Int
           /\ b.held \in SUBSET Units /\ b.pNext \in [Units -> Units \cup {NULL}] /\ b.data \in [Units -> Held]
BY DEF Buffers, Record

\* The types of the fields.
Typed(s, l, n, h, nx, d) ==
    /\ s \in Units \cup {NULL} /\ l \in Units \cup {NULL} /\ n \in Int /\ h \in SUBSET Units
    /\ nx \in [Units -> Units \cup {NULL}] /\ d \in [Units -> Held]

\* And what has such fields is a buffer.
LEMMA RecordIn ==
    ASSUME NEW s, NEW l, NEW n, NEW h, NEW nx, NEW d, Typed(s, l, n, h, nx, d), NEW b, b = Record(s, l, n, h, nx, d)
    PROVE  /\ b \in Buffers /\ b.pStart = s /\ b.pLast = l /\ b.clusterCount = n
           /\ b.held = h /\ b.pNext = nx /\ b.data = d
<1>1. Record(s, l, n, h, nx, d) \in Buffers
    BY DEF Buffers, Record, Typed
<1>2. /\ b.pStart = s /\ b.pLast = l /\ b.clusterCount = n /\ b.held = h /\ b.pNext = nx /\ b.data = d
    BY DEF Record
<1> QED BY <1>1, <1>2

\* No cluster holds more than it has room for.
LEMMA HeldIs == \A u \in Units : \A d \in [Units -> Held] : d[u] \in Seq(Bytes) /\ Len(d[u]) \in 0 .. Capacity
BY BufferAssumption DEF Held

\* Forgetting about the room.
LEMMA HeldSeq == \A d \in [Units -> Held] : d \in [Units -> Seq(Bytes)]
BY DEF Held

\* Cluster c between those of P and those of Q.
Apart(b, P, c, Q) ==
    /\ Segment(b.pNext, b.pStart, P, c) /\ b.pNext[c] = HeadOr(Q, NULL)
    /\ Segment(b.pNext, b.pNext[c], Q, NULL)
    /\ c \notin Range(P) /\ c \notin Range(Q) /\ Range(P) \cap Range(Q) = {}
    /\ b.held = Range(P) \cup {c} \cup Range(Q)
    /\ b.clusterCount = Len(P) + 1 + Len(Q)
    /\ b.pLast = IF Q = Nil THEN c ELSE End(Q)

\* A list, seen from one of its clusters.
LEMMA LinkedApart ==
    ASSUME NEW b, NEW P \in Seq(Units), NEW c \in Units, NEW Q \in Seq(Units),
           Linked(b, P ++ (One(c) ++ Q))
    PROVE  Apart(b, P, c, Q)
<1>1. One(c) \in Seq(Units) /\ One(c) # Nil /\ Len(One(c)) = 1
    BY UnitSeq
<1>2. One(c) ++ Q \in Seq(Units)
    BY <1>1, JoinIs
<1>3. HeadOr(One(c) ++ Q, NULL) = c
    BY <1>1, HeadOrJoin, EndOne
<1>4. Segment(b.pNext, b.pStart, P ++ (One(c) ++ Q), NULL)
    BY DEF Linked
<1>5. /\ Segment(b.pNext, b.pStart, P, c) /\ Segment(b.pNext, c, One(c) ++ Q, NULL)
      /\ Range(P) \cap Range(One(c) ++ Q) = {}
    BY <1>2, <1>3, <1>4, SegmentJoin
<1>6. /\ Segment(b.pNext, c, One(c), HeadOr(Q, NULL)) /\ Segment(b.pNext, HeadOr(Q, NULL), Q, NULL)
      /\ Range(One(c)) \cap Range(Q) = {}
    BY <1>1, <1>5, SegmentJoin
<1>7. b.pNext[c] = HeadOr(Q, NULL)
    BY <1>6, SegmentAt
<1>8. Range(One(c) ++ Q) = {c} \cup Range(Q) /\ Range(One(c)) = {c}
    BY <1>1, RangeIs, RangeOne
<1>9. Range(P ++ (One(c) ++ Q)) = Range(P) \cup Range(One(c) ++ Q)
    BY <1>2, RangeIs
<1>10. Len(P ++ (One(c) ++ Q)) = Len(P) + Len(One(c) ++ Q)
    BY <1>2, JoinIs
<1>11. Len(One(c) ++ Q) = 1 + Len(Q)
    <2>1. Len(One(c) ++ Q) = Len(One(c)) + Len(Q)
        BY <1>1, JoinLen
    <2> QED BY <1>1, <2>1
<1>12. One(c) ++ Q # Nil
    BY <1>2, <1>11, NilIs
<1>13. End(P ++ (One(c) ++ Q)) = End(One(c) ++ Q)
    BY <1>2, <1>12, EndJoin
<1>14. End(One(c) ++ Q) = IF Q = Nil THEN c ELSE End(Q)
    BY <1>1, EndJoin, EndOne
<1>15. b.clusterCount = Len(P) + 1 + Len(Q)
    BY <1>10, <1>11 DEF Linked
<1>16. b.held = Range(P) \cup {c} \cup Range(Q)
    BY <1>8, <1>9 DEF Linked
<1>17. b.pLast = IF Q = Nil THEN c ELSE End(Q)
    BY <1>13, <1>14 DEF Linked
<1> QED BY <1>5, <1>6, <1>7, <1>8, <1>15, <1>16, <1>17 DEF Apart

\* The same, not to be unfolded where it is used.
LEMMA LinkedAround ==
    ASSUME NEW b, NEW P \in Seq(Units), NEW c \in Units, NEW Q \in Seq(Units),
           Linked(b, P ++ (One(c) ++ Q))
    PROVE  /\ Segment(b.pNext, b.pStart, P, c) /\ b.pNext[c] = HeadOr(Q, NULL)
           /\ Segment(b.pNext, b.pNext[c], Q, NULL)
           /\ c \notin Range(P) /\ c \notin Range(Q) /\ Range(P) \cap Range(Q) = {}
           /\ b.held = Range(P) \cup {c} \cup Range(Q)
           /\ b.clusterCount = Len(P) + 1 + Len(Q)
           /\ b.pLast = IF Q = Nil THEN c ELSE End(Q)
BY LinkedApart DEF Apart

\* And back.
LEMMA LinkedAroundIs ==
    ASSUME NEW b, NEW P \in Seq(Units), NEW c \in Units, NEW Q \in Seq(Units),
           Segment(b.pNext, b.pStart, P, c), Segment(b.pNext, b.pNext[c], Q, NULL),
           c \notin Range(P), c \notin Range(Q), Range(P) \cap Range(Q) = {},
           b.held = Range(P) \cup {c} \cup Range(Q), b.clusterCount = Len(P) + 1 + Len(Q),
           b.pLast = IF Q = Nil THEN c ELSE End(Q)
    PROVE  Linked(b, P ++ (One(c) ++ Q))
<1>1. One(c) \in Seq(Units) /\ One(c) # Nil /\ Len(One(c)) = 1
    BY UnitSeq
<1>2. One(c) ++ Q \in Seq(Units)
    BY <1>1, JoinIs
<1>3. HeadOr(One(c) ++ Q, NULL) = c
    BY <1>1, HeadOrJoin, EndOne
<1>7. b.pNext[c] = HeadOr(Q, NULL)
    BY DEF Segment
<1>6. Segment(b.pNext, c, One(c), HeadOr(Q, NULL)) /\ Segment(b.pNext, HeadOr(Q, NULL), Q, NULL)
    BY <1>7, SegmentMade
<1>8. Range(One(c) ++ Q) = {c} \cup Range(Q) /\ Range(One(c)) = {c}
    BY <1>1, RangeIs, RangeOne
<1>5. Segment(b.pNext, c, One(c) ++ Q, NULL)
    BY <1>1, <1>6, <1>8, SegmentJoin
<1>4. Segment(b.pNext, b.pStart, P ++ (One(c) ++ Q), NULL)
    BY <1>2, <1>3, <1>5, <1>8, SegmentJoin
<1>9. Range(P ++ (One(c) ++ Q)) = Range(P) \cup Range(One(c) ++ Q)
    BY <1>2, RangeIs
<1>10. Len(P ++ (One(c) ++ Q)) = Len(P) + Len(One(c) ++ Q)
    BY <1>2, JoinIs
<1>11. Len(One(c) ++ Q) = 1 + Len(Q)
    <2>1. Len(One(c) ++ Q) = Len(One(c)) + Len(Q)
        BY <1>1, JoinLen
    <2> QED BY <1>1, <2>1
<1>12. One(c) ++ Q # Nil
    BY <1>2, <1>11, NilIs
<1>13. End(P ++ (One(c) ++ Q)) = End(One(c) ++ Q)
    BY <1>2, <1>12, EndJoin
<1>14. End(One(c) ++ Q) = IF Q = Nil THEN c ELSE End(Q)
    BY <1>1, EndJoin, EndOne
<1>15. b.clusterCount = Len(P ++ (One(c) ++ Q))
    BY <1>10, <1>11
<1>16. b.held = Range(P ++ (One(c) ++ Q))
    BY <1>8, <1>9
<1>17. b.pLast = End(P ++ (One(c) ++ Q))
    BY <1>13, <1>14
<1> QED BY <1>4, <1>15, <1>16, <1>17 DEF Linked

\* f and g agree on all units but u.
Elsewhere(f, g, u) == \A v \in Units : v # u => f[v] = g[v]

\* The fields of a buffer after a cluster went.
LEMMA FreeFields ==
    ASSUME NEW b \in Buffers, NEW c \in Units, NEW p \in Units \cup {NULL}, NEW f, f = _buffer_free_cluster(b, c, p)
    PROVE  /\ f \in Buffers /\ f.data = b.data /\ f.held = b.held \ {c} /\ f.clusterCount = b.clusterCount - 1
           /\ p = NULL => f.pNext = b.pNext /\ f.pStart = b.pNext[c] /\ f.pLast = b.pLast
           /\ p # NULL => /\ f.pNext[p] = b.pNext[c] /\ Elsewhere(f.pNext, b.pNext, p)
                          /\ f.pStart = b.pStart /\ f.pLast = (IF b.pLast = c THEN p ELSE b.pLast)
<1>1. PICK s, l, n, h, nx, d : /\ s = b.pStart /\ l = b.pLast /\ n = b.clusterCount /\ h = b.held
                               /\ nx = b.pNext /\ d = b.data
    OBVIOUS
<1>2. /\ b = Record(s, l, n, h, nx, d)
      /\ s \in Units \cup {NULL} /\ l \in Units \cup {NULL} /\ n \in Int /\ h \in SUBSET Units
      /\ nx \in [Units -> Units \cup {NULL}] /\ d \in [Units -> Held] /\ NULL \notin Units
    BY <1>1, RecordIs, BufferAssumption
<1>3. n - 1 \in Int /\ h \ {c} \in SUBSET Units
    BY <1>2
<1>4. CASE p = NULL
    <2>1. f = Record(nx[c], l, n - 1, h \ {c}, nx, d)
        BY <1>2, <1>4 DEF _buffer_free_cluster, Record
    <2>2. nx[c] \in Units \cup {NULL}
        BY <1>2
    <2>3. /\ f \in Buffers /\ f.pStart = nx[c] /\ f.pLast = l /\ f.clusterCount = n - 1
          /\ f.held = h \ {c} /\ f.pNext = nx /\ f.data = d
        <3>1. Typed(nx[c], l, n - 1, h \ {c}, nx, d)
            BY <1>2, <1>3, <2>2 DEF Typed
        <3> QED BY <2>1, <3>1, RecordIn
    <2> QED BY <1>1, <1>4, <2>3
<1>5. CASE p # NULL
    <2>1. f = Record(s, IF l = c THEN p ELSE l, n - 1, h \ {c}, [nx EXCEPT ![p] = nx[c]], d)
        BY <1>2, <1>5 DEF _buffer_free_cluster, Record
    <2>2. PICK m : m = [nx EXCEPT ![p] = nx[c]]
        OBVIOUS
    <2>3. PICK k : k = IF l = c THEN p ELSE l
        OBVIOUS
    <2>4. m \in [Units -> Units \cup {NULL}] /\ k \in Units \cup {NULL}
        BY <1>2, <2>2, <2>3
    <2>5. f = Record(s, k, n - 1, h \ {c}, m, d)
        BY <2>1, <2>2, <2>3, Zenon
    <2>6. /\ f \in Buffers /\ f.pStart = s /\ f.pLast = k /\ f.clusterCount = n - 1
          /\ f.held = h \ {c} /\ f.pNext = m /\ f.data = d
        <3>1. Typed(s, k, n - 1, h \ {c}, m, d)
            BY <1>2, <1>3, <2>4 DEF Typed
        <3> QED BY <2>5, <3>1, RecordIn
    <2>7. m[p] = nx[c] /\ Elsewhere(m, nx, p)
        BY <1>2, <1>5, <2>2 DEF Elsewhere
    <2>8. f.pNext[p] = b.pNext[c] /\ Elsewhere(f.pNext, b.pNext, p)
        BY <1>1, <2>6, <2>7
    <2> QED BY <1>1, <1>5, <2>3, <2>6, <2>8
<1> QED BY <1>4, <1>5

\* A freed cluster is out of the list.
LEMMA FreeIs ==
    ASSUME NEW b \in Buffers, NEW P \in Seq(Units), NEW c \in Units, NEW Q \in Seq(Units),
           Linked(b, P ++ (One(c) ++ Q)), P # Nil \/ Q # Nil, NEW f, f = _buffer_free_cluster(b, c, End(P))
    PROVE  f \in Buffers /\ Linked(f, P ++ Q) /\ f.data = b.data
<1>1. /\ Segment(b.pNext, b.pStart, P, c) /\ b.pNext[c] = HeadOr(Q, NULL)
      /\ Segment(b.pNext, b.pNext[c], Q, NULL)
      /\ c \notin Range(P) /\ c \notin Range(Q) /\ Range(P) \cap Range(Q) = {}
      /\ b.held = Range(P) \cup {c} \cup Range(Q)
      /\ b.clusterCount = Len(P) + 1 + Len(Q)
      /\ b.pLast = IF Q = Nil THEN c ELSE End(Q)
    BY LinkedAround
<1>2. b.pNext[c] \in Units \cup {NULL} /\ NULL \notin Units /\ Len(P) \in Nat /\ Len(Q) \in Nat
    BY BufferAssumption DEF Buffers
<1>3. CASE P = Nil
    <2>1. /\ f \in Buffers /\ f.data = b.data /\ f.pNext = b.pNext /\ f.pStart = b.pNext[c]
          /\ f.pLast = b.pLast /\ f.held = b.held \ {c} /\ f.clusterCount = b.clusterCount - 1
        <3>1. NULL \in Units \cup {NULL} /\ f = _buffer_free_cluster(b, c, NULL)
            BY <1>3, EndOne
        <3> QED BY <3>1, FreeFields
    <2>2. f.held = Range(Q) /\ f.clusterCount = Len(Q) /\ f.pLast = End(Q)
        <3>1. Range(P) = {} /\ Len(P) = 0
            BY <1>3, RangeOne, NilIs
        <3>2. f.held = Range(Q)
            BY <1>1, <2>1, <3>1
        <3>3. f.clusterCount = Len(Q)
            BY <1>1, <1>2, <2>1, <3>1
        <3>4. Q # Nil
            BY <1>3
        <3> QED BY <1>1, <2>1, <3>2, <3>3, <3>4
    <2>3. Segment(f.pNext, f.pStart, Q, NULL)
        BY <1>1, <2>1
    <2>4. P ++ Q = Q
        BY <1>3, JoinNone
    <2> QED BY <2>1, <2>2, <2>3, <2>4 DEF Linked
<1>4. CASE P # Nil
    <2>1. PICK p \in Units, O \in Seq(Units) : P = O ++ One(p) /\ Len(P) = Len(O) + 1 /\ End(P) = p
        BY <1>4, LastSplit
    <2>2. /\ f \in Buffers /\ f.data = b.data /\ f.pStart = b.pStart
          /\ f.pNext[p] = b.pNext[c] /\ Elsewhere(f.pNext, b.pNext, p)
          /\ f.pLast = (IF b.pLast = c THEN p ELSE b.pLast) /\ f.held = b.held \ {c}
          /\ f.clusterCount = b.clusterCount - 1
        <3>1. p \in Units \cup {NULL} /\ p # NULL /\ f = _buffer_free_cluster(b, c, p)
            BY <1>2, <2>1
        <3>2. /\ f \in Buffers /\ f.data = b.data /\ f.pStart = b.pStart
              /\ f.pNext[p] = b.pNext[c]
              /\ f.pLast = (IF b.pLast = c THEN p ELSE b.pLast) /\ f.held = b.held \ {c}
              /\ f.clusterCount = b.clusterCount - 1
            BY <3>1, FreeFields
        <3>3. Elsewhere(f.pNext, b.pNext, p)
            BY <3>1, FreeFields
        <3> QED BY <3>2, <3>3
    <2>3. One(p) \in Seq(Units) /\ One(p) # Nil
        BY UnitSeq
    <2>4. Range(P) = Range(O) \cup {p}
        BY <2>1, <2>3, RangeIs, RangeOne
    <2>5. Segment(b.pNext, b.pStart, O, p) /\ p \notin Range(O)
        <3>1. Segment(b.pNext, b.pStart, O ++ One(p), c)
            BY <1>1, <2>1
        <3>2. Segment(b.pNext, b.pStart, O, HeadOr(One(p), c)) /\ Range(O) \cap Range(One(p)) = {}
            BY <2>3, <3>1, SegmentJoin
        <3>3. HeadOr(One(p), c) = p /\ Range(One(p)) = {p}
            BY EndOne, RangeOne
        <3> QED BY <3>2, <3>3
    <2>6. b.pNext \in [Units -> Units \cup {NULL}] /\ Range(O) \subseteq Units /\ Range(Q) \subseteq Units
        BY RangeIs DEF Buffers
    <2>7. /\ \A u \in Range(O) : f.pNext[u] = b.pNext[u]
          /\ \A u \in Range(Q) : f.pNext[u] = b.pNext[u]
          /\ f.pNext[p] = b.pNext[c]
        BY <1>1, <2>2, <2>4, <2>5, <2>6 DEF Elsewhere
    <2>8. Segment(f.pNext, f.pStart, O, p) /\ Segment(f.pNext, f.pNext[p], Q, NULL)
        <3>1. Segment(f.pNext, b.pStart, O, p)
            BY <2>5, <2>7, SegmentSame
        <3>2. Segment(f.pNext, b.pNext[c], Q, NULL)
            BY <1>1, <2>7, SegmentSame
        <3> QED BY <2>2, <2>7, <3>1, <3>2
    <2>9. f.held = Range(O) \cup {p} \cup Range(Q) /\ p \notin Range(Q) /\ Range(O) \cap Range(Q) = {}
        BY <1>1, <2>2, <2>4
    <2>10. f.clusterCount = Len(O) + 1 + Len(Q)
        <3>1. Len(O) \in Nat
            OBVIOUS
        <3> QED BY <1>1, <1>2, <2>1, <2>2, <3>1
    <2>11. f.pLast = IF Q = Nil THEN p ELSE End(Q)
        BY <1>1, <2>2, EndIn
    <2>12. Linked(f, O ++ (One(p) ++ Q))
        BY <2>5, <2>8, <2>9, <2>10, <2>11, LinkedAroundIs
    <2>13. O ++ (One(p) ++ Q) = P ++ Q
        BY <2>1, <2>3, JoinAssociative
    <2> QED BY <2>2, <2>12, <2>13
<1> QED BY <1>3, <1>4

\* The list in two parts.
LEMMA LinkedSplit ==
    ASSUME NEW b, NEW P \in Seq(Units), NEW Q \in Seq(Units), Linked(b, P ++ Q)
    PROVE  /\ Segment(b.pNext, b.pStart, P, HeadOr(Q, NULL)) /\ Segment(b.pNext, HeadOr(Q, NULL), Q, NULL)
           /\ Range(P) \cap Range(Q) = {} /\ b.held = Range(P) \cup Range(Q)
           /\ b.clusterCount = Len(P) + Len(Q) /\ b.pLast = (IF Q = Nil THEN End(P) ELSE End(Q))
<1>1. Segment(b.pNext, b.pStart, P ++ Q, NULL)
    BY DEF Linked
<1>2. /\ Segment(b.pNext, b.pStart, P, HeadOr(Q, NULL)) /\ Segment(b.pNext, HeadOr(Q, NULL), Q, NULL)
      /\ Range(P) \cap Range(Q) = {}
    BY <1>1, SegmentJoin
<1>3. b.held = Range(P) \cup Range(Q)
    BY RangeIs DEF Linked
<1>4. b.clusterCount = Len(P) + Len(Q)
    BY JoinLen DEF Linked
<1>5. b.pLast = (IF Q = Nil THEN End(P) ELSE End(Q))
    BY EndJoin DEF Linked
<1> QED BY <1>2, <1>3, <1>4, <1>5

\* f and g agree on all units but u and w.
Otherwise(f, g, u, w) == \A v \in Units : v # u /\ v # w => f[v] = g[v]

\* Who leaves alone all but one leaves alone all but two.
LEMMA Otherwhere == \A f, g, u, w : Elsewhere(f, g, u) => Otherwise(f, g, u, w) /\ Otherwise(f, g, w, u)
BY DEF Elsewhere, Otherwise

\* Links changed elsewhere do not matter to a segment.
LEMMA SegmentElse ==
    ASSUME NEW nx, NEW ny, NEW c, NEW s \in Seq(Units), NEW e, NEW u, NEW w,
           Segment(nx, c, s, e), Otherwise(ny, nx, u, w), u \notin Range(s), w \notin Range(s)
    PROVE  Segment(ny, c, s, e)
<1>1. Range(s) \subseteq Units
    BY RangeIs
<1>2. \A v \in Range(s) : ny[v] = nx[v]
    BY <1>1 DEF Otherwise
<1> QED BY <1>2, SegmentSame

\* A segment that ends elsewhere, since its last cluster now leads there.
LEMMA Relinked ==
    ASSUME NEW nx, NEW ny, NEW c, NEW O \in Seq(Units), NEW p \in Units, NEW e, NEW u, NEW w,
           Segment(nx, c, O ++ One(p), e), Otherwise(ny, nx, w, p), w \notin Range(O), ny[p] = u
    PROVE  Segment(ny, c, O ++ One(p), u)
<1>1. One(p) \in Seq(Units)
    BY UnitSeq
<1>2. Segment(nx, c, O, HeadOr(One(p), e)) /\ Range(O) \cap Range(One(p)) = {}
    BY <1>1, SegmentJoin
<1>3. HeadOr(One(p), e) = p /\ HeadOr(One(p), u) = p
    BY EndOne
<1>4. p \notin Range(O)
    BY <1>2, RangeOne
<1>5. Segment(nx, c, O, p)
    BY <1>2, <1>3
<1>6. Segment(ny, c, O, p)
    BY <1>4, <1>5, SegmentElse
<1>7. Segment(ny, p, One(p), u)
    BY SegmentMade
<1> QED BY <1>1, <1>2, <1>3, <1>6, <1>7, SegmentJoin

\* Nor do bytes changed elsewhere matter to a run.
LEMMA CatElse ==
    ASSUME NEW d, NEW e, NEW s \in Seq(Units), NEW u, Elsewhere(d, e, u), u \notin Range(s)
    PROVE  Cat(d, s) = Cat(e, s)
<1>1. Range(s) = {s[i] : i \in 1 .. Len(s)} /\ Range(s) \subseteq Units
    BY RangeIs
<1>2. \A i \in 1 .. Len(s) : d[s[i]] = e[s[i]]
    BY <1>1 DEF Elsewhere
<1> QED BY <1>2, CatSame

\* An empty cluster.
LEMMA NilHeld == Nil \in Held
BY NilIs, BufferAssumption DEF Held

\* The fields of a buffer after a cluster came to its end.
LEMMA GrowFields ==
    ASSUME NEW b \in Buffers, NEW u \in Units, u \notin b.held, NEW g, g = _buffer_alloc_new_cluster(b, u),
           b.pStart = NULL \/ b.pLast \in b.held
    PROVE  /\ g \in Buffers /\ g.data[u] = Nil /\ Elsewhere(g.data, b.data, u)
           /\ g.held = b.held \cup {u} /\ g.clusterCount = b.clusterCount + 1 /\ g.pLast = u /\ g.pNext[u] = NULL
           /\ b.pStart = NULL => g.pStart = u /\ Elsewhere(g.pNext, b.pNext, u)
           /\ b.pStart # NULL => /\ g.pStart = b.pStart /\ Otherwise(g.pNext, b.pNext, u, b.pLast)
                                 /\ g.pNext[b.pLast] = u
<1>1. PICK s, l, n, h, nx, d : /\ s = b.pStart /\ l = b.pLast /\ n = b.clusterCount /\ h = b.held
                               /\ nx = b.pNext /\ d = b.data
    OBVIOUS
<1>2. /\ b = Record(s, l, n, h, nx, d)
      /\ s \in Units \cup {NULL} /\ l \in Units \cup {NULL} /\ n \in Int /\ h \in SUBSET Units
      /\ nx \in [Units -> Units \cup {NULL}] /\ d \in [Units -> Held] /\ NULL \notin Units
    BY <1>1, RecordIs, BufferAssumption
<1>3. PICK m : m = IF s = NULL THEN [nx EXCEPT ![u] = NULL] ELSE [nx EXCEPT ![u] = NULL, ![l] = u]
    OBVIOUS
<1>4. PICK e : e = [d EXCEPT ![u] = <<>>]
    OBVIOUS
<1>5. PICK t : t = IF s = NULL THEN u ELSE s
    OBVIOUS
<1>5a. PICK k : k = h \cup {u}
    OBVIOUS
<1>6. g = Record(t, u, n + 1, k, m, e)
    BY <1>2, <1>3, <1>4, <1>5, <1>5a DEF _buffer_alloc_new_cluster, Record
<1>7. /\ t \in Units \cup {NULL} /\ u \in Units \cup {NULL} /\ n + 1 \in Int /\ k \in SUBSET Units
      /\ m \in [Units -> Units \cup {NULL}]
    <2>1. [nx EXCEPT ![u] = NULL] \in [Units -> Units \cup {NULL}]
        BY <1>2
    <2>2. [nx EXCEPT ![u] = NULL, ![l] = u] \in [Units -> Units \cup {NULL}]
        BY <1>2
    <2>3. m \in [Units -> Units \cup {NULL}]
        BY <1>3, <2>1, <2>2
    <2>4. t \in Units \cup {NULL} /\ u \in Units \cup {NULL} /\ n + 1 \in Int /\ k \in SUBSET Units
        BY <1>2, <1>5, <1>5a
    <2> QED BY <2>3, <2>4
<1>8. e \in [Units -> Held] /\ e[u] = Nil /\ Elsewhere(e, d, u)
    <2>1. <<>> \in Held
        BY NilHeld DEF Nil
    <2>2. e \in [Units -> Held] /\ e[u] = <<>>
        BY <1>2, <1>4, <2>1
    <2>3. Elsewhere(e, d, u)
        BY <1>2, <1>4 DEF Elsewhere
    <2> QED BY <2>2, <2>3 DEF Nil
<1>9. /\ m[u] = NULL \/ (s # NULL /\ u = l)
      /\ s = NULL => Elsewhere(m, nx, u)
      /\ s # NULL /\ l \in Units => Otherwise(m, nx, u, l) /\ m[l] = u
    BY <1>2, <1>3 DEF Elsewhere, Otherwise
<1>10. /\ g \in Buffers /\ g.pStart = t /\ g.pLast = u /\ g.clusterCount = n + 1
       /\ g.held = k /\ g.pNext = m /\ g.data = e
    <2>1. Typed(t, u, n + 1, k, m, e)
        BY <1>7, <1>8 DEF Typed
    <2> QED BY <1>6, <2>1, RecordIn
<1>11. s # NULL => l \in Units /\ l # u
    BY <1>1, <1>2
<1>12. g \in Buffers /\ g.data[u] = Nil /\ Elsewhere(g.data, b.data, u)
    BY <1>1, <1>8, <1>10
<1>13. g.held = b.held \cup {u} /\ g.clusterCount = b.clusterCount + 1 /\ g.pLast = u /\ g.pNext[u] = NULL
    BY <1>1, <1>5a, <1>9, <1>10, <1>11
<1>14. b.pStart = NULL => g.pStart = u /\ Elsewhere(g.pNext, b.pNext, u)
    BY <1>1, <1>5, <1>9, <1>10
<1>15. b.pStart # NULL => /\ g.pStart = b.pStart /\ Otherwise(g.pNext, b.pNext, u, b.pLast)
                          /\ g.pNext[b.pLast] = u
    BY <1>1, <1>5, <1>9, <1>10, <1>11
<1> QED BY <1>12, <1>13, <1>14, <1>15

\* The list begins with NULL when it is empty only.
LEMMA StartIs ==
    ASSUME NEW b, NEW s, Linked(b, s)
    PROVE  s \in Seq(Units) /\ b.pStart = HeadOr(s, NULL) /\ (b.pStart = NULL <=> s = Nil)
<1>1. s \in Seq(Units) /\ b.pStart = HeadOr(s, NULL)
    BY DEF Linked, Segment
<1>2. CASE s = Nil
    BY <1>1, <1>2, EndOne
<1>3. CASE s # Nil
    <2>1. HeadOr(s, NULL) \in Range(s) /\ Range(s) \subseteq Units
        BY <1>1, <1>3, EndIn, RangeIs
    <2> QED BY <1>1, <1>3, <2>1, BufferAssumption
<1> QED BY <1>2, <1>3

\* A new cluster is the last of the list, and empty.
LEMMA GrowIs ==
    ASSUME NEW b \in Buffers, NEW s, Linked(b, s), NEW u \in Units, u \notin b.held,
           NEW g, g = _buffer_alloc_new_cluster(b, u)
    PROVE  /\ g \in Buffers /\ Linked(g, s ++ One(u)) /\ g.data[u] = Nil
           /\ Elsewhere(g.data, b.data, u) /\ u \notin Range(s)
<1>0. s \in Seq(Units) /\ b.pStart = HeadOr(s, NULL) /\ (b.pStart = NULL <=> s = Nil) /\ NULL \notin Units
    BY StartIs, BufferAssumption
<1>1. /\ Segment(b.pNext, b.pStart, s, NULL) /\ Range(s) = b.held
      /\ b.clusterCount = Len(s) /\ b.pLast = End(s)
    BY DEF Linked
<1>2. b.pStart = NULL \/ b.pLast \in b.held
    BY <1>0, <1>1, EndIn
<1>3. /\ g \in Buffers /\ g.data[u] = Nil /\ Elsewhere(g.data, b.data, u)
      /\ g.held = b.held \cup {u} /\ g.clusterCount = b.clusterCount + 1 /\ g.pLast = u /\ g.pNext[u] = NULL
    BY <1>2, GrowFields
<1>4. Nil \in Seq(Units) /\ One(u) \in Seq(Units) /\ Len(s) \in Nat /\ Len(Nil) = 0
    BY <1>0, NilIs, UnitSeq
<1>5. One(u) ++ Nil = One(u) /\ Range(Nil) = {}
    BY <1>4, JoinNone, RangeOne
<1>6. Segment(g.pNext, g.pStart, s, u)
    <2>1. CASE s = Nil
        <3>1. g.pStart = u
            BY <1>0, <1>2, <2>1, GrowFields
        <3> QED BY <2>1, <3>1, SegmentOne
    <2>2. CASE s # Nil
        <3>1. PICK p \in Units, O \in Seq(Units) : s = O ++ One(p) /\ Len(s) = Len(O) + 1 /\ End(s) = p
            BY <1>0, <2>2, LastSplit
        <3>2. g.pStart = b.pStart /\ Otherwise(g.pNext, b.pNext, u, p) /\ g.pNext[p] = u
            <4>1. b.pStart # NULL /\ b.pLast = p
                BY <1>0, <1>1, <2>2, <3>1
            <4> QED BY <1>2, <4>1, GrowFields
        <3>3. u \notin Range(O)
            <4>1. One(p) \in Seq(Units) /\ Range(s) = Range(O) \cup Range(One(p))
                BY <3>1, UnitSeq, RangeIs
            <4> QED BY <1>1, <4>1
        <3>4. Segment(b.pNext, b.pStart, O ++ One(p), NULL)
            BY <1>1, <3>1
        <3>5. Segment(g.pNext, b.pStart, O ++ One(p), u)
            BY <3>2, <3>3, <3>4, Relinked
        <3> QED BY <3>1, <3>2, <3>5
    <2> QED BY <2>1, <2>2
<1>7. Segment(g.pNext, g.pNext[u], Nil, NULL)
    BY <1>3, SegmentOne
<1>8. u \notin Range(s) /\ u \notin Range(Nil) /\ Range(s) \cap Range(Nil) = {}
    BY <1>1, <1>5
<1>9. g.held = Range(s) \cup {u} \cup Range(Nil) /\ g.clusterCount = Len(s) + 1 + Len(Nil)
    BY <1>1, <1>3, <1>4, <1>5
<1>10. Linked(g, s ++ (One(u) ++ Nil))
    BY <1>0, <1>3, <1>4, <1>6, <1>7, <1>8, <1>9, LinkedAroundIs
<1> QED BY <1>3, <1>5, <1>8, <1>10

\* The fields of a buffer after a cluster came behind p, or to the front.
LEMMA InsertFields ==
    ASSUME NEW b \in Buffers, NEW u \in Units, NEW p \in Units \cup {NULL}, p # u,
           NEW g, g = _buffer_alloc_new_cluster_and_insert_after(b, u, p)
    PROVE  /\ g \in Buffers /\ g.data[u] = Nil /\ Elsewhere(g.data, b.data, u)
           /\ g.held = b.held \cup {u} /\ g.clusterCount = b.clusterCount + 1
           /\ p = NULL => /\ g.pStart = u /\ g.pNext[u] = b.pStart /\ Elsewhere(g.pNext, b.pNext, u)
                          /\ g.pLast = IF b.pLast = NULL THEN u ELSE b.pLast
           /\ p # NULL => /\ g.pStart = b.pStart /\ g.pNext[u] = b.pNext[p] /\ g.pNext[p] = u
                          /\ Otherwise(g.pNext, b.pNext, u, p)
                          /\ g.pLast = IF b.pLast = p THEN u ELSE b.pLast
<1>1. PICK s, l, n, h, nx, d : /\ s = b.pStart /\ l = b.pLast /\ n = b.clusterCount /\ h = b.held
                               /\ nx = b.pNext /\ d = b.data
    OBVIOUS
<1>2. /\ b = Record(s, l, n, h, nx, d)
      /\ s \in Units \cup {NULL} /\ l \in Units \cup {NULL} /\ n \in Int /\ h \in SUBSET Units
      /\ nx \in [Units -> Units \cup {NULL}] /\ d \in [Units -> Held] /\ NULL \notin Units
    BY <1>1, RecordIs, BufferAssumption
<1>3. PICK m : m = IF p = NULL THEN [nx EXCEPT ![u] = s] ELSE [nx EXCEPT ![u] = nx[p], ![p] = u]
    OBVIOUS
<1>4. PICK e : e = [d EXCEPT ![u] = <<>>]
    OBVIOUS
<1>5. PICK t : t = IF p = NULL THEN u ELSE s
    OBVIOUS
<1>6. PICK k : k = h \cup {u}
    OBVIOUS
<1>7. PICK a : a = IF p = NULL THEN (IF l = NULL THEN u ELSE l) ELSE (IF l = p THEN u ELSE l)
    OBVIOUS
<1>8. g = Record(t, a, n + 1, k, m, e)
    <2>1. CASE p = NULL
        BY <1>2, <1>3, <1>4, <1>5, <1>6, <1>7, <2>1 DEF _buffer_alloc_new_cluster_and_insert_after, Record
    <2>2. CASE p # NULL
        BY <1>2, <1>3, <1>4, <1>5, <1>6, <1>7, <2>2 DEF _buffer_alloc_new_cluster_and_insert_after, Record
    <2> QED BY <2>1, <2>2
<1>9. e \in [Units -> Held] /\ e[u] = Nil /\ Elsewhere(e, d, u)
    <2>1. <<>> \in Held
        BY NilHeld DEF Nil
    <2>2. e \in [Units -> Held] /\ e[u] = <<>>
        BY <1>2, <1>4, <2>1
    <2>3. Elsewhere(e, d, u)
        BY <1>2, <1>4 DEF Elsewhere
    <2> QED BY <2>2, <2>3 DEF Nil
<1>10. m \in [Units -> Units \cup {NULL}]
    <2>1. CASE p = NULL
        BY <1>2, <1>3, <2>1
    <2>2. CASE p # NULL
        BY <1>2, <1>3, <2>2
    <2> QED BY <2>1, <2>2
<1>11. /\ p = NULL => m[u] = s /\ Elsewhere(m, nx, u)
       /\ p # NULL => m[u] = nx[p] /\ m[p] = u /\ Otherwise(m, nx, u, p)
    BY <1>2, <1>3 DEF Elsewhere, Otherwise
<1>12. Typed(t, a, n + 1, k, m, e)
    BY <1>2, <1>5, <1>6, <1>7, <1>9, <1>10 DEF Typed
<1>13. /\ g \in Buffers /\ g.pStart = t /\ g.pLast = a /\ g.clusterCount = n + 1
       /\ g.held = k /\ g.pNext = m /\ g.data = e
    BY <1>8, <1>12, RecordIn
<1>14. /\ g \in Buffers /\ g.data[u] = Nil /\ Elsewhere(g.data, b.data, u)
       /\ g.held = b.held \cup {u} /\ g.clusterCount = b.clusterCount + 1
    BY <1>1, <1>6, <1>9, <1>13
<1>15. p = NULL => /\ g.pStart = u /\ g.pNext[u] = b.pStart /\ Elsewhere(g.pNext, b.pNext, u)
                   /\ g.pLast = IF b.pLast = NULL THEN u ELSE b.pLast
    BY <1>1, <1>5, <1>7, <1>11, <1>13
<1>16. p # NULL => /\ g.pStart = b.pStart /\ g.pNext[u] = b.pNext[p] /\ g.pNext[p] = u
                   /\ Otherwise(g.pNext, b.pNext, u, p)
                   /\ g.pLast = IF b.pLast = p THEN u ELSE b.pLast
    BY <1>1, <1>5, <1>7, <1>11, <1>13
<1> QED BY <1>14, <1>15, <1>16

\* A new cluster is where it was to be inserted, and empty.
LEMMA InsertIs ==
    ASSUME NEW b \in Buffers, NEW P \in Seq(Units), NEW Q \in Seq(Units), Linked(b, P ++ Q),
           NEW u \in Units, u \notin b.held,
           NEW g, g = _buffer_alloc_new_cluster_and_insert_after(b, u, End(P))
    PROVE  /\ g \in Buffers /\ Linked(g, P ++ (One(u) ++ Q)) /\ g.data[u] = Nil
           /\ Elsewhere(g.data, b.data, u) /\ u \notin Range(P) /\ u \notin Range(Q)
           /\ g.pNext[u] = HeadOr(Q, NULL)
<1>1. /\ Segment(b.pNext, b.pStart, P, HeadOr(Q, NULL)) /\ Segment(b.pNext, HeadOr(Q, NULL), Q, NULL)
      /\ Range(P) \cap Range(Q) = {} /\ b.held = Range(P) \cup Range(Q)
      /\ b.clusterCount = Len(P) + Len(Q) /\ b.pLast = (IF Q = Nil THEN End(P) ELSE End(Q))
    BY LinkedSplit
<1>2. /\ u \notin Range(P) /\ u \notin Range(Q) /\ NULL \notin Units
      /\ Range(P) \subseteq Units /\ Range(Q) \subseteq Units
    BY <1>1, RangeIs, BufferAssumption
<1>3. Len(P) \in Nat /\ Len(Q) \in Nat
    BY NilIs
<1>4. ASSUME g \in Buffers, g.data[u] = Nil, Elsewhere(g.data, b.data, u),
             g.held = b.held \cup {u}, g.clusterCount = b.clusterCount + 1,
             Segment(g.pNext, g.pStart, P, u), g.pNext[u] = HeadOr(Q, NULL), Segment(g.pNext, HeadOr(Q, NULL), Q, NULL),
             g.pLast = IF Q = Nil THEN u ELSE End(Q)
      PROVE  Linked(g, P ++ (One(u) ++ Q))
    <2>1. g.held = Range(P) \cup {u} \cup Range(Q) /\ g.clusterCount = Len(P) + 1 + Len(Q)
        BY <1>1, <1>3, <1>4
    <2>2. Segment(g.pNext, g.pNext[u], Q, NULL)
        BY <1>4
    <2> QED BY <1>1, <1>2, <1>4, <2>1, <2>2, LinkedAroundIs
<1>5. CASE P = Nil
    <2>1. End(P) = NULL /\ NULL \in Units \cup {NULL} /\ NULL # u
        BY <1>2, <1>5, EndOne
    <2>2. g = _buffer_alloc_new_cluster_and_insert_after(b, u, NULL)
        BY <2>1
    <2>3. /\ g \in Buffers /\ g.data[u] = Nil /\ Elsewhere(g.data, b.data, u)
          /\ g.held = b.held \cup {u} /\ g.clusterCount = b.clusterCount + 1
        BY <2>1, <2>2, InsertFields
    <2>4. /\ g.pStart = u /\ g.pNext[u] = b.pStart /\ Elsewhere(g.pNext, b.pNext, u)
          /\ g.pLast = IF b.pLast = NULL THEN u ELSE b.pLast
        BY <2>1, <2>2, InsertFields
    <2>5. b.pStart = HeadOr(Q, NULL)
        BY <1>1, <1>5, SegmentOne
    <2>6. Segment(g.pNext, g.pStart, P, u)
        BY <1>5, <2>4, SegmentOne
    <2>7. Segment(g.pNext, HeadOr(Q, NULL), Q, NULL)
        BY <1>1, <1>2, <2>4, SegmentElse, Otherwhere
    <2>8. g.pLast = IF Q = Nil THEN u ELSE End(Q)
        <3>1. Q # Nil => End(Q) # NULL
            BY <1>2, EndIn
        <3> QED BY <1>1, <2>1, <2>4, <3>1
    <2>9. g.pNext[u] = HeadOr(Q, NULL)
        BY <2>4, <2>5
    <2> QED BY <1>2, <1>4, <2>3, <2>6, <2>7, <2>8, <2>9
<1>6. CASE P # Nil
    <2>1. PICK p \in Units, O \in Seq(Units) : P = O ++ One(p) /\ Len(P) = Len(O) + 1 /\ End(P) = p
        BY <1>6, LastSplit
    <2>2. p \in Range(P) /\ p # NULL /\ p # u /\ p \in Units \cup {NULL}
        BY <1>2, <1>6, <2>1, EndIn
    <2>2a. g = _buffer_alloc_new_cluster_and_insert_after(b, u, p)
        BY <2>1
    <2>3. /\ g \in Buffers /\ g.data[u] = Nil /\ Elsewhere(g.data, b.data, u)
          /\ g.held = b.held \cup {u} /\ g.clusterCount = b.clusterCount + 1
        BY <2>2, <2>2a, InsertFields
    <2>4. /\ g.pStart = b.pStart /\ g.pNext[u] = b.pNext[p] /\ g.pNext[p] = u
          /\ Otherwise(g.pNext, b.pNext, u, p)
          /\ g.pLast = IF b.pLast = p THEN u ELSE b.pLast
        BY <2>2, <2>2a, InsertFields
    <2>5. One(p) \in Seq(Units) /\ Range(P) = Range(O) \cup Range(One(p))
        BY <2>1, UnitSeq, RangeIs
    <2>6. Segment(b.pNext, b.pStart, O ++ One(p), HeadOr(Q, NULL))
        BY <1>1, <2>1
    <2>7. b.pNext[p] = HeadOr(Q, NULL)
        <3>1. Segment(b.pNext, p, One(p), HeadOr(Q, NULL))
            <4>1. Segment(b.pNext, HeadOr(One(p), HeadOr(Q, NULL)), One(p), HeadOr(Q, NULL))
                BY <2>5, <2>6, SegmentJoin
            <4> QED BY <4>1, EndOne
        <3> QED BY <3>1, SegmentAt
    <2>8. u \notin Range(O)
        BY <1>2, <2>5
    <2>9. Segment(g.pNext, b.pStart, O ++ One(p), u)
        BY <2>4, <2>6, <2>8, Relinked
    <2>10. Segment(g.pNext, g.pStart, P, u)
        BY <2>1, <2>4, <2>9
    <2>11. p \notin Range(Q)
        BY <1>1, <2>2
    <2>12. Segment(g.pNext, HeadOr(Q, NULL), Q, NULL)
        BY <1>1, <1>2, <2>4, <2>11, SegmentElse
    <2>13. g.pLast = IF Q = Nil THEN u ELSE End(Q)
        <3>1. Q # Nil => End(Q) # p
            BY <2>11, EndIn
        <3> QED BY <1>1, <2>1, <2>4, <3>1
    <2>14. g.pNext[u] = HeadOr(Q, NULL)
        BY <2>4, <2>7
    <2> QED BY <1>2, <1>4, <2>3, <2>10, <2>12, <2>13, <2>14
<1> QED BY <1>5, <1>6

\* The same clusters in the same order.
SameList(g, b) ==
    /\ g.pStart = b.pStart /\ g.pLast = b.pLast /\ g.clusterCount = b.clusterCount
    /\ g.held = b.held /\ g.pNext = b.pNext

\* When only the bytes differ it is the same list.
LEMMA SameLinked ==
    ASSUME NEW g, NEW b, SameList(g, b), NEW s, Linked(b, s)
    PROVE  Linked(g, s)
BY DEF SameList, Linked

\* The fields of a buffer after new data.
LEMMA RecordData ==
    ASSUME NEW s, NEW l, NEW n, NEW h, NEW nx, NEW d, NEW e, Typed(s, l, n, h, nx, d), Typed(s, l, n, h, nx, e),
           NEW b, b = Record(s, l, n, h, nx, d), NEW g, g = Record(s, l, n, h, nx, e)
    PROVE  g \in Buffers /\ g.data = e /\ SameList(g, b)
<1>1. /\ b.pStart = s /\ b.pLast = l /\ b.clusterCount = n /\ b.held = h /\ b.pNext = nx
    BY RecordIn
<1>2. /\ g \in Buffers /\ g.pStart = s /\ g.pLast = l /\ g.clusterCount = n
      /\ g.held = h /\ g.pNext = nx /\ g.data = e
    BY RecordIn
<1> QED BY <1>1, <1>2 DEF SameList

\* The data of one cluster changes, or of two.
DataSet(b, c, x) == [b EXCEPT !.data[c] = x]
DataSetTwo(b, c, x, u, y) == [b EXCEPT !.data[c] = x, !.data[u] = y]

\* One cluster gets other bytes, nothing else changes.
LEMMA DataIs ==
    ASSUME NEW b \in Buffers, NEW c \in Units, NEW x \in Held, NEW g, g = DataSet(b, c, x)
    PROVE  g \in Buffers /\ SameList(g, b) /\ g.data[c] = x /\ Elsewhere(g.data, b.data, c)
<1>1. PICK s, l, n, h, nx, d : /\ s = b.pStart /\ l = b.pLast /\ n = b.clusterCount /\ h = b.held
                               /\ nx = b.pNext /\ d = b.data
    OBVIOUS
<1>2. /\ b = Record(s, l, n, h, nx, d)
      /\ s \in Units \cup {NULL} /\ l \in Units \cup {NULL} /\ n \in Int /\ h \in SUBSET Units
      /\ nx \in [Units -> Units \cup {NULL}] /\ d \in [Units -> Held]
    BY <1>1, RecordIs
<1>3. PICK e : e = [d EXCEPT ![c] = x]
    OBVIOUS
<1>4. g = Record(s, l, n, h, nx, e)
    BY <1>2, <1>3 DEF DataSet, Record
<1>5. e \in [Units -> Held] /\ e[c] = x
    BY <1>2, <1>3
<1>6. Elsewhere(e, d, c)
    BY <1>2, <1>3 DEF Elsewhere
<1>7. Typed(s, l, n, h, nx, e)
    BY <1>2, <1>5 DEF Typed
<1>8. Typed(s, l, n, h, nx, d)
    BY <1>2 DEF Typed
<1>9. g \in Buffers /\ g.data = e /\ SameList(g, b)
    BY <1>2, <1>4, <1>7, <1>8, RecordData
<1> QED BY <1>1, <1>5, <1>6, <1>9

\* The same for two clusters.
LEMMA DataTwo ==
    ASSUME NEW b \in Buffers, NEW c \in Units, NEW x \in Held, NEW u \in Units, NEW y \in Held, u # c,
           NEW g, g = DataSetTwo(b, c, x, u, y)
    PROVE  /\ g \in Buffers /\ SameList(g, b) /\ g.data[c] = x /\ g.data[u] = y
           /\ Otherwise(g.data, b.data, c, u)
<1>1. PICK s, l, n, h, nx, d : /\ s = b.pStart /\ l = b.pLast /\ n = b.clusterCount /\ h = b.held
                               /\ nx = b.pNext /\ d = b.data
    OBVIOUS
<1>2. /\ b = Record(s, l, n, h, nx, d)
      /\ s \in Units \cup {NULL} /\ l \in Units \cup {NULL} /\ n \in Int /\ h \in SUBSET Units
      /\ nx \in [Units -> Units \cup {NULL}] /\ d \in [Units -> Held]
    BY <1>1, RecordIs
<1>3. PICK e : e = [d EXCEPT ![c] = x, ![u] = y]
    OBVIOUS
<1>4. g = Record(s, l, n, h, nx, e)
    BY <1>2, <1>3 DEF DataSetTwo, Record
<1>5. e \in [Units -> Held] /\ e[c] = x /\ e[u] = y
    BY <1>2, <1>3
<1>6. Otherwise(e, d, c, u)
    BY <1>2, <1>3 DEF Otherwise
<1>7. Typed(s, l, n, h, nx, e)
    BY <1>2, <1>5 DEF Typed
<1>8. Typed(s, l, n, h, nx, d)
    BY <1>2 DEF Typed
<1>9. g \in Buffers /\ g.data = e /\ SameList(g, b)
    BY <1>2, <1>4, <1>7, <1>8, RecordData
<1> QED BY <1>1, <1>5, <1>6, <1>9

\* A prefix and the one that is longer by one.
LEMMA UptoNext ==
    ASSUME NEW S, NEW s \in Seq(S), NEW k \in 0 .. Len(s) - 1
    PROVE  Append(Upto(s, k), s[k + 1]) = Upto(s, k + 1)
<1>1. Len(s) \in Nat /\ k \in 0 .. Len(s) /\ k + 1 \in 0 .. Len(s) /\ k + 1 \in 1 .. Len(s) /\ s[k + 1] \in S
    <2>1. Len(s) \in Nat
        BY NilIs
    <2>2. k + 1 \in 1 .. Len(s)
        BY <2>1
    <2> QED BY <2>1, <2>2
<1>2. PICK t \in Seq(S) : t = Upto(s, k) /\ Len(t) = k
    BY <1>1, CutIs
<1>3. PICK r \in Seq(S) : r = Upto(s, k + 1) /\ Len(r) = k + 1
    BY <1>1, CutIs
<1>4. PICK e \in S : e = s[k + 1]
    BY <1>1
<1>5. Append(t, e) \in Seq(S) /\ Len(Append(t, e)) = k + 1
    BY <1>1, <1>2
<1>6. ASSUME NEW i \in 1 .. k + 1 PROVE Append(t, e)[i] = r[i]
    <2>1. r[i] = s[i]
        BY <1>1, <1>3 DEF Upto
    <2>2. i <= k => t[i] = s[i]
        BY <1>1, <1>2 DEF Upto
    <2> QED BY <1>1, <1>2, <1>4, <2>1, <2>2
<1>7. Append(t, e) = r
    BY <1>3, <1>5, <1>6, SeqEqual
<1> QED BY <1>2, <1>3, <1>4, <1>7

\* The clusters the code would follow are those of the list.
LEMMA ChainIs ==
    ASSUME NEW b \in Buffers, NEW c \in Units \cup {NULL}, NEW s, Segment(b.pNext, c, s, NULL)
    PROVE  Chain(b, c) = s
<1> DEFINE Behind(t) == IF t = <<>> THEN c ELSE b.pNext[Last(t)]
           Stops(t) == Behind(t) = NULL \/ Len(t) > Cardinality(Units)
           Eq(f) == f = [t \in Seq(Units) |-> IF Stops(t) THEN t ELSE f[Append(t, Behind(t))]]
           From == CHOOSE f : Eq(f)
<1>0. b.pNext \in [Units -> Units \cup {NULL}]
    BY RecordIs
<1>1. \A t \in Seq(Units) : Behind(t) \in Units \cup {NULL}
    <2> SUFFICES ASSUME NEW t \in Seq(Units), t # <<>> PROVE b.pNext[Last(t)] \in Units \cup {NULL}
        OBVIOUS
    <2>1. Last(t) \in Units
        BY DEF Last
    <2> QED BY <1>0, <2>1
<1>2. \E f : Eq(f)
    <2> DEFINE stop == {t \in Seq(Units) : Stops(t)}
               val == [t \in Seq(Units) |-> t]
               next == [t \in Seq(Units) |-> Append(t, Behind(t))]
    <2>1. \A t \in Seq(Units) : t \notin stop => next[t] \in Seq(Units)
        <3> SUFFICES ASSUME NEW t \in Seq(Units), ~Stops(t) PROVE Append(t, Behind(t)) \in Seq(Units)
            OBVIOUS
        <3>1. Behind(t) \in Units
            BY <1>1
        <3> HIDE DEF Behind
        <3> QED BY <3>1
    <2>2. PICK f : Recurses(f, Seq(Units), stop, val, next)
        <3> HIDE DEF stop, val, next
        <3> QED BY <2>1, TailRecursion
    <2>3. f = [t \in Seq(Units) |-> IF t \in stop THEN val[t] ELSE f[next[t]]]
        BY <2>2 DEF Recurses
    <2>4. Eq(f)
        <3> HIDE DEF Stops, Behind
        <3> QED BY <2>3
    <2> QED BY <2>4
<1>3. Eq(From)
    BY <1>2
<1>4. Chain(b, c) = From[<<>>]
    BY DEF Chain
<1> HIDE DEF From
<1>5. ASSUME NEW t \in Seq(Units) PROVE From[t] = IF Stops(t) THEN t ELSE From[Append(t, Behind(t))]
    <2> HIDE DEF Stops, Behind
    <2> QED BY <1>3
<1>6. /\ s \in Seq(Units) /\ c = HeadOr(s, NULL) /\ Len(s) \in Nat
      /\ \A i \in 1 .. Len(s) : b.pNext[s[i]] = IF i = Len(s) THEN NULL ELSE s[i + 1]
    BY NilIs DEF Segment
<1>7. Len(s) <= Cardinality(Units) /\ Cardinality(Units) \in Nat
    BY SegmentLen, BufferAssumption, FS_CardinalityType
<1>8. ASSUME NEW k \in 0 .. Len(s)
      PROVE  Upto(s, k) \in Seq(Units) /\ Behind(Upto(s, k)) = IF k = Len(s) THEN NULL ELSE s[k + 1]
    <2>1. PICK t \in Seq(Units) : t = Upto(s, k) /\ Len(t) = k
        BY <1>6, CutIs
    <2>2. CASE k = 0
        <3>1. t = <<>>
            BY <2>1, <2>2, NilIs DEF Nil
        <3>2. Behind(t) = HeadOr(s, NULL)
            BY <1>6, <3>1
        <3>3. s = Nil <=> Len(s) = 0
            BY <1>6, NilIs
        <3> HIDE DEF Behind
        <3> QED BY <2>1, <2>2, <3>2, <3>3 DEF HeadOr
    <2>3. CASE k # 0
        <3>1. t # <<>>
            BY <2>1, <2>3, NilIs DEF Nil
        <3>2. Last(t) = t[k]
            BY <2>1 DEF Last
        <3>3. k \in 1 .. Len(s) /\ t[k] = s[k]
            BY <1>6, <2>1, <2>3 DEF Upto
        <3>4. Behind(t) = b.pNext[s[k]]
            BY <3>1, <3>2, <3>3
        <3> HIDE DEF Behind
        <3> QED BY <1>6, <2>1, <3>3, <3>4
    <2> QED BY <2>2, <2>3
<1> HIDE DEF Behind
<1> DEFINE G == {n \in Nat : n <= Len(s) => From[Upto(s, Len(s) - n)] = s}
<1>9. 0 \in G
    <2>1. Len(s) \in 0 .. Len(s) /\ Len(s) - 0 = Len(s)
        BY <1>6
    <2>2. Stops(Upto(s, Len(s)))
        BY <1>8, <2>1
    <2>3. Upto(s, Len(s)) = s
        BY <1>6, SubSeqFull DEF Upto
    <2>4. From[s] = s
        BY <1>5, <1>6, <2>2, <2>3
    <2> QED BY <2>1, <2>3, <2>4
<1>10. ASSUME NEW n \in G PROVE n + 1 \in G
    <2> SUFFICES ASSUME n + 1 <= Len(s) PROVE From[Upto(s, Len(s) - (n + 1))] = s
        OBVIOUS
    <2>1. PICK k \in 0 .. Len(s) - 1 : k = Len(s) - (n + 1) /\ k + 1 = Len(s) - n /\ k \in 0 .. Len(s) /\ k # Len(s)
        <3>0. n \in Nat /\ Len(s) \in Nat
            BY <1>6
        <3>1. /\ Len(s) - (n + 1) \in 0 .. Len(s) - 1 /\ (Len(s) - (n + 1)) + 1 = Len(s) - n
              /\ Len(s) - (n + 1) \in 0 .. Len(s) /\ Len(s) - (n + 1) # Len(s)
            BY <3>0
        <3> QED BY <3>1, Zenon
    <2>2. From[Upto(s, k + 1)] = s
        <3>1. n <= Len(s)
            BY <1>6
        <3> QED BY <2>1, <3>1
    <2>3. Upto(s, k) \in Seq(Units) /\ Behind(Upto(s, k)) = s[k + 1] /\ Len(Upto(s, k)) = k
        BY <1>6, <1>8, <2>1, CutIs
    <2>4. s[k + 1] \in Units
        BY <1>6, <2>1
    <2>5. ~Stops(Upto(s, k))
        <3>1. Behind(Upto(s, k)) # NULL
            BY <2>3, <2>4, BufferAssumption
        <3>2. ~(Len(Upto(s, k)) > Cardinality(Units))
            BY <1>6, <1>7, <2>1, <2>3
        <3> QED BY <3>1, <3>2, Zenon
    <2>6. From[Upto(s, k)] = From[Append(Upto(s, k), s[k + 1])]
        BY <1>5, <2>3, <2>5
    <2>7. Append(Upto(s, k), s[k + 1]) = Upto(s, k + 1)
        BY <1>6, UptoNext
    <2> QED BY <2>1, <2>2, <2>6, <2>7, Zenon
<1>11. Nat \subseteq G
    <2> HIDE DEF G
    <2>1. G \subseteq Nat
        BY DEF G
    <2> QED BY <1>9, <1>10, <2>1, CountUp
<1>12. From[Upto(s, 0)] = s
    <2>1. Len(s) \in G /\ Len(s) <= Len(s) /\ Len(s) - Len(s) = 0
        BY <1>6, <1>11
    <2> QED BY <2>1
<1>13. Upto(s, 0) = <<>>
    BY <1>6 DEF Upto
<1> QED BY <1>4, <1>12, <1>13

\* What a list contains.
LEMMA ContentsIs ==
    ASSUME NEW b \in Buffers, NEW s, Linked(b, s)
    PROVE  Chain(b, b.pStart) = s /\ Contents(b) = Cat(b.data, s) /\ Contents(b) \in Seq(Bytes) /\ s \in Seq(Units)
<1>1. Segment(b.pNext, b.pStart, s, NULL) /\ s \in Seq(Units) /\ b.pStart \in Units \cup {NULL}
    BY RecordIs DEF Linked, Segment
<1>2. Chain(b, b.pStart) = s
    BY <1>1, ChainIs
<1>3. Contents(b) = Cat(b.data, s)
    BY <1>2 DEF Contents, Cat, Mapped
<1>4. b.data \in [Units -> Seq(Bytes)]
    BY RecordIs, HeldSeq
<1>5. Cat(b.data, s) \in Seq(Bytes)
    BY <1>1, <1>4, CatJoin
<1> QED BY <1>1, <1>2, <1>3, <1>5

\* _buffer_get_len returns the length of the contents, in each of its three cases.
LEMMA GetLenIs ==
    ASSUME NEW b \in Buffers, NEW s, Linked(b, s)
    PROVE  _buffer_get_len(b) = Len(Contents(b))
<1>1. s \in Seq(Units) /\ Contents(b) = Cat(b.data, s)
    BY ContentsIs
<1>2. b.clusterCount = Len(s) /\ b.pStart = HeadOr(s, NULL)
    BY StartIs DEF Linked
<1>3. CASE b.clusterCount = 0
    <2>1. s = Nil
        BY <1>1, <1>2, <1>3, NilIs
    <2>2. Len(Contents(b)) = 0
        BY <1>1, <2>1, CatNone, NilIs
    <2> QED BY <1>3, <2>2 DEF _buffer_get_len
<1>4. CASE b.clusterCount = 1
    <2>1. s = One(s[1]) /\ s[1] \in Units
        <3>1. Len(s) = 1
            BY <1>2, <1>4
        <3> QED BY <1>1, <3>1, OneElement
    <2>2. b.pStart = s[1]
        BY <1>2, <2>1, EndOne
    <2>3. b.data \in [Units -> Seq(Bytes)]
        BY RecordIs, HeldSeq
    <2>4. Cat(b.data, One(s[1])) = b.data[s[1]]
        BY <2>1, <2>3, CatOne
    <2>5. Contents(b) = b.data[b.pStart]
        BY <1>1, <2>1, <2>2, <2>4
    <2> QED BY <1>4, <2>5 DEF _buffer_get_len
<1>5. CASE b.clusterCount # 0 /\ b.clusterCount # 1
    BY <1>5 DEF _buffer_get_len
<1> QED BY <1>3, <1>4, <1>5

\* One cluster more, behind or in front.
LEMMA CatMore ==
    ASSUME NEW S, NEW d \in [Units -> Seq(S)], NEW s \in Seq(Units), NEW u \in Units
    PROVE  /\ Cat(d, s) \in Seq(S) /\ d[u] \in Seq(S)
           /\ Cat(d, s ++ One(u)) = Cat(d, s) ++ d[u]
           /\ Cat(d, One(u) ++ s) = d[u] ++ Cat(d, s)
<1>1. PICK one \in Seq(Units) : one = One(u)
    BY UnitSeq
<1>2. Cat(d, one) = d[u] /\ d[u] \in Seq(S)
    BY <1>1, CatOne
<1>3. Cat(d, s) \in Seq(S) /\ Cat(d, s ++ one) = Cat(d, s) ++ Cat(d, one)
    BY CatJoin, Zenon
<1>4. Cat(d, one ++ s) = Cat(d, one) ++ Cat(d, s)
    BY CatJoin, Zenon
<1> QED BY <1>1, <1>2, <1>3, <1>4

\* The same of bytes.
LEMMA BytesJoin ==
    ASSUME NEW d \in [Units -> Seq(Bytes)], NEW s \in Seq(Units), NEW t \in Seq(Units)
    PROVE  /\ Cat(d, s) \in Seq(Bytes) /\ Cat(d, t) \in Seq(Bytes)
           /\ Cat(d, s ++ t) = Cat(d, s) ++ Cat(d, t)
BY CatJoin

LEMMA BytesMore ==
    ASSUME NEW d \in [Units -> Seq(Bytes)], NEW s \in Seq(Units), NEW u \in Units
    PROVE  /\ Cat(d, s) \in Seq(Bytes) /\ d[u] \in Seq(Bytes)
           /\ Cat(d, s ++ One(u)) = Cat(d, s) ++ d[u]
           /\ Cat(d, One(u) ++ s) = d[u] ++ Cat(d, s)
BY CatMore

LEMMA BytesLen ==
    ASSUME NEW x \in Seq(Bytes), NEW y \in Seq(Bytes)
    PROVE  /\ x ++ y \in Seq(Bytes) /\ Len(x ++ y) = Len(x) + Len(y)
           /\ Len(x) \in Nat /\ Len(y) \in Nat
BY JoinLen, NilIs

\* A list holds no more than its clusters have room for.
LEMMA CatLen ==
    ASSUME NEW d \in [Units -> Held], NEW s \in Seq(Units)
    PROVE  Len(Cat(d, s)) <= Capacity * Len(s)
<1>0. d \in [Units -> Seq(Bytes)] /\ Capacity \in Nat
    BY HeldSeq, BufferAssumption
<1> DEFINE G == {n \in Nat : \A t \in Seq(Units) : Len(t) = n => Len(Cat(d, t)) <= Capacity * n}
<1>1. 0 \in G
    <2> SUFFICES ASSUME NEW t \in Seq(Units), Len(t) = 0 PROVE Len(Cat(d, t)) <= Capacity * 0
        OBVIOUS
    <2>1. t = Nil /\ Len(Nil) = 0
        BY NilIs
    <2>2. Len(Cat(d, t)) = 0
        BY <2>1, CatNone
    <2> QED BY <1>0, <2>2
<1>2. ASSUME NEW n \in G PROVE n + 1 \in G
    <2> SUFFICES ASSUME NEW t \in Seq(Units), Len(t) = n + 1 PROVE Len(Cat(d, t)) <= Capacity * (n + 1)
        OBVIOUS
    <2>0. n \in Nat /\ \A r \in Seq(Units) : Len(r) = n => Len(Cat(d, r)) <= Capacity * n
        OBVIOUS
    <2> HIDE DEF G
    <2>1. t # Nil
        BY <2>0, NilIs
    <2>2. PICK u \in Units, r \in Seq(Units) : t = r ++ One(u) /\ Len(t) = Len(r) + 1
        BY <2>1, LastSplit
    <2>3. Len(r) = n /\ One(u) \in Seq(Units)
        BY <2>0, <2>2, NilIs, UnitSeq
    <2>4. Cat(d, t) = Cat(d, r) ++ d[u] /\ Cat(d, r) \in Seq(Bytes)
        BY <1>0, <2>2, BytesMore
    <2>5. d[u] \in Seq(Bytes) /\ Len(d[u]) <= Capacity /\ Len(d[u]) \in Nat
        BY <1>0, HeldIs
    <2>6. Len(Cat(d, t)) = Len(Cat(d, r)) + Len(d[u]) /\ Len(Cat(d, r)) \in Nat
        BY <2>4, <2>5, JoinLen, NilIs
    <2>7. Len(Cat(d, r)) <= Capacity * n
        BY <2>0, <2>3
    <2>8. Capacity * (n + 1) = Capacity * n + Capacity /\ Capacity * n \in Nat
        BY <1>0, <2>0
    <2> QED BY <1>0, <2>5, <2>6, <2>7, <2>8
<1>3. Nat \subseteq G
    <2> HIDE DEF G
    <2>1. G \subseteq Nat
        BY DEF G
    <2> QED BY <1>1, <1>2, <2>1, CountUp
<1>4. Len(s) \in Nat
    BY NilIs
<1> QED BY <1>3, <1>4

\* All that fits into the pool.
Most == Capacity * Cardinality(Units)

\* No more is in the list than the pool has room for.
LEMMA ContentsLen ==
    ASSUME NEW b \in Buffers, NEW s, Linked(b, s)
    PROVE  Len(Contents(b)) \in 0 .. Most /\ Most \in Nat
<1>1. Contents(b) = Cat(b.data, s) /\ s \in Seq(Units) /\ Contents(b) \in Seq(Bytes)
    BY ContentsIs
<1>2. Len(Contents(b)) <= Capacity * Len(s) /\ Len(Contents(b)) \in Nat /\ Len(s) \in Nat
    BY <1>1, RecordIs, CatLen, NilIs
<1>3. Len(s) <= Cardinality(Units)
    BY SegmentLen DEF Linked
<1>4. Cardinality(Units) \in Nat /\ Capacity \in Nat
    BY BufferAssumption, FS_CardinalityType
<1>5. PICK k \in Nat, m \in Nat, l \in Nat : k = Cardinality(Units) /\ m = Len(s) /\ l = Len(Contents(b))
    BY <1>2, <1>4
<1>6. m <= k /\ l <= Capacity * m
    BY <1>2, <1>3, <1>5
<1>7. Capacity * m <= Capacity * k /\ Capacity * k \in Nat /\ Capacity * m \in Nat
    BY <1>4, <1>6
<1>8. l \in 0 .. Capacity * k
    BY <1>6, <1>7
<1> QED BY <1>5, <1>7, <1>8 DEF Most

-----------------------------------------------------------------------------
(* Where a call begins                                                      *)

\* Position at is where the bytes of offset o are: behind the clusters of P, in those of Q.
Found(b, o, at, P, Q) ==
    /\ P \in Seq(Units) /\ Q \in Seq(Units) /\ Linked(b, P ++ Q)
    /\ at.cluster = HeadOr(Q, NULL) /\ at.prev = End(P) /\ at.offset \in Nat
    /\ Len(Cat(b.data, P)) + at.offset = o
    /\ Q # Nil => at.offset <= Len(b.data[at.cluster])
    /\ o = 0 => P = Nil
    /\ o > 0 => at.offset > 0

\* What passing a cluster of length l leaves of an offset.
LEMMA Carried ==
    ASSUME NEW m \in Nat, NEW l \in Nat, NEW k \in Nat, NEW j \in Nat, j = k - l, j > 0
    PROVE  (m + l) + j = m + k /\ m + k # 0
OBVIOUS

\* The search that calls begin with ends at such a position.
LEMMA LocateIs ==
    ASSUME NEW b \in Buffers, NEW s, Linked(b, s), NEW o \in Nat, NEW at, at = Locate(b, o)
    PROVE  \E P, Q : Found(b, o, at, P, Q)
<1> DEFINE Behind(p) == [cluster |-> b.pNext[p.cluster], prev |-> p.cluster,
                         offset |-> p.offset - Len(b.data[p.cluster])]
           Stops(p) == p.cluster = NULL \/ p.offset <= Len(b.data[p.cluster])
           Eq(f) == f = [p \in Position |-> IF Stops(p) THEN p ELSE f[Behind(p)]]
           Search == CHOOSE f : Eq(f)
           Spot(P, Q, k) == [cluster |-> HeadOr(Q, NULL), prev |-> End(P), offset |-> k]
<1>0. /\ b.pNext \in [Units -> Units \cup {NULL}] /\ b.data \in [Units -> Held]
      /\ b.data \in [Units -> Seq(Bytes)] /\ NULL \notin Units
    BY RecordIs, HeldSeq, BufferAssumption
<1>1. ASSUME NEW p \in Position, ~Stops(p) PROVE Behind(p) \in Position
    <2>1. p.cluster \in Units /\ p.offset \in Nat /\ ~(p.offset <= Len(b.data[p.cluster]))
        BY <1>1 DEF Position
    <2>2. Len(b.data[p.cluster]) \in Nat
        BY <1>0, <2>1, HeldIs
    <2>3. p.offset - Len(b.data[p.cluster]) \in Nat /\ b.pNext[p.cluster] \in Units \cup {NULL}
        BY <1>0, <2>1, <2>2
    <2> QED BY <2>1, <2>3 DEF Position
<1>2. \E f : Eq(f)
    <2> DEFINE stop == {p \in Position : Stops(p)}
               val == [p \in Position |-> p]
               next == [p \in Position |-> Behind(p)]
    <2>1. \A p \in Position : p \notin stop => next[p] \in Position
        <3> HIDE DEF Stops, Behind
        <3> QED BY <1>1
    <2>2. PICK f : Recurses(f, Position, stop, val, next)
        <3> HIDE DEF stop, val, next
        <3> QED BY <2>1, TailRecursion, Zenon
    <2>3. f = [p \in Position |-> IF p \in stop THEN val[p] ELSE f[next[p]]]
        BY <2>2, Zenon DEF Recurses
    <2>4. Eq(f)
        <3> HIDE DEF Stops, Behind
        <3> QED BY <2>3
    <2> QED BY <2>4
<1>3. Eq(Search)
    BY <1>2
<1>4. at = Search[[cluster |-> b.pStart, prev |-> NULL, offset |-> o]]
    BY DEF Locate
<1> HIDE DEF Search
<1>5. ASSUME NEW p \in Position PROVE Search[p] = IF Stops(p) THEN p ELSE Search[Behind(p)]
    <2> HIDE DEF Stops, Behind
    <2> QED BY <1>3
<1> DEFINE Right(P, Q, k) == /\ P \in Seq(Units) /\ Q \in Seq(Units) /\ Linked(b, P ++ Q) /\ k \in Nat
                             /\ Len(Cat(b.data, P)) + k = o /\ (o = 0 => P = Nil) /\ (o > 0 => k > 0)
           G == {n \in Nat : \A P, Q, k : Right(P, Q, k) /\ Len(Q) = n =>
                               \E R, T : Found(b, o, Search[Spot(P, Q, k)], R, T)}
<1>6. ASSUME NEW P, NEW Q, NEW k, Right(P, Q, k), Stops(Spot(P, Q, k))
      PROVE  Found(b, o, Search[Spot(P, Q, k)], P, Q)
    <2>0. P \in Seq(Units) /\ Q \in Seq(Units) /\ k \in Nat
        BY <1>6
    <2>1. HeadOr(Q, NULL) \in Units \cup {NULL} /\ End(P) \in Units \cup {NULL} /\ (Q # Nil => HeadOr(Q, NULL) \in Units)
        BY <2>0, EndOne, EndIn, RangeIs
    <2>2. PICK p \in Position : p = Spot(P, Q, k) /\ p.cluster = HeadOr(Q, NULL) /\ p.prev = End(P) /\ p.offset = k
        <3>1. PICK x \in Units \cup {NULL}, y \in Units \cup {NULL} : x = HeadOr(Q, NULL) /\ y = End(P)
            BY <2>0, <2>1
        <3>2. PICK p : p = [cluster |-> x, prev |-> y, offset |-> k]
            OBVIOUS
        <3>3. p \in Position /\ p.cluster = x /\ p.prev = y /\ p.offset = k
            BY <2>0, <3>2 DEF Position
        <3> QED BY <3>1, <3>2, <3>3
    <2>3. Search[p] = p
        BY <1>5, <1>6, <2>2
    <2>4. Q # Nil => p.offset <= Len(b.data[p.cluster])
        BY <1>0, <1>6, <2>1, <2>2
    <2> HIDE DEF Spot
    <2>5. Found(b, o, p, P, Q)
        BY <1>6, <2>2, <2>4 DEF Found
    <2> QED BY <2>2, <2>3, <2>5
<1>7. ASSUME NEW P, NEW Q, NEW k, Right(P, Q, k), ~Stops(Spot(P, Q, k))
      PROVE  \E O, R, j : Right(O, R, j) /\ Len(Q) = Len(R) + 1 /\ Search[Spot(P, Q, k)] = Search[Spot(O, R, j)]
    <2>0. P \in Seq(Units) /\ Q \in Seq(Units) /\ k \in Nat /\ Linked(b, P ++ Q) /\ Len(Cat(b.data, P)) + k = o
        BY <1>7
    <2>1. End(P) \in Units \cup {NULL} /\ (Q = Nil => HeadOr(Q, NULL) = NULL)
        BY <2>0, EndOne, EndIn, RangeIs
    <2>2. Q # Nil
        BY <1>7, <2>1
    <2>3. PICK c \in Units, R \in Seq(Units) : Q = One(c) ++ R /\ Len(Q) = Len(R) + 1 /\ HeadOr(Q, NULL) = c
        BY <2>0, <2>2, HeadSplit
    <2>4. PICK p \in Position : p = Spot(P, Q, k) /\ p.cluster = c /\ p.prev = End(P) /\ p.offset = k
        <3>1. PICK x \in Units \cup {NULL}, y \in Units \cup {NULL} : x = HeadOr(Q, NULL) /\ y = End(P) /\ x = c
            BY <2>0, <2>1, <2>3
        <3>2. PICK p : p = [cluster |-> x, prev |-> y, offset |-> k]
            OBVIOUS
        <3>3. p \in Position /\ p.cluster = x /\ p.prev = y /\ p.offset = k
            BY <2>0, <3>2 DEF Position
        <3> QED BY <3>1, <3>2, <3>3
    <2>5. Linked(b, P ++ (One(c) ++ R)) /\ One(c) \in Seq(Units) /\ P ++ One(c) \in Seq(Units)
        BY <2>0, <2>3, UnitSeq, JoinLen
    <2>6. b.pNext[c] = HeadOr(R, NULL)
        <3>1. P \in Seq(Units)
            BY <2>0
        <3>2. Linked(b, P ++ (One(c) ++ R))
            BY <2>5
        <3>3. Apart(b, P, c, R)
            BY <3>1, <3>2, LinkedApart
        <3> QED BY <3>3 DEF Apart
    <2>7. ~(k <= Len(b.data[c])) /\ b.data[c] \in Seq(Bytes) /\ Len(b.data[c]) \in Nat
        BY <1>0, <1>7, <2>4, HeldIs
    <2>8. Cat(b.data, P ++ One(c)) = Cat(b.data, P) ++ b.data[c] /\ Cat(b.data, P) \in Seq(Bytes)
        <3>1. PICK d \in [Units -> Seq(Bytes)] : d = b.data
            BY <1>0
        <3>2. Cat(d, P ++ One(c)) = Cat(d, P) ++ d[c] /\ Cat(d, P) \in Seq(Bytes)
            BY <2>0, BytesMore
        <3> QED BY <3>1, <3>2
    <2>9. Len(Cat(b.data, P ++ One(c))) = Len(Cat(b.data, P)) + Len(b.data[c]) /\ Len(Cat(b.data, P)) \in Nat
        BY <2>7, <2>8, JoinLen, NilIs
    <2>10. PICK j \in Nat : j = k - Len(b.data[c]) /\ j > 0
        <3>1. k - Len(b.data[c]) \in Nat /\ k - Len(b.data[c]) > 0
            BY <2>0, <2>7
        <3> QED BY <3>1
    <2>11. Len(Cat(b.data, P ++ One(c))) + j = o /\ o # 0
        <3>1. PICK m \in Nat, l \in Nat : m = Len(Cat(b.data, P)) /\ l = Len(b.data[c])
            BY <2>7, <2>9
        <3>2. Len(Cat(b.data, P ++ One(c))) = m + l /\ j = k - l /\ m + k = o /\ j > 0
            BY <2>0, <2>9, <2>10, <3>1
        <3>3. k \in Nat
            BY <2>0
        <3>4. m \in Nat /\ l \in Nat /\ k \in Nat /\ j \in Nat /\ j = k - l /\ m + k = o /\ j > 0
            BY <3>1, <3>2, <3>3
        <3>5. (m + l) + j = o /\ o # 0
            BY <3>4, Carried
        <3> QED BY <3>2, <3>5
    <2>12. (P ++ One(c)) ++ R = P ++ (One(c) ++ R)
        BY <2>0, <2>5, JoinAssociative
    <2>13. Right(P ++ One(c), R, j)
        BY <2>5, <2>10, <2>11, <2>12
    <2>14. End(P ++ One(c)) = c
        BY <2>0, <2>5, EndJoin, EndOne, UnitSeq
    <2>15. Behind(p) = Spot(P ++ One(c), R, j)
        BY <2>4, <2>6, <2>10, <2>14
    <2>16. Search[p] = Search[Behind(p)]
        <3>1. ~Stops(p)
            BY <1>7, <2>4
        <3> HIDE DEF Stops, Behind
        <3> QED BY <1>5, <3>1
    <2> HIDE DEF Right, Spot, Behind
    <2> QED BY <2>3, <2>4, <2>13, <2>15, <2>16
<1> HIDE DEF Right, Spot, Stops
<1>8. 0 \in G
    <2> SUFFICES ASSUME NEW P, NEW Q, NEW k, Right(P, Q, k), Len(Q) = 0
                 PROVE  \E R, T : Found(b, o, Search[Spot(P, Q, k)], R, T)
        OBVIOUS
    <2>1. CASE Stops(Spot(P, Q, k))
        BY <1>6, <2>1
    <2>2. CASE ~Stops(Spot(P, Q, k))
        <3>1. PICK O, R, j : Right(O, R, j) /\ Len(Q) = Len(R) + 1
            BY <1>7, <2>2
        <3>2. Len(R) \in Nat
            BY <3>1, NilIs DEF Right
        <3> QED BY <3>1, <3>2
    <2> QED BY <2>1, <2>2
<1>9. ASSUME NEW n \in G PROVE n + 1 \in G
    <2>0. n \in Nat /\ \A P, Q, k : Right(P, Q, k) /\ Len(Q) = n =>
                               \E R, T : Found(b, o, Search[Spot(P, Q, k)], R, T)
        OBVIOUS
    <2> SUFFICES ASSUME NEW P, NEW Q, NEW k, Right(P, Q, k), Len(Q) = n + 1
                 PROVE  \E R, T : Found(b, o, Search[Spot(P, Q, k)], R, T)
        BY <2>0
    <2> HIDE DEF G
    <2>1. CASE Stops(Spot(P, Q, k))
        BY <1>6, <2>1
    <2>2. CASE ~Stops(Spot(P, Q, k))
        <3>1. PICK O, R, j : Right(O, R, j) /\ Len(Q) = Len(R) + 1 /\ Search[Spot(P, Q, k)] = Search[Spot(O, R, j)]
            BY <1>7, <2>2
        <3>2. Len(R) \in Nat
            BY <3>1, NilIs DEF Right
        <3>3. Len(R) = n
            BY <2>0, <3>1, <3>2
        <3> QED BY <2>0, <3>1, <3>3
    <2> QED BY <2>1, <2>2
<1>10. Nat \subseteq G
    <2> HIDE DEF G
    <2>1. G \subseteq Nat
        BY DEF G
    <2> QED BY <1>8, <1>9, <2>1, CountUp
<1>11. s \in Seq(Units) /\ b.pStart = HeadOr(s, NULL) /\ Nil \in Seq(Units) /\ Nil ++ s = s /\ Len(s) \in Nat
    BY StartIs, NilIs, JoinNone
<1>12. Right(Nil, s, o)
    <2>1. Len(Cat(b.data, Nil)) = 0
        BY CatNone, NilIs
    <2> QED BY <1>11, <2>1 DEF Right
<1>13. \E R, T : Found(b, o, Search[Spot(Nil, s, o)], R, T)
    BY <1>10, <1>11, <1>12
<1>14. Spot(Nil, s, o) = [cluster |-> b.pStart, prev |-> NULL, offset |-> o]
    BY <1>11, EndOne DEF Spot
<1> QED BY <1>4, <1>13, <1>14

-----------------------------------------------------------------------------
(* A place in the list                                                      *)

\* The list is P and then Q, and holds x and then z.
Stands(b, P, Q, x, z) ==
    /\ b \in Buffers /\ P \in Seq(Units) /\ Q \in Seq(Units) /\ Linked(b, P ++ Q)
    /\ x = Cat(b.data, P) /\ z = Cat(b.data, Q)

\* The list is P, then c, then R, and holds x, d and r.
Around(b, P, c, R, x, d, r) ==
    /\ b \in Buffers /\ P \in Seq(Units) /\ c \in Units /\ R \in Seq(Units)
    /\ Linked(b, P ++ (One(c) ++ R))
    /\ x = Cat(b.data, P) /\ d = b.data[c] /\ r = Cat(b.data, R)

\* What a division of the list says about its bytes.
LEMMA StandsIs ==
    ASSUME NEW b, NEW P, NEW Q, NEW x, NEW z, Stands(b, P, Q, x, z)
    PROVE  /\ x \in Seq(Bytes) /\ z \in Seq(Bytes) /\ Contents(b) = x ++ z
           /\ (P = Nil => x = Nil) /\ (Q = Nil => z = Nil)
           /\ HeadOr(Q, NULL) \in Units \cup {NULL} /\ End(P) \in Units \cup {NULL}
           /\ (HeadOr(Q, NULL) = NULL <=> Q = Nil)
           /\ (b.pStart = NULL <=> P ++ Q = Nil)
<1>1. b \in Buffers /\ P \in Seq(Units) /\ Q \in Seq(Units) /\ Linked(b, P ++ Q)
    BY DEF Stands
<1>2. b.data \in [Units -> Seq(Bytes)]
    BY <1>1, RecordIs, HeldSeq
<1>3. x \in Seq(Bytes) /\ z \in Seq(Bytes) /\ Cat(b.data, P ++ Q) = x ++ z
    <2>1. PICK d \in [Units -> Seq(Bytes)] : d = b.data
        BY <1>2
    <2>2. Cat(d, P) \in Seq(Bytes) /\ Cat(d, Q) \in Seq(Bytes) /\ Cat(d, P ++ Q) = Cat(d, P) ++ Cat(d, Q)
        BY <1>1, BytesJoin
    <2>3. x = Cat(d, P) /\ z = Cat(d, Q)
        BY <2>1 DEF Stands
    <2> QED BY <2>1, <2>2, <2>3
<1>4. Contents(b) = x ++ z
    BY <1>1, <1>3, ContentsIs
<1>5. (P = Nil => x = Nil) /\ (Q = Nil => z = Nil)
    BY CatNone DEF Stands
<1>6. HeadOr(Q, NULL) \in Units \cup {NULL} /\ End(P) \in Units \cup {NULL}
    BY <1>1, EndOne, EndIn, RangeIs
<1>7. HeadOr(Q, NULL) = NULL <=> Q = Nil
    <2>1. NULL \notin Units
        BY BufferAssumption
    <2>2. Q # Nil => HeadOr(Q, NULL) \in Units
        BY <1>1, EndIn, RangeIs
    <2>3. HeadOr(Nil, NULL) = NULL
        BY EndOne
    <2> QED BY <2>1, <2>2, <2>3
<1>8. b.pStart = NULL <=> P ++ Q = Nil
    BY <1>1, StartIs
<1> QED BY <1>3, <1>4, <1>5, <1>6, <1>7, <1>8

\* What is known of the cluster a call has come to.
LEMMA AroundIs ==
    ASSUME NEW b, NEW P, NEW c, NEW R, NEW x, NEW d, NEW r, Around(b, P, c, R, x, d, r)
    PROVE  /\ x \in Seq(Bytes) /\ d \in Held /\ d \in Seq(Bytes) /\ r \in Seq(Bytes)
           /\ Len(d) \in 0 .. Capacity /\ Contents(b) = x ++ (d ++ r)
           /\ b.pNext[c] = HeadOr(R, NULL) /\ HeadOr(R, NULL) \in Units \cup {NULL}
           /\ (HeadOr(R, NULL) = NULL <=> R = Nil) /\ (R = Nil => r = Nil) /\ (P = Nil => x = Nil)
           /\ c # NULL /\ b.pStart # NULL /\ c \in b.held /\ (R = Nil => b.pLast = c)
           /\ Stands(b, P, One(c) ++ R, x, d ++ r)
           /\ Stands(b, P ++ One(c), R, x ++ d, r) /\ End(P ++ One(c)) = c
<1>1. b \in Buffers /\ P \in Seq(Units) /\ c \in Units /\ R \in Seq(Units) /\ Linked(b, P ++ (One(c) ++ R))
    BY DEF Around
<1>2. b.data \in [Units -> Held] /\ b.data \in [Units -> Seq(Bytes)]
    BY <1>1, RecordIs, HeldSeq
<1>3. PICK e \in [Units -> Seq(Bytes)] : e = b.data /\ x = Cat(e, P) /\ d = e[c] /\ r = Cat(e, R)
    BY <1>2 DEF Around
<1>4. d \in Held /\ Len(d) \in 0 .. Capacity
    <2>1. b.data[c] \in Held
        BY <1>1, <1>2
    <2> QED BY <1>1, <1>2, <1>3, <2>1, HeldIs
<1>5. One(c) \in Seq(Units) /\ One(c) # Nil /\ Len(One(c)) = 1
    BY <1>1, UnitSeq
<1>6. One(c) ++ R \in Seq(Units) /\ P ++ One(c) \in Seq(Units) /\ (P ++ One(c)) ++ R = P ++ (One(c) ++ R)
    BY <1>1, <1>5, JoinLen, JoinAssociative
<1>7. Cat(e, One(c) ++ R) = d ++ r /\ r \in Seq(Bytes) /\ d \in Seq(Bytes)
    BY <1>1, <1>3, BytesMore
<1>8. Cat(e, P ++ One(c)) = x ++ d /\ x \in Seq(Bytes)
    BY <1>1, <1>3, BytesMore
<1>9. Stands(b, P, One(c) ++ R, x, d ++ r)
    BY <1>1, <1>3, <1>6, <1>7 DEF Stands
<1>10. Stands(b, P ++ One(c), R, x ++ d, r)
    BY <1>1, <1>3, <1>6, <1>8 DEF Stands
<1>11. End(P ++ One(c)) = c
    BY <1>1, <1>5, EndJoin, EndOne
<1>12. Contents(b) = x ++ (d ++ r)
    BY <1>9, StandsIs
<1>13. /\ HeadOr(R, NULL) \in Units \cup {NULL} /\ (HeadOr(R, NULL) = NULL <=> R = Nil) /\ (R = Nil => r = Nil)
    BY <1>10, StandsIs
<1>14. P = Nil => x = Nil
    BY <1>9, StandsIs
<1>15. b.pNext[c] = HeadOr(R, NULL) /\ c \in b.held /\ (R = Nil => b.pLast = c)
    <2>1. Apart(b, P, c, R)
        BY <1>1, LinkedApart
    <2>2. c \in b.held
        BY <2>1 DEF Apart
    <2>3. b.pNext[c] = HeadOr(R, NULL) /\ (R = Nil => b.pLast = c)
        BY <2>1 DEF Apart
    <2> QED BY <2>2, <2>3
<1>16. c # NULL
    BY <1>1, BufferAssumption
<1>17. b.pStart # NULL
    <2>1. P ++ (One(c) ++ R) # Nil
        <3>1. Len(One(c) ++ R) = Len(One(c)) + Len(R)
            BY <1>1, <1>5, JoinLen
        <3>2. Len(P ++ (One(c) ++ R)) = Len(P) + Len(One(c) ++ R)
            BY <1>1, <1>6, JoinLen
        <3>3. Len(P) \in Nat /\ Len(R) \in Nat /\ Len(Nil) = 0
            BY <1>1, NilIs
        <3> QED BY <1>5, <3>1, <3>2, <3>3
    <2> QED BY <1>9, <2>1, StandsIs
<1> QED BY <1>4, <1>7, <1>8, <1>9, <1>10, <1>11, <1>12, <1>13, <1>14, <1>15, <1>16, <1>17

\* Where Q does not end, a cluster follows.
LEMMA StandsOpen ==
    ASSUME NEW b, NEW P, NEW Q, NEW x, NEW z, Stands(b, P, Q, x, z), Q # Nil
    PROVE  \E c, R, d, r : Around(b, P, c, R, x, d, r) /\ Q = One(c) ++ R /\ z = d ++ r /\ c = HeadOr(Q, NULL)
<1>1. b \in Buffers /\ P \in Seq(Units) /\ Q \in Seq(Units) /\ Linked(b, P ++ Q)
    BY DEF Stands
<1>2. PICK c \in Units, R \in Seq(Units) : Q = One(c) ++ R /\ HeadOr(Q, NULL) = c
    BY <1>1, HeadSplit
<1>3. PICK e \in [Units -> Seq(Bytes)] : e = b.data
    BY <1>1, RecordIs, HeldSeq
<1>4. Cat(e, One(c) ++ R) = e[c] ++ Cat(e, R)
    BY CatMore
<1>5. z = e[c] ++ Cat(e, R)
    BY <1>2, <1>3, <1>4 DEF Stands
<1>6. Around(b, P, c, R, x, e[c], Cat(e, R))
    BY <1>1, <1>2, <1>3 DEF Around, Stands
<1> QED BY <1>2, <1>5, <1>6

\* The bytes of a cluster change.
LEMMA AroundSet ==
    ASSUME NEW b, NEW P, NEW c, NEW R, NEW x, NEW d, NEW r, Around(b, P, c, R, x, d, r),
           NEW e \in Held, NEW g, g = DataSet(b, c, e)
    PROVE  Around(g, P, c, R, x, e, r) /\ SameList(g, b)
<1>1. b \in Buffers /\ P \in Seq(Units) /\ c \in Units /\ R \in Seq(Units) /\ Linked(b, P ++ (One(c) ++ R))
    BY DEF Around
<1>2. g \in Buffers /\ SameList(g, b) /\ g.data[c] = e /\ Elsewhere(g.data, b.data, c)
    BY <1>1, DataIs
<1>3. Linked(g, P ++ (One(c) ++ R))
    BY <1>1, <1>2, SameLinked
<1>4. c \notin Range(P) /\ c \notin Range(R)
    BY <1>1, LinkedAround
<1>5. Cat(g.data, P) = Cat(b.data, P)
    BY <1>1, <1>2, <1>4, CatElse
<1>6. Cat(g.data, R) = Cat(b.data, R)
    BY <1>1, <1>2, <1>4, CatElse
<1>7. x = Cat(g.data, P) /\ r = Cat(g.data, R)
    BY <1>5, <1>6 DEF Around
<1> QED BY <1>1, <1>2, <1>3, <1>7 DEF Around

\* A cluster is freed.
LEMMA AroundFree ==
    ASSUME NEW b, NEW P, NEW c, NEW R, NEW x, NEW d, NEW r, Around(b, P, c, R, x, d, r),
           P # Nil \/ R # Nil, NEW f, f = _buffer_free_cluster(b, c, End(P))
    PROVE  Stands(f, P, R, x, r)
<1>1. b \in Buffers /\ P \in Seq(Units) /\ c \in Units /\ R \in Seq(Units) /\ Linked(b, P ++ (One(c) ++ R))
    BY DEF Around
<1>2. f \in Buffers /\ Linked(f, P ++ R) /\ f.data = b.data
    BY <1>1, FreeIs
<1> QED BY <1>1, <1>2 DEF Around, Stands

\* The cluster behind c is freed.
LEMMA AroundFreeNext ==
    ASSUME NEW b, NEW P, NEW c, NEW n \in Units, NEW R, NEW x, NEW d, NEW r,
           Around(b, P, c, One(n) ++ R, x, d, b.data[n] ++ r), R \in Seq(Units), r = Cat(b.data, R),
           NEW f, f = _buffer_free_cluster(b, n, c)
    PROVE  Around(f, P, c, R, x, d, r)
<1>1. b \in Buffers /\ P \in Seq(Units) /\ c \in Units /\ Linked(b, P ++ (One(c) ++ (One(n) ++ R)))
    BY DEF Around
<1>2. One(c) \in Seq(Units) /\ One(n) \in Seq(Units) /\ One(c) # Nil
    BY <1>1, UnitSeq
<1>3. One(n) ++ R \in Seq(Units) /\ P ++ One(c) \in Seq(Units) /\ One(c) ++ R \in Seq(Units)
    BY <1>1, <1>2, JoinLen
<1>4. (P ++ One(c)) ++ (One(n) ++ R) = P ++ (One(c) ++ (One(n) ++ R))
    BY <1>1, <1>2, <1>3, JoinAssociative
<1>5. (P ++ One(c)) ++ R = P ++ (One(c) ++ R)
    BY <1>1, <1>2, JoinAssociative
<1>6. End(P ++ One(c)) = c
    BY <1>1, <1>2, EndJoin, EndOne
<1>7. P ++ One(c) # Nil
    <2>1. PICK o \in Seq(Units) : o = One(c) /\ Len(o) = 1
        BY <1>1, UnitSeq
    <2>2. Len(P ++ o) = Len(P) + Len(o)
        BY <1>1, JoinLen
    <2>3. Len(P) \in Nat /\ Len(Nil) = 0
        BY <1>1, NilIs
    <2> QED BY <2>1, <2>2, <2>3
<1>8. f \in Buffers /\ Linked(f, (P ++ One(c)) ++ R) /\ f.data = b.data
    <2>1. Linked(b, (P ++ One(c)) ++ (One(n) ++ R)) /\ f = _buffer_free_cluster(b, n, End(P ++ One(c)))
        BY <1>1, <1>4, <1>6
    <2> QED BY <1>1, <1>3, <1>7, <2>1, FreeIs
<1> QED BY <1>1, <1>5, <1>8 DEF Around

\* A new cluster, filled with e, comes between P and Q.
LEMMA StandsInsert ==
    ASSUME NEW b, NEW P, NEW Q, NEW x, NEW z, Stands(b, P, Q, x, z), NEW u \in Units, u \notin b.held, NEW e \in Held,
           NEW i, i = _buffer_alloc_new_cluster_and_insert_after(b, u, End(P)), NEW g, g = DataSet(i, u, e)
    PROVE  Around(g, P, u, Q, x, e, z) /\ i.pNext[u] = HeadOr(Q, NULL)
<1>1. b \in Buffers /\ P \in Seq(Units) /\ Q \in Seq(Units) /\ Linked(b, P ++ Q)
    BY DEF Stands
<1>2. /\ i \in Buffers /\ Linked(i, P ++ (One(u) ++ Q)) /\ Elsewhere(i.data, b.data, u)
      /\ u \notin Range(P) /\ u \notin Range(Q) /\ i.pNext[u] = HeadOr(Q, NULL)
    BY <1>1, InsertIs
<1>3. Cat(i.data, P) = Cat(b.data, P)
    BY <1>1, <1>2, CatElse
<1>4. Cat(i.data, Q) = Cat(b.data, Q)
    BY <1>1, <1>2, CatElse
<1>5. Around(i, P, u, Q, x, i.data[u], z)
    BY <1>1, <1>2, <1>3, <1>4 DEF Around, Stands
<1> QED BY <1>2, <1>5, AroundSet

\* A new cluster comes behind c, and takes over e; c is left with y.
LEMMA AroundSplit ==
    ASSUME NEW b, NEW P, NEW c, NEW R, NEW x, NEW d, NEW r, Around(b, P, c, R, x, d, r),
           NEW u \in Units, u \notin b.held, NEW e \in Held, NEW y \in Held,
           NEW i, i = _buffer_alloc_new_cluster_and_insert_after(b, u, c), NEW g, g = DataSetTwo(i, u, e, c, y)
    PROVE  Stands(g, P ++ One(c), One(u) ++ R, x ++ y, e ++ r) /\ g.data[u] = e
<1>1. b \in Buffers /\ P \in Seq(Units) /\ c \in Units /\ R \in Seq(Units) /\ Linked(b, P ++ (One(c) ++ R))
    BY DEF Around
<1>2. Stands(b, P ++ One(c), R, x ++ d, r) /\ End(P ++ One(c)) = c /\ c \in b.held
    BY AroundIs
<1>3. One(c) \in Seq(Units) /\ One(u) \in Seq(Units)
    BY <1>1, UnitSeq
<1>4. P ++ One(c) \in Seq(Units) /\ One(u) ++ R \in Seq(Units) /\ Linked(b, (P ++ One(c)) ++ R)
    BY <1>1, <1>2, <1>3, JoinLen DEF Stands
<1>5. /\ i \in Buffers /\ Linked(i, (P ++ One(c)) ++ (One(u) ++ R)) /\ Elsewhere(i.data, b.data, u)
      /\ u \notin Range(P ++ One(c)) /\ u \notin Range(R)
    BY <1>1, <1>2, <1>4, InsertIs
<1>6. u # c
    BY <1>2
<1>7. g \in Buffers /\ SameList(g, i) /\ g.data[u] = e /\ g.data[c] = y /\ Otherwise(g.data, i.data, u, c)
    BY <1>1, <1>5, <1>6, DataTwo
<1>8. Linked(g, (P ++ One(c)) ++ (One(u) ++ R))
    BY <1>5, <1>7, SameLinked
<1>9. c \notin Range(P) /\ c \notin Range(R) /\ u \notin Range(P)
    <2>1. Range(P ++ One(c)) = Range(P) \cup Range(One(c))
        BY <1>1, <1>3, RangeIs
    <2> QED BY <1>1, <1>5, <2>1, LinkedAround
<1>10. Elsewhere(g.data, g.data, c) /\ \A v \in Units : v # u /\ v # c => g.data[v] = b.data[v]
    BY <1>5, <1>7 DEF Elsewhere, Otherwise
<1>11. Cat(g.data, P) = Cat(b.data, P)
    <2>1. P \in Seq(Units) /\ \A k \in 1 .. Len(P) : P[k] \in Range(P) /\ P[k] \in Units
        BY <1>1, RangeIs
    <2>2. \A k \in 1 .. Len(P) : g.data[P[k]] = b.data[P[k]]
        BY <1>9, <1>10, <2>1
    <2> QED BY <2>1, <2>2, CatSame
<1>12. Cat(g.data, R) = Cat(b.data, R)
    <2>1. R \in Seq(Units) /\ \A k \in 1 .. Len(R) : R[k] \in Range(R) /\ R[k] \in Units
        BY <1>1, RangeIs
    <2>2. \A k \in 1 .. Len(R) : g.data[R[k]] = b.data[R[k]]
        BY <1>5, <1>9, <1>10, <2>1
    <2> QED BY <2>1, <2>2, CatSame
<1>13. PICK f \in [Units -> Seq(Bytes)] : f = g.data
    BY <1>7, RecordIs, HeldSeq
<1>14. Cat(f, P ++ One(c)) = Cat(f, P) ++ f[c]
    BY <1>1, CatMore
<1>15. Cat(f, One(u) ++ R) = f[u] ++ Cat(f, R)
    BY <1>1, CatMore
<1>16. x = Cat(b.data, P) /\ r = Cat(b.data, R)
    BY DEF Around
<1>17. Cat(g.data, P ++ One(c)) = x ++ y /\ Cat(g.data, One(u) ++ R) = e ++ r
    BY <1>7, <1>11, <1>12, <1>13, <1>14, <1>15, <1>16
<1> QED BY <1>4, <1>7, <1>8, <1>17 DEF Stands

\* A new cluster comes to the end, and is empty.
LEMMA StandsGrow ==
    ASSUME NEW b, NEW s, b \in Buffers, Linked(b, s), NEW u \in Units, u \notin b.held,
           NEW g, g = _buffer_alloc_new_cluster(b, u)
    PROVE  Around(g, s, u, Nil, Contents(b), Nil, Nil)
<1>1. g \in Buffers /\ Linked(g, s ++ One(u)) /\ g.data[u] = Nil /\ Elsewhere(g.data, b.data, u) /\ u \notin Range(s)
    BY GrowIs
<1>2. s \in Seq(Units) /\ Contents(b) = Cat(b.data, s)
    BY ContentsIs
<1>3. Cat(g.data, s) = Cat(b.data, s)
    BY <1>1, <1>2, CatElse
<1>4. One(u) ++ Nil = One(u) /\ Nil \in Seq(Units)
    BY UnitSeq, JoinNone, NilIs
<1>5. Cat(g.data, Nil) = Nil
    BY CatNone
<1> QED BY <1>1, <1>2, <1>3, <1>4, <1>5 DEF Around

-----------------------------------------------------------------------------
(* Bytes taken out and put in                                               *)

\* At most n of the bytes of t, and what is left.
Parted(t, n, a, e) ==
    /\ t = a ++ e /\ Len(a) = Min({n, Len(t)})
    /\ Len(a) <= n /\ Len(a) + Len(e) = Len(t)
    /\ (n >= Len(t) => a = t /\ e = Nil) /\ (n < Len(t) => Len(a) = n)

\* Any n can be taken.
LEMMA CutMin ==
    ASSUME NEW S, NEW t \in Seq(S), NEW n \in Nat
    PROVE  \E a, e \in Seq(S) : Parted(t, n, a, e)
<1>1. Len(t) \in Nat /\ Nil \in Seq(S) /\ t = t ++ Nil /\ Len(Nil) = 0
    BY NilIs, JoinNone
<1>2. Min({n, Len(t)}) = IF n <= Len(t) THEN n ELSE Len(t)
    <2>1. n \in Int /\ Len(t) \in Int
        BY <1>1
    <2> QED BY <2>1, MinMax
<1>3. CASE n >= Len(t)
    <2>1. Len(t) = Min({n, Len(t)})
        BY <1>1, <1>2, <1>3
    <2>2. Len(t) <= n /\ Len(t) + Len(Nil) = Len(t) /\ ~(n < Len(t))
        BY <1>1, <1>3
    <2>3. Parted(t, n, t, Nil)
        BY <1>1, <2>1, <2>2 DEF Parted
    <2> QED BY <1>1, <2>3
<1>4. CASE n < Len(t)
    <2>1. n = Min({n, Len(t)}) /\ n \in 0 .. Len(t) /\ ~(n >= Len(t))
        BY <1>1, <1>2, <1>4
    <2>2. /\ Upto(t, n) \in Seq(S) /\ Beyond(t, n) \in Seq(S) /\ t = Upto(t, n) ++ Beyond(t, n)
          /\ Len(Upto(t, n)) = n /\ Len(Beyond(t, n)) = Len(t) - n
        BY <2>1, CutIs
    <2>3. PICK a \in Seq(S), e \in Seq(S) : t = a ++ e /\ Len(a) = n /\ Len(e) = Len(t) - n
        <3> HIDE DEF Upto, Beyond
        <3> QED BY <2>2
    <2>4. Len(a) <= n /\ Len(a) + Len(e) = Len(t)
        BY <1>1, <2>3
    <2>5. t = a ++ e /\ Len(a) = Min({n, Len(t)}) /\ Len(a) = n
        BY <2>1, <2>3
    <2>6. Parted(t, n, a, e)
        BY <2>1, <2>4, <2>5 DEF Parted
    <2> QED BY <2>6
<1> QED BY <1>1, <1>3, <1>4

\* The lengths of three pieces.
LEMMA JoinThree ==
    ASSUME NEW S, NEW x \in Seq(S), NEW y \in Seq(S), NEW z \in Seq(S)
    PROVE  /\ x ++ (y ++ z) \in Seq(S) /\ y ++ z \in Seq(S) /\ x ++ y \in Seq(S) /\ (x ++ y) ++ z = x ++ (y ++ z)
           /\ Len(x) \in Nat /\ Len(y) \in Nat /\ Len(z) \in Nat
           /\ Len(x ++ (y ++ z)) = Len(x) + Len(y) + Len(z)
           /\ Len(x ++ y) = Len(x) + Len(y) /\ Len(y ++ z) = Len(y) + Len(z)
<1>1. y ++ z \in Seq(S) /\ x ++ y \in Seq(S) /\ Len(y ++ z) = Len(y) + Len(z) /\ Len(x ++ y) = Len(x) + Len(y)
    BY JoinLen
<1>2. x ++ (y ++ z) \in Seq(S) /\ Len(x ++ (y ++ z)) = Len(x) + Len(y ++ z)
    BY <1>1, JoinLen
<1>3. Len(x) \in Nat /\ Len(y) \in Nat /\ Len(z) \in Nat
    BY NilIs
<1>4. (x ++ y) ++ z = x ++ (y ++ z)
    BY JoinAssociative
<1>5. Len(x ++ (y ++ z)) = Len(x) + Len(y) + Len(z)
    BY <1>1, <1>2, <1>3
<1> QED BY <1>1, <1>2, <1>3, <1>4, <1>5

\* Of the whole only.
LEMMA JoinLens ==
    ASSUME NEW S, NEW x \in Seq(S), NEW y \in Seq(S), NEW z \in Seq(S)
    PROVE  Len(x ++ (y ++ z)) = Len(x) + Len(y) + Len(z) /\ Len(x) \in Nat /\ Len(y) \in Nat /\ Len(z) \in Nat
BY JoinThree

\* The lengths of three pieces, not to be looked into.
LensOf(x, y, z) ==
    Len(x ++ (y ++ z)) = Len(x) + Len(y) + Len(z) /\ Len(x) \in Nat /\ Len(y) \in Nat /\ Len(z) \in Nat

\* The same, not to be looked into.
LEMMA JoinLengths ==
    ASSUME NEW S, NEW x \in Seq(S), NEW y \in Seq(S), NEW z \in Seq(S)
    PROVE  LensOf(x, y, z)
BY JoinLens DEF LensOf

\* ByteSequence takes the middle piece out.
LEMMA WithoutIs ==
    ASSUME NEW S, NEW x \in Seq(S), NEW y \in Seq(S), NEW z \in Seq(S), NEW o, o = Len(x), NEW n, n = Len(y)
    PROVE  B!Without(x ++ (y ++ z), o, n) = x ++ z
<1> DEFINE s == x ++ (y ++ z)
<1>1. /\ s \in Seq(S) /\ y ++ z \in Seq(S) /\ x ++ y \in Seq(S) /\ (x ++ y) ++ z = s
      /\ Len(x) \in Nat /\ Len(y) \in Nat /\ Len(z) \in Nat /\ Len(s) = Len(x) + Len(y) + Len(z)
      /\ Len(x ++ y) = Len(x) + Len(y)
    BY JoinThree
<1>2. Upto(s, Len(x)) = x
    BY <1>1, CutJoined
<1>3. Beyond((x ++ y) ++ z, Len(x ++ y)) = z
    BY <1>1, CutJoined
<1>4. Beyond(s, o + n) = z
    BY <1>1, <1>3
<1>5. Min({o, Len(s)}) = o
    <2>1. o \in Int /\ Len(s) \in Int /\ o <= Len(s)
        BY <1>1
    <2>2. Min({o, Len(s)}) = IF o <= Len(s) THEN o ELSE Len(s)
        BY <2>1, MinMax
    <2> QED BY <2>1, <2>2
<1> HIDE DEF s
<1>6. B!Without(s, o, n) = SubSeq(s, 1, Min({o, Len(s)})) \o SubSeq(s, o + n + 1, Len(s))
    BY DEF B!Without, B!Min, Min
<1>7. SubSeq(s, 1, Min({o, Len(s)})) = x /\ SubSeq(s, o + n + 1, Len(s)) = z
    BY <1>2, <1>4, <1>5 DEF Upto, Beyond
<1>8. B!Without(s, o, n) = x ++ z
    BY <1>6, <1>7 DEF ++
<1> QED BY <1>8 DEF s

\* And puts one in at a place, or at the end when the place is behind it.
LEMMA WithIs ==
    ASSUME NEW S, NEW x \in Seq(S), NEW z \in Seq(S), NEW d \in Seq(S), NEW o \in Nat,
           o <= Len(x ++ z) => Len(x) = o, o > Len(x ++ z) => z = Nil
    PROVE  B!With(x ++ z, o, d) = x ++ (d ++ z)
<1> DEFINE s == x ++ z
<1>1. s \in Seq(S) /\ Len(s) = Len(x) + Len(z) /\ Len(x) \in Nat /\ Len(z) \in Nat /\ (x ++ d) ++ z = x ++ (d ++ z)
    BY JoinLen, NilIs, JoinAssociative
<1>2. CASE o > Len(s)
    <2>1. s = x /\ d ++ z = d
        BY <1>2, JoinNone
    <2>2. B!With(s, o, d) = s \o d
        BY <1>2 DEF B!With
    <2> QED BY <2>1, <2>2 DEF ++
<1>3. CASE o <= Len(s)
    <2>0. o = Len(x) /\ ~(o > Len(s))
        BY <1>1, <1>3
    <2>1. Upto(s, o) = x /\ Beyond(s, o) = z
        BY <2>0, CutJoined
    <2> HIDE DEF s
    <2>2. B!With(s, o, d) = SubSeq(s, 1, o) \o d \o SubSeq(s, o + 1, Len(s))
        BY <2>0 DEF B!With
    <2>3. B!With(s, o, d) = (x ++ d) ++ z
        BY <2>1, <2>2 DEF ++, Upto, Beyond
    <2> QED BY <1>1, <2>3 DEF s
<1>4. Len(s) \in Nat
    BY <1>1
<1> QED BY <1>2, <1>3, <1>4

\* The front part of what was joined.
LEMMA JoinAt ==
    ASSUME NEW S, NEW x \in Seq(S), NEW y \in Seq(S)
    PROVE  \A i \in 1 .. Len(x) : (x ++ y)[i] = x[i]
BY JoinIs

\* An insertion in place puts w between h and t, when t is not longer than w.
LEMMA InsertedIs ==
    ASSUME NEW h \in Seq(Bytes), NEW t \in Seq(Bytes), NEW w \in Seq(Bytes), Len(t) <= Len(w), NEW o, o = Len(h)
    PROVE  Inserted(h ++ t, o, w) = h ++ (w ++ t)
<1> DEFINE d == h ++ t
           n == Len(w)
           g == Inserted(d, o, w)
           e == h ++ (w ++ t)
<1>1. /\ d \in Seq(Bytes) /\ Len(d) = o + Len(t) /\ o \in Nat /\ Len(t) \in Nat /\ n \in Nat
      /\ w ++ t \in Seq(Bytes) /\ Len(w ++ t) = n + Len(t) /\ e \in Seq(Bytes) /\ Len(e) = o + n + Len(t)
    BY JoinThree, JoinLen
<1>2. \A i \in 1 .. o : d[i] = h[i] /\ e[i] = h[i]
    <2>1. \A i \in 1 .. Len(h) : (h ++ t)[i] = h[i]
        BY JoinAt
    <2>2. \A i \in 1 .. Len(h) : (h ++ (w ++ t))[i] = h[i]
        BY <1>1, JoinAt
    <2> QED BY <2>1, <2>2
<1>3. \A i \in 1 .. Len(t) : d[o + i] = t[i] /\ (w ++ t)[n + i] = t[i]
    BY JoinIs
<1>4. \A i \in 1 .. n : (w ++ t)[i] = w[i]
    BY JoinIs
<1>5. \A i \in 1 .. Len(w ++ t) : e[o + i] = (w ++ t)[i]
    <2>1. PICK v \in Seq(Bytes) : v = w ++ t
        BY <1>1
    <2>2. \A i \in 1 .. Len(v) : (h ++ v)[Len(h) + i] = v[i]
        BY JoinIs
    <2> QED BY <2>1, <2>2
<1>6. DOMAIN d = 1 .. Len(d)
    BY <1>1
<1> HIDE DEF d, e
<1>7. g = [i \in 1 .. Len(e) |->
            CASE i <= o -> d[i]
              [] i > o /\ i <= o + n -> w[i - o]
              [] i > o + n /\ i <= o + 2 * n -> IF i - n \in DOMAIN d THEN d[i - n] ELSE Stale
              [] OTHER -> IF i \in DOMAIN d THEN d[i] ELSE Stale]
    <2>1. Len(d) + n = Len(e)
        BY <1>1
    <2> QED BY <2>1 DEF Inserted
<1>8. ASSUME NEW i \in 1 .. Len(e) PROVE g[i] = e[i]
    <2>0. i \in Nat /\ i >= 1 /\ i <= o + n + Len(t)
        BY <1>1
    <2>1. CASE i <= o
        <3>1. g[i] = d[i]
            BY <1>7, <2>1
        <3> QED BY <1>1, <1>2, <2>0, <2>1, <3>1
    <2>2. CASE i > o /\ i <= o + n
        <3>1. g[i] = w[i - o]
            BY <1>1, <1>7, <2>0, <2>2
        <3>2. PICK k \in 1 .. n : k = i - o /\ i = o + k
            <4>1. i - o \in 1 .. n /\ i = o + (i - o)
                BY <1>1, <2>0, <2>2
            <4> QED BY <4>1
        <3>3. k \in 1 .. Len(w ++ t)
            BY <1>1
        <3>4. g[i] = w[k]
            BY <3>1, <3>2
        <3> QED BY <1>4, <1>5, <3>2, <3>3, <3>4
    <2>3. CASE i > o + n
        <3>1. PICK k \in 1 .. Len(t) : k = i - o - n /\ i = o + (n + k) /\ i - n = o + k
            <4>1. i - o - n \in 1 .. Len(t)
                BY <1>1, <2>0, <2>3
            <4>2. i = o + (n + (i - o - n)) /\ i - n = o + (i - o - n)
                BY <1>1, <2>0
            <4> QED BY <4>1, <4>2
        <3>2. i - n \in DOMAIN d
            BY <1>1, <1>6, <3>1
        <3>3. i <= o + 2 * n /\ ~(i <= o) /\ ~(i <= o + n)
            BY <1>1, <2>0, <2>3
        <3>4. g[i] = d[i - n]
            BY <1>7, <2>3, <3>2, <3>3
        <3>5. n + k \in 1 .. Len(w ++ t)
            BY <1>1
        <3> QED BY <1>3, <1>5, <3>1, <3>4, <3>5
    <2> QED BY <1>1, <2>0, <2>1, <2>2, <2>3
<1>9. g = [i \in 1 .. Len(e) |-> e[i]]
    <2>1. g = [i \in 1 .. Len(e) |-> g[i]]
        BY <1>7
    <2> HIDE DEF g
    <2> QED BY <1>8, <2>1
<1>10. e = [i \in 1 .. Len(e) |-> e[i]]
    BY <1>1
<1>11. g = e
    BY <1>9, <1>10
<1> QED BY <1>11 DEF d, e

\* What is left of d in the second cluster, when a partial move of the defragmentation
\* took its first f bytes to the first one.
Remains(d, f) ==
    LET m == SubSeq(d, f + 1, Min({2 * f, Len(d)}))
    IN  m \o SubSeq(d, Len(m) + 1, Len(d) - f)

\* The partial move of the defragmentation leaves w when w is not longer than what went away.
LEMMA MovedIs ==
    ASSUME NEW S, NEW y \in Seq(S), NEW w \in Seq(S), Len(w) <= Len(y), NEW f, f = Len(y)
    PROVE  Remains(y ++ w, f) = w
<1> DEFINE d == y ++ w
           m == SubSeq(d, f + 1, Min({2 * f, Len(d)}))
<1>1. d \in Seq(S) /\ Len(d) = f + Len(w) /\ f \in Nat /\ Len(w) \in Nat
    BY JoinLen, NilIs
<1>2. Min({2 * f, Len(d)}) = Len(d)
    <2>1. 2 * f \in Int /\ Len(d) \in Int /\ 2 * f >= Len(d)
        BY <1>1
    <2>2. Min({2 * f, Len(d)}) = IF 2 * f <= Len(d) THEN 2 * f ELSE Len(d)
        BY <2>1, MinMax
    <2> QED BY <2>1, <2>2
<1>3. Beyond(d, f) = w
    BY CutJoined
<1>4. m = w
    BY <1>2, <1>3 DEF Beyond
<1> HIDE DEF d
<1>5. SubSeq(d, Len(w) + 1, Len(d) - f) = Nil
    <2>1. Len(d) - f = Len(w)
        BY <1>1
    <2>2. SubSeq(d, Len(w) + 1, Len(w)) = <<>>
        BY <1>1
    <2> QED BY <2>1, <2>2 DEF Nil
<1>6. m \o SubSeq(d, Len(m) + 1, Len(d) - f) = w ++ Nil
    BY <1>4, <1>5 DEF ++
<1>7. w ++ Nil = w
    BY JoinNone
<1>8. Remains(d, f) = m \o SubSeq(d, Len(m) + 1, Len(d) - f)
    BY DEF Remains
<1> QED BY <1>6, <1>7, <1>8 DEF d

-----------------------------------------------------------------------------
(* A place in the bytes                                                     *)

\* The call has come to cluster c, o bytes into it: behind x, then h, and before z.
Standing(b, P, Q, x, h, z, c, o) ==
    /\ Stands(b, P, Q, x, h ++ z) /\ h \in Seq(Bytes) /\ z \in Seq(Bytes) /\ c = HeadOr(Q, NULL)
    /\ (Q # Nil => Len(h) = o /\ o <= Len(b.data[c]))
    /\ (Q = Nil => h = Nil /\ z = Nil)

\* c holds h and then t; r is behind.
Opened(b, P, c, R, x, h, t, r, z) ==
    /\ Around(b, P, c, R, x, h ++ t, r) /\ z = t ++ r
    /\ h \in Seq(Bytes) /\ t \in Seq(Bytes) /\ r \in Seq(Bytes) /\ x \in Seq(Bytes)

\* What is known of a place.
LEMMA StandingIs ==
    ASSUME NEW b, NEW P, NEW Q, NEW x, NEW h, NEW z, NEW c, NEW o, Standing(b, P, Q, x, h, z, c, o)
    PROVE  /\ x \in Seq(Bytes) /\ h \in Seq(Bytes) /\ z \in Seq(Bytes) /\ x ++ h \in Seq(Bytes)
           /\ Contents(b) = (x ++ h) ++ z /\ (P = Nil => x = Nil)
           /\ (Q = Nil => h = Nil /\ z = Nil) /\ (c = NULL <=> Q = Nil)
           /\ c \in Units \cup {NULL} /\ End(P) \in Units \cup {NULL} /\ (b.pStart = NULL <=> P ++ Q = Nil)
<1>1. /\ x \in Seq(Bytes) /\ Contents(b) = x ++ (h ++ z) /\ (P = Nil => x = Nil)
      /\ HeadOr(Q, NULL) \in Units \cup {NULL} /\ End(P) \in Units \cup {NULL}
      /\ (HeadOr(Q, NULL) = NULL <=> Q = Nil) /\ (b.pStart = NULL <=> P ++ Q = Nil)
    BY StandsIs DEF Standing
<1>2. h \in Seq(Bytes) /\ z \in Seq(Bytes) /\ c = HeadOr(Q, NULL) /\ (Q = Nil => h = Nil /\ z = Nil)
    BY DEF Standing
<1>3. (x ++ h) ++ z = x ++ (h ++ z) /\ x ++ h \in Seq(Bytes)
    BY <1>1, <1>2, JoinAssociative, JoinLen
<1> QED BY <1>1, <1>2, <1>3

\* Where the list does not end, the cluster there can be opened.
LEMMA StandingOpen ==
    ASSUME NEW b, NEW P, NEW Q, NEW x, NEW h, NEW z, NEW c, NEW o, Standing(b, P, Q, x, h, z, c, o), c # NULL
    PROVE  \E R, t, r : Opened(b, P, c, R, x, h, t, r, z) /\ Q = One(c) ++ R /\ Len(h) = o
<1>1. Stands(b, P, Q, x, h ++ z) /\ Q # Nil /\ c = HeadOr(Q, NULL) /\ h \in Seq(Bytes) /\ z \in Seq(Bytes)
    <2>1. Stands(b, P, Q, x, h ++ z) /\ c = HeadOr(Q, NULL) /\ h \in Seq(Bytes) /\ z \in Seq(Bytes)
        BY DEF Standing
    <2>2. Q # Nil
        BY StandingIs
    <2> QED BY <2>1, <2>2
<1>2. Len(h) = o /\ o <= Len(b.data[c]) /\ o \in Nat
    <2>1. Len(h) \in Nat
        BY <1>1, NilIs
    <2> QED BY <1>1, <2>1 DEF Standing
<1>3. PICK R, d, r : Around(b, P, c, R, x, d, r) /\ Q = One(c) ++ R /\ h ++ z = d ++ r
    BY <1>1, StandsOpen
<1>4. d \in Seq(Bytes) /\ r \in Seq(Bytes) /\ x \in Seq(Bytes) /\ Len(d) \in Nat /\ d = b.data[c]
    BY <1>3, AroundIs, NilIs DEF Around
<1>5. o \in 0 .. Len(d)
    BY <1>2, <1>4
<1>6. PICK k \in Seq(Bytes), t \in Seq(Bytes) : d = k ++ t /\ Len(k) = o
    BY <1>4, <1>5, CutIs
<1>7. h ++ z = k ++ (t ++ r) /\ t ++ r \in Seq(Bytes)
    BY <1>3, <1>4, <1>6, JoinAssociative, JoinLen
<1>8. h = k /\ z = t ++ r
    BY <1>1, <1>2, <1>6, <1>7, JoinCancel
<1>9. Opened(b, P, c, R, x, h, t, r, z)
    BY <1>1, <1>3, <1>4, <1>6, <1>8 DEF Opened
<1> QED BY <1>2, <1>3, <1>9

\* Standing before cluster c, or behind the last one.
LEMMA StandingAt ==
    ASSUME NEW b, NEW P, NEW Q, NEW x, NEW z, Stands(b, P, Q, x, z), NEW c, c = HeadOr(Q, NULL)
    PROVE  Standing(b, P, Q, x, Nil, z, c, 0)
<1>1. z \in Seq(Bytes) /\ Nil \in Seq(Bytes) /\ Nil ++ z = z /\ Len(Nil) = 0 /\ (Q = Nil => z = Nil)
    BY StandsIs, NilIs, JoinNone
<1>2. Q # Nil => 0 <= Len(b.data[c])
    <2> SUFFICES ASSUME Q # Nil PROVE 0 <= Len(b.data[c])
        OBVIOUS
    <2>1. PICK k, R, d, r : Around(b, P, k, R, x, d, r) /\ k = HeadOr(Q, NULL)
        BY StandsOpen
    <2>2. Len(d) \in 0 .. Capacity /\ d = b.data[c]
        BY <2>1, AroundIs DEF Around
    <2>3. Len(d) >= 0
        BY <2>2, BufferAssumption
    <2> QED BY <2>2, <2>3
<1> QED BY <1>1, <1>2 DEF Standing

\* The place of offset o.
Placed(b, o, at, P, Q, x, h, z) ==
    /\ Standing(b, P, Q, x, h, z, at.cluster, at.offset) /\ at.prev = End(P) /\ at.offset \in Nat
    /\ (o <= Len(Contents(b)) => Len(x ++ h) = o) /\ (o > Len(Contents(b)) => Q = Nil)
    /\ (Q = Nil => o >= Len(Contents(b)))
    /\ (o = 0 => P = Nil) /\ (o > 0 => at.offset > 0)

\* Every offset has its place, and the search finds it.
LEMMA PlacedIs ==
    ASSUME NEW b \in Buffers, NEW s, Linked(b, s), NEW o \in Nat, NEW at, at = Locate(b, o)
    PROVE  \E P, Q, x, h, z : Placed(b, o, at, P, Q, x, h, z)
<1>1. PICK P, Q : Found(b, o, at, P, Q)
    BY LocateIs
<1>2. PICK x, z : Stands(b, P, Q, x, z) /\ x = Cat(b.data, P)
    BY <1>1 DEF Found, Stands
<1>3. /\ x \in Seq(Bytes) /\ z \in Seq(Bytes) /\ Contents(b) = x ++ z /\ (Q = Nil => z = Nil)
      /\ Nil \in Seq(Bytes) /\ Nil ++ Nil = Nil /\ Len(Nil) = 0 /\ x ++ Nil = x
    BY <1>2, StandsIs, NilIs, JoinNone
<1>4. Len(x) \in Nat /\ Len(z) \in Nat /\ Len(Contents(b)) = Len(x) + Len(z)
    BY <1>3, JoinLen, NilIs
<1>5. /\ at.cluster = HeadOr(Q, NULL) /\ at.prev = End(P) /\ at.offset \in Nat /\ Len(x) + at.offset = o
      /\ (Q # Nil => at.offset <= Len(b.data[at.cluster])) /\ (o = 0 => P = Nil) /\ (o > 0 => at.offset > 0)
    BY <1>1, <1>2 DEF Found
<1>6. CASE Q = Nil
    <2>1. Standing(b, P, Q, x, Nil, Nil, at.cluster, at.offset)
        BY <1>2, <1>3, <1>5, <1>6 DEF Standing
    <2>2. (o <= Len(Contents(b)) => Len(x ++ Nil) = o) /\ o >= Len(Contents(b))
        BY <1>3, <1>4, <1>5, <1>6
    <2>3. Placed(b, o, at, P, Q, x, Nil, Nil)
        BY <1>5, <1>6, <2>1, <2>2 DEF Placed
    <2> QED BY <2>3
<1>7. CASE Q # Nil
    <2>1. PICK c, R, d, r : Around(b, P, c, R, x, d, r) /\ z = d ++ r /\ c = HeadOr(Q, NULL)
        BY <1>2, <1>7, StandsOpen
    <2>2. d \in Seq(Bytes) /\ r \in Seq(Bytes) /\ Len(d) \in Nat /\ d = b.data[c]
        BY <2>1, AroundIs, NilIs DEF Around
    <2>3. at.offset \in 0 .. Len(d)
        BY <1>5, <1>7, <2>1, <2>2
    <2>4. PICK h \in Seq(Bytes), t \in Seq(Bytes) : d = h ++ t /\ Len(h) = at.offset
        BY <2>2, <2>3, CutIs
    <2>5. z = h ++ (t ++ r) /\ t ++ r \in Seq(Bytes)
        BY <2>1, <2>2, <2>4, JoinAssociative, JoinLen
    <2>6. Standing(b, P, Q, x, h, t ++ r, at.cluster, at.offset)
        BY <1>2, <1>5, <1>7, <2>1, <2>2, <2>4, <2>5 DEF Standing
    <2>7. Len(x ++ h) = Len(x) + Len(h) /\ Len(z) = Len(h) + Len(t ++ r) /\ Len(t ++ r) \in Nat /\ Len(h) \in Nat
        BY <1>3, <2>4, <2>5, JoinLen, NilIs
    <2>8. Len(x ++ h) = o /\ ~(o > Len(Contents(b)))
        BY <1>4, <1>5, <2>4, <2>7
    <2>9. Placed(b, o, at, P, Q, x, h, t ++ r)
        BY <1>5, <1>7, <2>6, <2>8 DEF Placed
    <2> QED BY <2>9
<1> QED BY <1>6, <1>7
=============================================================================

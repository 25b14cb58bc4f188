----------------------------- MODULE JsonProofs -----------------------------
(***************************************************************************)
(* The parser, for any number of tokens, names and scalar types and for    *)
(* texts of any length.                                                    *)
(***************************************************************************)
EXTENDS Json, WellFoundedInduction, FiniteSetTheorems, SequenceTheorems, TLAPS

-----------------------------------------------------------------------------
(* Positions of a text that is being read.                                 *)

OpenKinds == {"{", "["}
CloseKinds == {"}", "]"}
ValueKinds == OpenKinds \cup Scalars

\* The values among the lexemes of s, and how many containers are open before
\* the position i.
Vals(s) == {i \in 1 .. Len(s) : s[i][1] \in ValueKinds}
OpensBefore(s, i) == {j \in 1 .. i - 1 : s[j][1] \in OpenKinds}
ClosesBefore(s, i) == {j \in 1 .. i - 1 : s[j][1] \in CloseKinds}
Dep(s, i) == Cardinality(OpensBefore(s, i)) - Cardinality(ClosesBefore(s, i))

\* What a lexeme adds to the depth.
Rise(k) == IF k \in OpenKinds THEN 1 ELSE IF k \in CloseKinds THEN -1 ELSE 0

\* The kinds of lexemes are different.
LEMMA Kinds ==
    /\ \A k \in OpenKinds : k \notin Scalars /\ k \notin CloseKinds /\ k # "key" /\ k # ","
    /\ \A k \in CloseKinds : k \notin ValueKinds /\ k # "key" /\ k # ","
    /\ \A k \in Scalars : k \notin OpenKinds /\ k \notin CloseKinds /\ k # "key" /\ k # ","
    /\ "key" \notin ValueKinds /\ "," \notin ValueKinds /\ "end" \notin ValueKinds
    /\ "key" \notin CloseKinds /\ "," \notin CloseKinds
    /\ "object" \notin Scalars /\ "array" \notin Scalars
BY ScalarsAssumption DEF OpenKinds, CloseKinds, ValueKinds

\* Nothing is open before the first lexeme.
LEMMA FirstDep == ASSUME NEW s PROVE Dep(s, 1) = 0
<1>1. OpensBefore(s, 1) = {} /\ ClosesBefore(s, 1) = {}
    BY DEF OpensBefore, ClosesBefore
<1>2. Cardinality({}) = 0
    BY FS_EmptySet
<1>3. Dep(s, 1) = 0 - 0
    BY <1>1, <1>2 DEF Dep
<1> QED
    BY <1>3

\* The depth from one position to the next.
LEMMA NextDep ==
    ASSUME NEW s, NEW i \in Nat \ {0}
    PROVE  Dep(s, i) \in Int /\ Dep(s, i + 1) = Dep(s, i) + Rise(s[i][1])
<1>1. IsFiniteSet(1 .. i - 1)
    BY FS_Interval
<1>2. IsFiniteSet(OpensBefore(s, i)) /\ IsFiniteSet(ClosesBefore(s, i))
    BY <1>1, FS_Subset DEF OpensBefore, ClosesBefore
<1>3. Cardinality(OpensBefore(s, i)) \in Nat /\ Cardinality(ClosesBefore(s, i)) \in Nat
    BY <1>2, FS_CardinalityType
<1>4. i \notin OpensBefore(s, i) /\ i \notin ClosesBefore(s, i)
    BY DEF OpensBefore, ClosesBefore
<1>5. 1 .. (i + 1) - 1 = (1 .. i - 1) \cup {i}
    OBVIOUS
<1>6. OpensBefore(s, i + 1) = IF s[i][1] \in OpenKinds THEN OpensBefore(s, i) \cup {i}
                              ELSE OpensBefore(s, i)
    BY <1>5 DEF OpensBefore
<1>7. ClosesBefore(s, i + 1) = IF s[i][1] \in CloseKinds THEN ClosesBefore(s, i) \cup {i}
                               ELSE ClosesBefore(s, i)
    BY <1>5 DEF ClosesBefore
<1>8. Cardinality(OpensBefore(s, i) \cup {i}) = Cardinality(OpensBefore(s, i)) + 1
    BY <1>2, <1>4, FS_AddElement
<1>9. Cardinality(ClosesBefore(s, i) \cup {i}) = Cardinality(ClosesBefore(s, i)) + 1
    BY <1>2, <1>4, FS_AddElement
<1> DEFINE o == Cardinality(OpensBefore(s, i))
           c == Cardinality(ClosesBefore(s, i))
<1>10. Cardinality(OpensBefore(s, i + 1)) = IF s[i][1] \in OpenKinds THEN o + 1 ELSE o
    BY <1>6, <1>8
<1>11. Cardinality(ClosesBefore(s, i + 1)) = IF s[i][1] \in CloseKinds THEN c + 1 ELSE c
    BY <1>7, <1>9
<1>12. o \in Nat /\ c \in Nat
    BY <1>3
<1>13. Dep(s, i) = o - c /\ Dep(s, i + 1) = Cardinality(OpensBefore(s, i + 1))
                                           - Cardinality(ClosesBefore(s, i + 1))
    BY DEF Dep
<1>14. ~(s[i][1] \in OpenKinds /\ s[i][1] \in CloseKinds)
    BY DEF OpenKinds, CloseKinds
<1> HIDE DEF o, c
<1> QED
    BY <1>10, <1>11, <1>12, <1>13, <1>14 DEF Rise

\* The text r is s and the lexeme l.
GoesOn(s, l, r) ==
    /\ Len(s) \in Nat /\ Len(r) = Len(s) + 1
    /\ \A i \in 1 .. Len(s) : r[i] = s[i]
    /\ r[Len(s) + 1] = l
    /\ Vals(r) = Vals(s) \cup (IF l[1] \in ValueKinds THEN {Len(s) + 1} ELSE {})
    /\ \A i \in 1 .. Len(s) + 1 : Dep(r, i) = Dep(s, i) /\ Dep(s, i) \in Int
    /\ Dep(r, Len(s) + 2) = Dep(s, Len(s) + 1) + Rise(l[1])

\* A text with one more lexeme goes on from the text before.
LEMMA Longer ==
    ASSUME NEW S, NEW s \in Seq(S), NEW l \in S
    PROVE  Append(s, l) \in Seq(S) /\ GoesOn(s, l, Append(s, l))
<1> DEFINE r == Append(s, l)
<1>1. r \in Seq(S) /\ Len(s) \in Nat /\ Len(r) = Len(s) + 1
    BY AppendProperties, LenProperties
<1>2. (\A i \in 1 .. Len(s) : r[i] = s[i]) /\ r[Len(s) + 1] = l
    BY AppendProperties
<1> HIDE DEF r
<1>3. Vals(r) = Vals(s) \cup (IF l[1] \in ValueKinds THEN {Len(s) + 1} ELSE {})
    <2>1. 1 .. Len(s) + 1 = (1 .. Len(s)) \cup {Len(s) + 1}
        BY <1>1
    <2> QED
        BY <1>1, <1>2, <2>1 DEF Vals
<1>4. ASSUME NEW i \in 1 .. Len(s) + 1 PROVE Dep(r, i) = Dep(s, i) /\ Dep(s, i) \in Int
    <2>1. \A j \in 1 .. i - 1 : r[j] = s[j]
        BY <1>1, <1>2
    <2>2. OpensBefore(r, i) = OpensBefore(s, i) /\ ClosesBefore(r, i) = ClosesBefore(s, i)
        BY <2>1 DEF OpensBefore, ClosesBefore
    <2>3. i \in Nat \ {0}
        BY <1>1
    <2> QED
        BY <2>2, <2>3, NextDep DEF Dep
<1>5. Dep(r, Len(s) + 2) = Dep(s, Len(s) + 1) + Rise(l[1])
    <2>1. Len(s) + 1 \in Nat \ {0} /\ (Len(s) + 1) + 1 = Len(s) + 2 /\ Len(s) + 1 \in 1 .. Len(s) + 1
        BY <1>1
    <2>2. Dep(r, (Len(s) + 1) + 1) = Dep(r, Len(s) + 1) + Rise(r[Len(s) + 1][1])
        BY <2>1, NextDep
    <2> QED
        BY <1>2, <1>4, <2>1, <2>2
<1> QED
    BY <1>1, <1>2, <1>3, <1>4, <1>5 DEF r, GoesOn

-----------------------------------------------------------------------------
(* Lists of tokens.                                                        *)

\* The last lexeme of a text, and the only one.
LEMMA LastOf ==
    ASSUME NEW s, Len(s) \in Nat, NEW l, NEW r, GoesOn(s, l, r)
    PROVE  r # <<>> /\ r[Len(r)] = l
<1>1. Len(r) # 0 /\ r[Len(r)] = l
    BY DEF GoesOn
<1> QED
    BY <1>1, EmptySeq

\* The first lexeme of a text.
LEMMA OnlyOne ==
    ASSUME NEW l \in Lexemes
    PROVE  LET r == Append(<<>>, l)
           IN  /\ r \in Seq(Lexemes) /\ GoesOn(<<>>, l, r)
               /\ Len(r) = 1 /\ r[1] = l /\ r # <<>>
<1> DEFINE r == Append(<<>>, l)
<1>1. <<>> \in Seq(Lexemes) /\ Len(<<>>) = 0
    BY EmptySeq
<1>2. r \in Seq(Lexemes) /\ GoesOn(<<>>, l, r)
    BY <1>1, Longer
<1> HIDE DEF r
<1>3. Len(r) = 1 /\ r[1] = l
    BY <1>1, <1>2 DEF GoesOn
<1>4. r # <<>>
    BY <1>3, EmptySeq
<1> QED
    BY <1>2, <1>3, <1>4 DEF r

\* What the operators of Json read of a text s that ends with l.
Reads(s, l) ==
    text = Append(s, l) =>
        /\ Len(s) \in Nat /\ Len(text) = Len(s) + 1 /\ (Ended <=> l \in Ends)
        /\ Len(Body) = IF l \in Ends THEN Len(s) ELSE Len(s) + 1
        /\ \A i \in 1 .. Len(s) : Body[i] = s[i] /\ Kind(i) = s[i][1]
        /\ Kind(Len(s) + 1) = IF l \in Ends THEN "end" ELSE l[1]
        /\ \A i \in 1 .. Len(s) + 1 : Depth(i) = Dep(s, i)
        /\ Values = IF l \notin Ends /\ l[1] \in ValueKinds THEN Vals(s) \cup {Len(s) + 1}
                    ELSE Vals(s)

\* What the operators of Json say of a text that was read, by Dep and Vals.
LEMMA Reading == \A s \in Seq(Lexemes), l \in Lexemes \cup Ends : Reads(s, l)
<1> SUFFICES ASSUME NEW s \in Seq(Lexemes), NEW l \in Lexemes \cup Ends, text = Append(s, l)
             PROVE  /\ Len(s) \in Nat /\ Len(text) = Len(s) + 1 /\ (Ended <=> l \in Ends)
                    /\ Len(Body) = IF l \in Ends THEN Len(s) ELSE Len(s) + 1
                    /\ \A i \in 1 .. Len(s) : Body[i] = s[i] /\ Kind(i) = s[i][1]
                    /\ Kind(Len(s) + 1) = IF l \in Ends THEN "end" ELSE l[1]
                    /\ \A i \in 1 .. Len(s) + 1 : Depth(i) = Dep(s, i)
                    /\ Values = IF l \notin Ends /\ l[1] \in ValueKinds
                                THEN Vals(s) \cup {Len(s) + 1} ELSE Vals(s)
    BY DEF Reads
<1> DEFINE n == Len(s)
<1>1. n \in Nat /\ \A i \in 1 .. n : s[i] \in Lexemes
    BY LenProperties, ElementOfSeq
<1>2. /\ Len(text) = n + 1 /\ text[n + 1] = l /\ text # <<>>
      /\ \A i \in 1 .. n : text[i] = s[i]
    <2>1. s \in Seq(Lexemes \cup Ends)
        BY SeqMonotonic
    <2>2. text \in Seq(Lexemes \cup Ends) /\ GoesOn(s, l, text)
        BY <2>1, Longer
    <2>3. text # <<>>
        BY <1>1, <2>2, LastOf
    <2> QED
        BY <2>2, <2>3 DEF GoesOn
<1>3. Ended <=> l \in Ends
    BY <1>1, <1>2 DEF Ended
<1>4. /\ Len(Body) = IF l \in Ends THEN n ELSE n + 1
      /\ \A i \in 1 .. n : Body[i] = s[i]
      /\ l \notin Ends => Body[n + 1] = l
    <2>1. CASE l \in Ends
        <3>1. Body = SubSeq(text, 1, n)
            BY <1>1, <1>2, <1>3, <2>1 DEF Body
        <3>2. \A i \in 1 .. n : text[i] \in Lexemes
            BY <1>1, <1>2
        <3>3. /\ Len(SubSeq(text, 1, n)) = IF 1 <= n THEN n - 1 + 1 ELSE 0
              /\ \A i \in 1 .. n - 1 + 1 : SubSeq(text, 1, n)[i] = text[1 + i - 1]
            BY <1>1, <3>2, SubSeqProperties
        <3>4. \A i \in 1 .. n : i \in 1 .. n - 1 + 1 /\ 1 + i - 1 = i
            BY <1>1
        <3> HIDE DEF n
        <3> QED
            BY <1>1, <1>2, <2>1, <3>1, <3>3, <3>4
    <2>2. CASE l \notin Ends
        BY <1>2, <1>3, <2>2 DEF Body
    <2> QED
        BY <2>1, <2>2
<1> HIDE DEF n
<1>5. \A i \in 1 .. n : Kind(i) = s[i][1]
    BY <1>1, <1>4 DEF Kind
<1>6. Kind(n + 1) = IF l \in Ends THEN "end" ELSE l[1]
    BY <1>1, <1>3, <1>4 DEF Kind
<1>7. ASSUME NEW i \in 1 .. n + 1 PROVE Depth(i) = Dep(s, i)
    <2>1. \A j \in 1 .. i - 1 : j \in 1 .. n
        BY <1>1
    <2>2. {j \in 1 .. i - 1 : Opens(j)} = OpensBefore(s, i)
        <3>1. \A j \in 1 .. i - 1 : Kind(j) = s[j][1]
            BY <1>5, <2>1
        <3> QED
            BY <3>1 DEF OpensBefore, Opens, OpenKinds
    <2>3. {j \in 1 .. i - 1 : Kind(j) \in {"}", "]"}} = ClosesBefore(s, i)
        BY <1>5, <2>1 DEF ClosesBefore, CloseKinds
    <2> QED
        BY <2>2, <2>3 DEF Depth, Dep
<1>8. Values = IF l \notin Ends /\ l[1] \in ValueKinds THEN Vals(s) \cup {n + 1} ELSE Vals(s)
    <2>1. {i \in 1 .. n : IsValue(i)} = Vals(s)
        BY <1>5 DEF Vals, n, IsValue, Opens, ValueKinds, OpenKinds
    <2>2. CASE l \in Ends
        BY <1>4, <2>1, <2>2 DEF Values
    <2>3. CASE l \notin Ends
        <3>1. IsValue(n + 1) <=> l[1] \in ValueKinds
            BY <1>6, <2>3 DEF Opens, IsValue, OpenKinds, ValueKinds
        <3>2. Values = {i \in 1 .. n + 1 : IsValue(i)}
            BY <1>4, <2>3 DEF Values
        <3>3. 1 .. n + 1 = (1 .. n) \cup {n + 1}
            BY <1>1
        <3>4. Values = {i \in 1 .. n : IsValue(i)} \cup {i \in {n + 1} : IsValue(i)}
            BY <3>2, <3>3
        <3> QED
            BY <2>1, <2>3, <3>1, <3>4
    <2> QED
        BY <2>2, <2>3
<1> QED
    BY <1>1, <1>2, <1>3, <1>4, <1>5, <1>6, <1>7, <1>8 DEF n

\* The same of the text after the step.
LEMMA NextReading == \A s \in Seq(Lexemes), l \in Lexemes \cup Ends : Reads(s, l)'
<1>1. (\A s \in Seq(Lexemes), l \in Lexemes \cup Ends : Reads(s, l))'
    BY Reading, PTL
<1> QED
    BY <1>1

\* A set of naturals that is not empty has a least element.
LEMMA Least ==
    ASSUME NEW S \in SUBSET Nat, S # {}
    PROVE  \E m \in S : \A x \in S : m <= x
<1>1. \E m \in S : \A x \in S : ~ (<<x, m>> \in OpToRel(<, Nat))
    BY NatLessThanWellFounded, WFMin, Zenon
<1>2. PICK m \in S : \A x \in S : ~ (<<x, m>> \in OpToRel(<, Nat))
    BY <1>1, Zenon
<1>3. ASSUME NEW x \in S PROVE ~(x < m)
    <2>1. <<x, m>> \in Nat \X Nat
        OBVIOUS
    <2> QED
        BY <1>2, <2>1, Zenon DEF OpToRel
<1> QED
    BY <1>3

\* The recursion that follows the links of a list is well-founded: it counts n
\* down.
LEMMA Recursion ==
    ASSUME NEW N \in Nat
    PROVE  \E f : f = [n \in 0 .. N |->
                         [t \in Tokens \cup {Nil, Junk} |->
                            IF n = 0 \/ t \in {Nil, Junk} THEN <<>>
                            ELSE <<t>> \o f[n - 1][tok[t].next]]]
<1> DEFINE Row(g, n) == [t \in Tokens \cup {Nil, Junk} |->
                            IF n = 0 \/ t \in {Nil, Junk} THEN <<>>
                            ELSE <<t>> \o g[n - 1][tok[t].next]]
           Upto(m) == \E g : \A n \in 0 .. m : g[n] = Row(g, n)
           Bad == {m \in Nat : ~Upto(m)}
<1>1. Bad = {}
    <2> SUFFICES ASSUME Bad # {} PROVE FALSE
        OBVIOUS
    <2>1. PICK m \in Bad : \A x \in Bad : m <= x
        <3> HIDE DEF Bad
        <3>1. Bad \in SUBSET Nat
            BY DEF Bad
        <3> QED
            BY <3>1, Least
    <2>2. CASE m = 0
        <3> DEFINE g == [n \in {0} |-> [t \in Tokens \cup {Nil, Junk} |-> <<>>]]
        <3>1. g[0] = Row(g, 0)
            OBVIOUS
        <3> HIDE DEF g, Row
        <3>2. \A n \in 0 .. 0 : g[n] = Row(g, n)
            BY <3>1
        <3>3. Upto(0)
            BY <3>2
        <3> QED
            BY <2>1, <2>2, <3>3
    <2>3. CASE m # 0
        <3>1. Upto(m - 1) /\ m \in Nat
            <4> HIDE DEF Upto
            <4> QED
                BY <2>1, <2>3
        <3>2. PICK g : \A n \in 0 .. m - 1 : g[n] = Row(g, n)
            BY <3>1
        <3> DEFINE h == [n \in 0 .. m |-> IF n = m THEN Row(g, m) ELSE g[n]]
        <3> HIDE DEF Row
        <3>3. \A n \in 0 .. m : h[n] = IF n = m THEN Row(g, m) ELSE g[n]
            OBVIOUS
        <3>4. \A n \in 0 .. m : Row(h, n) = Row(g, n)
            <4> SUFFICES ASSUME NEW n \in 0 .. m PROVE Row(h, n) = Row(g, n)
                OBVIOUS
            <4>1. CASE n = 0
                BY <4>1 DEF Row
            <4>2. CASE n # 0
                <5>1. h[n - 1] = g[n - 1]
                    BY <3>1, <3>3, <4>2
                <5> HIDE DEF h
                <5> QED
                    BY <5>1 DEF Row
            <4> QED
                BY <4>1, <4>2
        <3>5. \A n \in 0 .. m : h[n] = Row(h, n)
            <4> HIDE DEF h
            <4> QED
                BY <3>1, <3>2, <3>3, <3>4
        <3>6. Upto(m)
            <4> HIDE DEF h
            <4> QED
                BY <3>5
        <3> QED
            BY <3>6
    <2> QED
        BY <2>2, <2>3
<1>2. Upto(N)
    <2> HIDE DEF Upto
    <2> QED
        BY <1>1
<1>3. PICK g : \A n \in 0 .. N : g[n] = Row(g, n)
    BY <1>2
<1> DEFINE f == [n \in 0 .. N |-> g[n]]
<1>4. \A n \in 0 .. N : Row(f, n) = Row(g, n)
    <2> SUFFICES ASSUME NEW n \in 0 .. N PROVE Row(f, n) = Row(g, n)
        OBVIOUS
    <2>1. CASE n = 0
        BY <2>1
    <2>2. CASE n # 0
        BY <2>2
    <2> QED
        BY <2>1, <2>2
<1>5. f = [n \in 0 .. N |-> Row(f, n)]
    <2> HIDE DEF Row
    <2> QED
        BY <1>3, <1>4
<1> QED
    BY <1>5

\* p points to the first token of a list, and is NULL if there is none.
IsFirst(p, S) == IF S = {} THEN p = Nil ELSE p \in S /\ \A m \in S : p <= m

\* The tokens of L follow each other in their order.
ChainOf(L, S) ==
    /\ L \in Seq(S) /\ {L[k] : k \in 1 .. Len(L)} = S
    /\ Len(L) = Cardinality(S)
    /\ \A j, k \in 1 .. Len(L) : j < k => L[j] < L[k]
    /\ S # {} => L # <<>> /\ \A m \in S : m <= L[Len(L)]

\* The list of no children.
LEMMA NoChain == ChainOf(<<>>, {})
<1>1. <<>> \in Seq({}) /\ Len(<<>>) = 0
    BY EmptySeq
<1>2. Cardinality({}) = 0
    BY FS_EmptySet
<1>3. {<<>>[k] : k \in 1 .. Len(<<>>)} = {}
    BY <1>1
<1> QED
    BY <1>1, <1>2, <1>3 DEF ChainOf

\* A list with one more child before the others.
LEMMA AddFirst ==
    ASSUME NEW S \in SUBSET Nat, IsFiniteSet(S), NEW t \in Nat, \A m \in S : t < m,
           NEW L, ChainOf(L, S)
    PROVE  ChainOf(<<t>> \o L, S \cup {t})
<1> DEFINE R == S \cup {t}
           M == <<t>> \o L
<1>0. t \notin S
    OBVIOUS
<1>1. <<t>> \in Seq(R) /\ L \in Seq(R) /\ Len(<<t>>) = 1 /\ <<t>>[1] = t
    BY SeqMonotonic DEF ChainOf
<1>2. Len(L) \in Nat /\ \A k \in 1 .. Len(L) : L[k] \in S
    BY LenProperties, ElementOfSeq DEF ChainOf
<1>3. /\ M \in Seq(R) /\ Len(M) = 1 + Len(L)
      /\ \A k \in 1 .. 1 + Len(L) : M[k] = IF k <= 1 THEN <<t>>[k] ELSE L[k - 1]
    <2> HIDE DEF R
    <2> QED
        BY <1>1, ConcatProperties
<1> HIDE DEF M
<1>4. M[1] = t /\ \A k \in 1 .. Len(L) : M[k + 1] = L[k]
    BY <1>1, <1>2, <1>3
<1>5. {M[k] : k \in 1 .. Len(M)} = R
    <2>1. ASSUME NEW m \in R PROVE m \in {M[k] : k \in 1 .. Len(M)}
        <3>1. CASE m = t
            BY <1>2, <1>3, <1>4, <3>1
        <3>2. CASE m \in S
            <4>1. PICK k \in 1 .. Len(L) : m = L[k]
                BY <3>2 DEF ChainOf
            <4>2. k + 1 \in 1 .. Len(M) /\ M[k + 1] = m
                BY <1>2, <1>3, <1>4, <4>1
            <4> QED
                BY <4>2
        <3> QED
            BY <3>1, <3>2
    <2>2. ASSUME NEW k \in 1 .. Len(M) PROVE M[k] \in R
        BY <1>3, ElementOfSeq
    <2> QED
        BY <2>1, <2>2
<1>6. Len(M) = Cardinality(R)
    <2>1. Cardinality(R) = Cardinality(S) + 1
        BY <1>0, FS_AddElement
    <2> QED
        BY <1>2, <1>3, <2>1 DEF ChainOf
<1>7. M # <<>>
    BY <1>2, <1>3, EmptySeq
<1>8. \A m \in R : m <= M[Len(M)]
    <2>1. CASE S = {}
        <3>1. Len(L) = 0
            BY <2>1, FS_EmptySet DEF ChainOf
        <3> QED
            BY <1>3, <1>4, <2>1, <3>1
    <2>2. CASE S # {}
        <3>1. L # <<>> /\ \A m \in S : m <= L[Len(L)]
            BY <2>2 DEF ChainOf
        <3>2. Len(L) >= 1
            BY <1>1, <3>1, EmptySeq
        <3>3. M[Len(M)] = L[Len(L)] /\ L[Len(L)] \in S
            BY <1>2, <1>3, <1>4, <3>2
        <3>4. t <= L[Len(L)]
            <4> DEFINE e == L[Len(L)]
            <4>1. e \in S
                BY <3>3
            <4> HIDE DEF e
            <4>2. t <= e
                BY <4>1
            <4> QED
                BY <4>2 DEF e
        <3> QED
            BY <3>1, <3>3, <3>4
    <2> QED
        BY <2>1, <2>2
<1>9. ASSUME NEW j \in 1 .. Len(M), NEW k \in 1 .. Len(M), j < k PROVE M[j] < M[k]
    <2>1. k - 1 \in 1 .. Len(L) /\ M[k] = L[k - 1]
        BY <1>2, <1>3, <1>9
    <2>2. CASE j = 1
        BY <1>2, <1>4, <2>1, <2>2
    <2>3. CASE j # 1
        <3>1. j - 1 \in 1 .. Len(L) /\ M[j] = L[j - 1] /\ j - 1 < k - 1
            BY <1>2, <1>3, <1>9, <2>3
        <3> QED
            BY <2>1, <3>1 DEF ChainOf
    <2> QED
        BY <2>2, <2>3
<1> QED
    BY <1>3, <1>5, <1>6, <1>7, <1>8, <1>9 DEF ChainOf, M

\* Following the links of the members of a container gives its members.
LEMMA Follow ==
    ASSUME tok \in [Tokens -> [type : {"object", "array"} \cup Scalars \cup {"string"},
                               name : Names \cup {NoName},
                               child : Tokens \cup {Nil, Junk}, next : Tokens \cup {Nil}]],
           NEW S \in SUBSET Tokens, NEW c, IsFirst(c, S),
           \A m \in S : IsFirst(tok[m].next, {x \in S : x > m})
    PROVE  ChainOf(Chain(c), S)
<1> DEFINE D == Tokens \cup {Nil, Junk}
           f == CHOOSE f : f = [n \in 0 .. TokLen + 1 |->
                         [t \in Tokens \cup {Nil, Junk} |->
                            IF n = 0 \/ t \in {Nil, Junk} THEN <<>>
                            ELSE <<t>> \o f[n - 1][tok[t].next]]]
           From(t) == {x \in S : x >= t}
<1>0. TokLen \in Nat /\ Tokens = 0 .. TokLen /\ Nil = -1 /\ Junk = -2
    BY BoundsAssumption DEF Tokens, Root, Nil, Junk
<1>1. f = [n \in 0 .. TokLen + 1 |->
             [t \in Tokens \cup {Nil, Junk} |->
                            IF n = 0 \/ t \in {Nil, Junk} THEN <<>>
                            ELSE <<t>> \o f[n - 1][tok[t].next]]]
    <2>1. TokLen + 1 \in Nat
        BY <1>0
    <2> QED
        BY <2>1, Recursion, Zenon
<1>2. Chain(c) = f[TokLen + 1][c]
    BY DEF Chain
<1> HIDE DEF f
<1>3. \A n \in 0 .. TokLen + 1, t \in D :
         f[n][t] = IF n = 0 \/ t \in {Nil, Junk} THEN <<>> ELSE <<t>> \o f[n - 1][tok[t].next]
    <2> SUFFICES ASSUME NEW n \in 0 .. TokLen + 1, NEW t \in D
                 PROVE  f[n][t] = IF n = 0 \/ t \in {Nil, Junk} THEN <<>>
                                  ELSE <<t>> \o f[n - 1][tok[t].next]
        OBVIOUS
    <2> DEFINE Row(m) == [x \in Tokens \cup {Nil, Junk} |->
                            IF m = 0 \/ x \in {Nil, Junk} THEN <<>>
                            ELSE <<x>> \o f[m - 1][tok[x].next]]
    <2>1. f = [m \in 0 .. TokLen + 1 |-> Row(m)]
        BY <1>1
    <2>2. f[n] = Row(n)
        <3> HIDE DEF Row
        <3> QED
            BY <2>1
    <2>3. Row(n)[t] = IF n = 0 \/ t \in {Nil, Junk} THEN <<>>
                      ELSE <<t>> \o f[n - 1][tok[t].next]
        OBVIOUS
    <2> QED
        BY <2>2, <2>3
<1> HIDE DEF D
<1>4. ASSUME NEW t \in S
      PROVE  /\ t \in Tokens /\ t \in D /\ t \notin {Nil, Junk}
             /\ tok[t].next \in D /\ IsFirst(tok[t].next, {x \in S : x > t})
             /\ From(t) = {x \in S : x > t} \cup {t}
    <2>1. t \in Tokens /\ t \notin {Nil, Junk} /\ t \in Int /\ \A x \in S : x \in Int
        BY <1>0
    <2>2. t \in D /\ tok[t].next \in D
        BY <2>1 DEF D
    <2>3. \A x \in S : x >= t <=> x > t \/ x = t
        BY <2>1
    <2>4. From(t) = {x \in S : x > t} \cup {t}
        BY <2>3
    <2> QED
        BY <2>1, <2>2, <2>4
<1>5. \A n \in 0 .. TokLen + 1 : f[n][Nil] = <<>>
    BY <1>3 DEF D
<1> DEFINE Done(n, t) == ChainOf(f[n][t], From(t))
           Bad == {d \in 0 .. TokLen : \E t \in S, n \in 0 .. TokLen + 1 :
                                          d = TokLen - t /\ n > d /\ ~Done(n, t)}
<1>6. Bad = {}
    <2> SUFFICES ASSUME Bad # {} PROVE FALSE
        OBVIOUS
    <2>1. PICK d \in Bad : \A x \in Bad : d <= x
        <3>1. Bad \in SUBSET Nat
            BY <1>0
        <3> HIDE DEF Bad
        <3> QED
            BY <3>1, Least
    <2>2. PICK t \in S, n \in 0 .. TokLen + 1 : d = TokLen - t /\ n > d /\ ~Done(n, t)
        OBVIOUS
    <2> DEFINE Rest == {x \in S : x > t}
               u == tok[t].next
    <2>3. n # 0 /\ n - 1 \in 0 .. TokLen + 1 /\ d \in 0 .. TokLen
        BY <1>0, <2>2
    <2>4. f[n][t] = <<t>> \o f[n - 1][u]
        <3> HIDE DEF u
        <3>1. \A k \in D : f[n][k] = IF n = 0 \/ k \in {Nil, Junk} THEN <<>>
                                      ELSE <<k>> \o f[n - 1][tok[k].next]
            BY <1>3
        <3> QED
            BY <1>4, <2>3, <3>1 DEF u
    <2>5. ChainOf(f[n - 1][u], Rest)
        <3>1. CASE Rest = {}
            <4>1. u = Nil
                BY <1>4, <3>1 DEF IsFirst
            <4>2. f[n - 1][u] = <<>>
                BY <1>5, <2>3, <4>1
            <4> QED
                BY <3>1, <4>2, NoChain
        <3>2. CASE Rest # {}
            <4>1. u \in Rest /\ \A m \in Rest : u <= m
                BY <1>4, <3>2 DEF IsFirst
            <4>2. u \in S /\ u > t /\ u \in Nat /\ t \in Nat /\ u <= TokLen
                BY <1>0, <4>1
            <4>3. From(u) = Rest
                <5>1. \A x \in S : x \in Int
                    BY <1>0
                <5>2. \A x \in S : x > t => u <= x
                    BY <4>1
                <5>3. \A x \in S : x >= u <=> x > t
                    <6> HIDE DEF u
                    <6> QED
                        BY <4>2, <5>1, <5>2
                <5> HIDE DEF u
                <5> QED
                    BY <5>3
            <4>4. TokLen - u \in 0 .. TokLen /\ TokLen - u < d /\ n - 1 > TokLen - u
                BY <1>0, <2>2, <2>3, <4>2
            <4>5. TokLen - u \notin Bad
                <5>1. Bad \subseteq Int
                    BY <1>0
                <5> HIDE DEF Bad, u
                <5> QED
                    BY <1>0, <2>1, <2>3, <4>2, <4>4, <5>1
            <4>6. Done(n - 1, u)
                <5> HIDE DEF Done, u
                <5> QED
                    BY <2>3, <4>2, <4>4, <4>5
            <4> QED
                BY <4>3, <4>6
        <3> QED
            BY <3>1, <3>2
    <2>6. Rest \in SUBSET Nat /\ IsFiniteSet(Rest) /\ t \in Nat /\ \A m \in Rest : t < m
        <3>1. IsFiniteSet(0 .. TokLen)
            BY <1>0, FS_Interval
        <3>2. Rest \in SUBSET (0 .. TokLen)
            BY <1>0
        <3> QED
            BY <1>0, <3>1, <3>2, FS_Subset
    <2>7. ChainOf(<<t>> \o f[n - 1][u], Rest \cup {t})
        <3> HIDE DEF Rest, u
        <3> QED
            BY <2>5, <2>6, AddFirst
    <2>8. From(t) = Rest \cup {t}
        BY <1>4
    <2> QED
        BY <2>2, <2>4, <2>7, <2>8
<1>7. CASE S = {}
    <2>1. c = Nil
        BY <1>7 DEF IsFirst
    <2>2. Chain(c) = <<>>
        BY <1>0, <1>2, <1>5, <2>1
    <2> QED
        BY <1>7, <2>2, NoChain
<1>8. CASE S # {}
    <2>1. c \in S /\ \A m \in S : c <= m
        BY <1>8 DEF IsFirst
    <2>2. From(c) = S
        BY <1>0, <2>1
    <2>3. TokLen - c \in 0 .. TokLen /\ TokLen + 1 > TokLen - c /\ TokLen + 1 \in 0 .. TokLen + 1
        BY <1>0, <2>1
    <2>4. Done(TokLen + 1, c)
        <3> HIDE DEF Done
        <3> QED
            BY <1>6, <2>1, <2>3
    <2> QED
        BY <1>2, <2>2, <2>4
<1> QED
    BY <1>7, <1>8

-----------------------------------------------------------------------------
(* The inductive invariant.  u is the last token in use; up[t] is the      *)
(* container that t is a member of, pos[t] its place in the text, O the    *)
(* containers that are open, c the one being filled.                       *)

MembersIn(up, u, t) == {m \in 1 .. u : up[m] = t}

\* A container comes before its members; the open ones contain each other.
Shape(u, up, O, c) ==
    /\ up \in [1 .. u -> 0 .. u] /\ \A t \in 1 .. u : up[t] < t
    /\ O \subseteq 0 .. u
    /\ c = Nil => O = {}
    /\ c # Nil => 0 \in O /\ c \in O /\ \A o \in O : o <= c
    /\ \A o \in O \ {0} : up[o] \in O /\ \A x \in O : x <= up[o] \/ x >= o

\* The lists of members; the `next` of an open container points to its parent,
\* and it is the last member there.
Links(tk, u, up, O) ==
    /\ tk[0].next = Nil
    /\ \A t \in 0 .. u : tk[t].child # Junk => IsFirst(tk[t].child, MembersIn(up, u, t))
    /\ \A t \in 1 .. u \ O :
          IsFirst(tk[t].next, {m \in MembersIn(up, u, up[t]) : m > t})
    /\ \A t \in O \ {0} : /\ tk[t].next = up[t]
                          /\ \A m \in MembersIn(up, u, up[t]) : m <= t

\* The tokens stand for the values in their order, and for the places in W that
\* wait for a value.  The depth of the text tells the parents and the open containers.
Places(s, u, up, pos, O, c, W) ==
    /\ pos \in [0 .. u -> Nat \ {0}] /\ pos[0] = 1
    /\ \A x, y \in 0 .. u : x < y => pos[x] < pos[y]
    /\ {pos[t] : t \in 0 .. u} = Vals(s) \cup W
    /\ \A o \in O : pos[o] <= Len(s) /\ s[pos[o]][1] \in OpenKinds
    /\ c # Nil => Dep(s, Len(s) + 1) = Dep(s, pos[c]) + 1
    /\ \A o \in O, t \in 0 .. u : o < t => Dep(s, pos[o]) < Dep(s, pos[t])
    /\ \A t \in 1 .. u :
          /\ pos[up[t]] <= Len(s) /\ s[pos[up[t]]][1] \in OpenKinds
          /\ Dep(s, pos[up[t]]) = Dep(s, pos[t]) - 1
          /\ \A x \in 0 .. u : up[t] < x /\ x < t => Dep(s, pos[x]) >= Dep(s, pos[t])

\* The types and names of the tokens.
TypeAt(k) == IF k = "{" THEN "object" ELSE IF k = "[" THEN "array" ELSE k
NameAt(s, i) == IF s[i - 1][1] = "key" THEN s[i - 1][2] ELSE NoName
Marks(tk, s, u, pos) ==
    \A t \in 0 .. u :
        /\ t # 0 => tk[t].name = NameAt(s, pos[t])
        /\ pos[t] <= Len(s) => /\ tk[t].type = TypeAt(s[pos[t]][1])
                               /\ s[pos[t]][1] \in OpenKinds => tk[t].child # Junk
        /\ pos[t] > Len(s) => tk[t].child = Nil

Tree(tk, u, c, s, W, up, pos, O) ==
    /\ Shape(u, up, O, c)
    /\ Links(tk, u, up, O)
    /\ Places(s, u, up, pos, O, c, W)
    /\ Marks(tk, s, u, pos)

HasTree(tk, u, c, s, W) ==
    \E up \in [1 .. u -> 0 .. u], pos \in [0 .. u -> 1 .. Len(s) + 1], O \in SUBSET (0 .. u) :
        Tree(tk, u, c, s, W, up, pos, O)

Building == pc \in {"opened", "loop", "value", "after", "trail"}
Waiting == IF pc = "value" THEN {Len(text) + 1} ELSE {}

\* While a text is read, the tokens are the tree of what was read of it.
BuildInv ==
    Building =>
        /\ text \in Seq(Lexemes) /\ text # <<>>
        /\ text[Len(text)][1] = "key" <=> pc = "value"
        /\ pc = "opened" => text[Len(text)][1] \in OpenKinds
        /\ pc = "value" => new = used /\ used > 0
        /\ pc = "after" => text[Len(text)][1] \in Scalars
        /\ pc = "trail" => Dep(text, Len(text) + 1) = 0
        /\ pc = "trail" <=> to = Nil
        /\ HasTree(tok, used, to, text, Waiting)

\* The first token is reset before a text is read, the others as they are taken.
StartInv == pc = "start" => text = <<>> /\ to = Root /\ used = 0 /\ tok[Root] = Zero
\* A text that was accepted is no longer read, and its tree is there.
RestInv ==
    /\ parsed => pc = "idle"
    /\ Accepted => /\ to \in {Root, Nil}
                   /\ \E s \in Seq(Lexemes), l \in Ends :
                         text = Append(s, l) /\ HasTree(tok, used, to, s, {})

IInv == TypeOK /\ BuildInv /\ StartInv /\ RestInv /\ JsonAccepted

-----------------------------------------------------------------------------
(* The places of the tokens, when the text goes on.                        *)

\* Where the tokens are.
LEMMA Where ==
    ASSUME NEW s, Len(s) \in Nat, NEW u \in Nat, NEW up, NEW pos, NEW O, NEW c,
           NEW W, W \subseteq {Len(s) + 1}, Shape(u, up, O, c),
           Places(s, u, up, pos, O, c, W)
    PROVE  /\ \A t \in 0 .. u : pos[t] \in 1 .. Len(s) + 1
           /\ W = {} => \A t \in 0 .. u : pos[t] \in 1 .. Len(s)
           /\ W # {} => pos[u] = Len(s) + 1 /\ \A t \in 0 .. u - 1 : pos[t] \in 1 .. Len(s)
           /\ \A t \in 1 .. u : pos[t] >= 2
<1>1. \A i \in Vals(s) : i \in 1 .. Len(s)
    BY DEF Vals
<1>2. \A t \in 0 .. u : pos[t] \in Vals(s) \cup W
    BY DEF Places
<1>3. \A t \in 0 .. u : pos[t] \in 1 .. Len(s) + 1 /\ (W = {} => pos[t] \in 1 .. Len(s))
    <2> TAKE t \in 0 .. u
    <2>1. CASE pos[t] \in Vals(s)
        BY <1>1, <2>1
    <2>2. CASE pos[t] = Len(s) + 1 /\ W # {}
        <3>1. Len(s) + 1 \in 1 .. Len(s) + 1
            OBVIOUS
        <3> QED
            BY <2>2, <3>1
    <2> QED
        BY <1>2, <2>1, <2>2
<1>4. ASSUME W # {} PROVE pos[u] = Len(s) + 1 /\ \A t \in 0 .. u - 1 : pos[t] \in 1 .. Len(s)
    <2>1. PICK x \in 0 .. u : pos[x] = Len(s) + 1
        BY <1>4 DEF Places
    <2>2. \A t \in 0 .. u : pos[t] <= pos[x]
        BY <1>1, <1>3, <2>1
    <2>3. x = u
        BY <1>1, <1>3, <2>1, <2>2 DEF Places
    <2>4. ASSUME NEW t \in 0 .. u - 1 PROVE pos[t] \in 1 .. Len(s)
        BY <1>1, <1>3, <2>1, <2>3 DEF Places
    <2> QED
        BY <2>1, <2>3, <2>4
<1>5. ASSUME NEW t \in 1 .. u PROVE pos[t] >= 2
    BY <1>3 DEF Places
<1> QED
    BY <1>1, <1>3, <1>4, <1>5

\* What was known of the places is still so.
Kept(r, s, u, up, pos, O) ==
    /\ \A t \in 0 .. u : Dep(r, pos[t]) = Dep(s, pos[t]) /\ Dep(r, pos[t]) \in Int
    /\ \A o \in O : pos[o] <= Len(r) /\ r[pos[o]][1] \in OpenKinds
    /\ \A o \in O, t \in 0 .. u : o < t => Dep(r, pos[o]) < Dep(r, pos[t])
    /\ \A t \in 1 .. u :
          /\ pos[up[t]] <= Len(r) /\ r[pos[up[t]]][1] \in OpenKinds
          /\ Dep(r, pos[up[t]]) = Dep(r, pos[t]) - 1
          /\ \A x \in 0 .. u : up[t] < x /\ x < t => Dep(r, pos[x]) >= Dep(r, pos[t])

\* One more lexeme changes nothing of the places before it.
LEMMA Keep ==
    ASSUME NEW s, NEW l, NEW r, GoesOn(s, l, r), NEW u \in Nat, NEW up, NEW pos, NEW O, NEW c,
           NEW W, W \subseteq {Len(s) + 1}, Shape(u, up, O, c),
           Places(s, u, up, pos, O, c, W)
    PROVE  Kept(r, s, u, up, pos, O)
<1>1. /\ Len(s) \in Nat /\ Len(r) = Len(s) + 1
      /\ \A i \in 1 .. Len(s) : r[i] = s[i]
      /\ \A i \in 1 .. Len(s) + 1 : Dep(r, i) = Dep(s, i) /\ Dep(s, i) \in Int
    BY DEF GoesOn
<1>2. \A t \in 0 .. u : pos[t] \in 1 .. Len(s) + 1
    BY <1>1, Where
<1>3. \A t \in 0 .. u : Dep(r, pos[t]) = Dep(s, pos[t]) /\ Dep(r, pos[t]) \in Int
    BY <1>1, <1>2
<1>4. ASSUME NEW o \in O PROVE pos[o] <= Len(r) /\ r[pos[o]][1] \in OpenKinds
    <2>1. o \in 0 .. u /\ pos[o] <= Len(s) /\ s[pos[o]][1] \in OpenKinds
        BY DEF Shape, Places
    <2>2. pos[o] \in 1 .. Len(s)
        BY <1>1, <1>2, <2>1
    <2> QED
        BY <1>1, <2>1, <2>2
<1>5. ASSUME NEW o \in O, NEW t \in 0 .. u, o < t PROVE Dep(r, pos[o]) < Dep(r, pos[t])
    <2>1. o \in 0 .. u /\ Dep(s, pos[o]) < Dep(s, pos[t])
        BY <1>5 DEF Shape, Places
    <2> QED
        BY <1>3, <2>1
<1>6. ASSUME NEW t \in 1 .. u
      PROVE  /\ pos[up[t]] <= Len(r) /\ r[pos[up[t]]][1] \in OpenKinds
             /\ Dep(r, pos[up[t]]) = Dep(r, pos[t]) - 1
             /\ \A x \in 0 .. u : up[t] < x /\ x < t => Dep(r, pos[x]) >= Dep(r, pos[t])
    <2>1. /\ up[t] \in 0 .. u /\ pos[up[t]] <= Len(s) /\ s[pos[up[t]]][1] \in OpenKinds
          /\ Dep(s, pos[up[t]]) = Dep(s, pos[t]) - 1
          /\ \A x \in 0 .. u : up[t] < x /\ x < t => Dep(s, pos[x]) >= Dep(s, pos[t])
        BY DEF Shape, Places
    <2>2. pos[up[t]] \in 1 .. Len(s)
        BY <1>1, <1>2, <2>1
    <2>3. Dep(r, pos[t]) = Dep(s, pos[t]) /\ Dep(r, pos[up[t]]) = Dep(s, pos[up[t]])
        BY <1>3, <2>1
    <2>4. \A x \in 0 .. u : up[t] < x /\ x < t => Dep(r, pos[x]) >= Dep(r, pos[t])
        BY <1>3, <2>1, <2>3
    <2>5. pos[up[t]] <= Len(r) /\ r[pos[up[t]]][1] \in OpenKinds
        BY <1>1, <2>1, <2>2
    <2> QED
        BY <2>1, <2>3, <2>4, <2>5
<1> QED
    BY <1>3, <1>4, <1>5, <1>6 DEF Kept

\* A comma or a key.
LEMMA PlaceNothing ==
    ASSUME NEW s, NEW l, NEW r, GoesOn(s, l, r), NEW u \in Nat, NEW up, NEW pos, NEW O, NEW c,
           Shape(u, up, O, c), Places(s, u, up, pos, O, c, {}),
           l[1] \notin ValueKinds \cup CloseKinds
    PROVE  Places(r, u, up, pos, O, c, {})
<1>0. Kept(r, s, u, up, pos, O)
    BY Keep
<1>1. /\ Len(s) \in Nat /\ Len(r) = Len(s) + 1 /\ Vals(r) = Vals(s)
      /\ \A i \in 1 .. Len(s) + 1 : Dep(r, i) = Dep(s, i) /\ Dep(s, i) \in Int
      /\ Dep(r, Len(s) + 2) = Dep(s, Len(s) + 1) + Rise(l[1])
    BY DEF GoesOn
<1>2. Rise(l[1]) = 0
    BY DEF Rise, ValueKinds
<1>3. c # Nil => Dep(r, Len(r) + 1) = Dep(r, pos[c]) + 1
    <2> SUFFICES ASSUME c # Nil PROVE Dep(r, Len(r) + 1) = Dep(r, pos[c]) + 1
        OBVIOUS
    <2>1. c \in 0 .. u /\ Dep(s, Len(s) + 1) = Dep(s, pos[c]) + 1
        BY DEF Shape, Places
    <2>2. Dep(r, pos[c]) = Dep(s, pos[c])
        BY <2>1, <1>0 DEF Kept
    <2>3. Len(r) + 1 = Len(s) + 2 /\ Len(s) + 1 \in 1 .. Len(s) + 1
        BY <1>1
    <2>4. Dep(s, Len(s) + 1) \in Int
        BY <1>1, <2>3
    <2> QED
        BY <1>1, <1>2, <2>1, <2>2, <2>3, <2>4
<1> QED
    BY <1>1, <1>3, <1>0 DEF Places, Kept

\* A new token for the next place, which waits for its value.
NewUp(up, u, c) == [t \in 1 .. u + 1 |-> IF t = u + 1 THEN c ELSE up[t]]
NewPos(pos, u, i) == [t \in 0 .. u + 1 |-> IF t = u + 1 THEN i ELSE pos[t]]

\* A new token is the last child of the container to which tokens are added.
LEMMA ShapeNew ==
    ASSUME NEW u \in Nat, NEW up, NEW O, NEW c, Shape(u, up, O, c), c # Nil
    PROVE  Shape(u + 1, NewUp(up, u, c), O, c)
<1>1. /\ up \in [1 .. u -> 0 .. u] /\ \A t \in 1 .. u : up[t] < t
      /\ O \subseteq 0 .. u /\ c \in O /\ 0 \in O /\ c \in 0 .. u
      /\ \A o \in O : o <= c
      /\ \A o \in O \ {0} : up[o] \in O /\ \A x \in O : x <= up[o] \/ x >= o
    BY DEF Shape
<1> DEFINE v == NewUp(up, u, c)
<1>2. \A t \in 1 .. u : t \in 1 .. u + 1 /\ t # u + 1 /\ v[t] = up[t]
    BY DEF NewUp
<1>3. u + 1 \in 1 .. u + 1 /\ v[u + 1] = c /\ v \in [1 .. u + 1 -> 0 .. u + 1]
    BY <1>1 DEF NewUp
<1> HIDE DEF v
<1>4. \A t \in 1 .. u + 1 : t \in 1 .. u \/ t = u + 1
    OBVIOUS
<1>5. \A t \in 1 .. u + 1 : v[t] < t
    BY <1>1, <1>2, <1>3, <1>4
<1>6. \A o \in O \ {0} : v[o] = up[o]
    BY <1>1, <1>2
<1>7. O \subseteq 0 .. u + 1
    BY <1>1
<1> QED
    BY <1>1, <1>3, <1>5, <1>6, <1>7 DEF Shape, v

\* The place of a new token is the next of the text.
LEMMA PlaceNew ==
    ASSUME NEW s, Len(s) \in Nat, NEW u \in Nat, NEW up, NEW pos, NEW O, NEW c,
           Shape(u, up, O, c), Places(s, u, up, pos, O, c, {}), c # Nil
    PROVE  Places(s, u + 1, NewUp(up, u, c), NewPos(pos, u, Len(s) + 1), O, c, {Len(s) + 1})
<1> DEFINE n == Len(s)
           v == NewUp(up, u, c)
           p == NewPos(pos, u, n + 1)
<1>1. /\ up \in [1 .. u -> 0 .. u] /\ \A t \in 1 .. u : up[t] < t
      /\ O \subseteq 0 .. u /\ c \in O /\ 0 \in O /\ c \in 0 .. u
      /\ \A o \in O : o <= c
    BY DEF Shape
<1>2. \A t \in 0 .. u : pos[t] \in 1 .. n
    BY Where
<1>3. \A t \in 0 .. u : t \in 0 .. u + 1 /\ t # u + 1 /\ p[t] = pos[t]
    BY DEF NewPos
<1>4. u + 1 \in 0 .. u + 1 /\ p[u + 1] = n + 1 /\ \A t \in 0 .. u + 1 : t \in 0 .. u \/ t = u + 1
    BY DEF NewPos
<1>5. \A t \in 1 .. u : v[t] = up[t]
    BY DEF NewUp
<1>6. v[u + 1] = c /\ \A t \in 1 .. u + 1 : t \in 1 .. u \/ t = u + 1
    BY DEF NewUp
<1>7. \A t \in 0 .. u + 1 : Dep(s, p[t]) \in Int
    <2>1. \A t \in 0 .. u + 1 : p[t] \in Nat \ {0}
        BY <1>2, <1>3, <1>4
    <2> QED
        BY <2>1, NextDep
<1>8. Dep(s, n + 1) = Dep(s, p[c]) + 1
    BY <1>1, <1>3 DEF Places
<1>9. \A o \in O, t \in 0 .. u : o < t => Dep(s, p[o]) < Dep(s, p[t])
    BY <1>1, <1>3 DEF Places
<1>10. p \in [0 .. u + 1 -> Nat \ {0}] /\ p[0] = 1
    <2>1. \A t \in 0 .. u + 1 : p[t] \in Nat \ {0}
        BY <1>2, <1>3, <1>4
    <2>2. 0 \in 0 .. u
        OBVIOUS
    <2>3. p[0] = 1
        BY <1>3, <2>2 DEF Places
    <2> QED
        BY <2>1, <2>3 DEF NewPos
<1> HIDE DEF p, v
<1>11. \A x, y \in 0 .. u + 1 : x < y => p[x] < p[y]
    <2> SUFFICES ASSUME NEW x \in 0 .. u + 1, NEW y \in 0 .. u + 1, x < y PROVE p[x] < p[y]
        OBVIOUS
    <2>1. x \in 0 .. u /\ p[x] = pos[x] /\ pos[x] \in 1 .. n
        BY <1>2, <1>3
    <2>2. CASE y = u + 1
        BY <1>4, <2>1, <2>2
    <2>3. CASE y \in 0 .. u
        BY <1>3, <2>1, <2>3 DEF Places
    <2> QED
        BY <1>4, <2>2, <2>3
<1>12. {p[t] : t \in 0 .. u + 1} = Vals(s) \cup {n + 1}
    <2>1. {pos[t] : t \in 0 .. u} = Vals(s)
        BY DEF Places
    <2>2. {p[t] : t \in 0 .. u + 1} = {p[t] : t \in 0 .. u} \cup {p[u + 1]}
        BY <1>3, <1>4
    <2>3. {p[t] : t \in 0 .. u} = {pos[t] : t \in 0 .. u}
        BY <1>3
    <2> QED
        BY <1>4, <2>1, <2>2, <2>3
<1>13. \A o \in O : p[o] <= n /\ s[p[o]][1] \in OpenKinds
    BY <1>1, <1>3 DEF Places
<1>14. \A o \in O, t \in 0 .. u + 1 : o < t => Dep(s, p[o]) < Dep(s, p[t])
    <2> SUFFICES ASSUME NEW o \in O PROVE Dep(s, p[o]) < Dep(s, p[u + 1])
        BY <1>4, <1>9
    <2>1. Dep(s, p[o]) \in Int /\ Dep(s, p[c]) \in Int /\ (o = c \/ o < c)
        BY <1>1, <1>3, <1>7
    <2>2. o = c \/ Dep(s, p[o]) < Dep(s, p[c])
        BY <1>1, <1>9, <2>1
    <2> QED
        BY <1>4, <1>8, <2>1, <2>2
<1>15. ASSUME NEW t \in 1 .. u + 1
       PROVE  /\ p[v[t]] <= n /\ s[p[v[t]]][1] \in OpenKinds
              /\ Dep(s, p[v[t]]) = Dep(s, p[t]) - 1
              /\ \A x \in 0 .. u + 1 : v[t] < x /\ x < t => Dep(s, p[x]) >= Dep(s, p[t])
    <2>1. CASE t = u + 1
        <3>1. v[t] = c /\ Dep(s, p[t]) = Dep(s, p[c]) + 1 /\ Dep(s, p[c]) \in Int
            BY <1>1, <1>3, <1>4, <1>6, <1>7, <1>8, <2>1
        <3>2. ASSUME NEW x \in 0 .. u + 1, c < x, x < t PROVE Dep(s, p[x]) >= Dep(s, p[t])
            <4>1. x \in 0 .. u /\ Dep(s, p[x]) \in Int
                BY <1>4, <1>7, <2>1, <3>2
            <4>2. Dep(s, p[c]) < Dep(s, p[x])
                BY <1>1, <1>9, <3>2, <4>1
            <4> QED
                BY <3>1, <4>1, <4>2
        <3> QED
            BY <1>1, <1>13, <3>1, <3>2
    <2>2. CASE t \in 1 .. u
        <3>1. t \in 0 .. u /\ up[t] \in 0 .. u /\ v[t] = up[t]
              /\ p[up[t]] = pos[up[t]] /\ p[t] = pos[t]
            BY <1>1, <1>3, <1>5, <2>2
        <3>2. \A x \in 0 .. u + 1 : x < t => x \in 0 .. u /\ p[x] = pos[x]
            BY <1>3, <1>4, <2>2
        <3>3. /\ pos[up[t]] <= n /\ s[pos[up[t]]][1] \in OpenKinds
              /\ Dep(s, pos[up[t]]) = Dep(s, pos[t]) - 1
              /\ \A x \in 0 .. u : up[t] < x /\ x < t => Dep(s, pos[x]) >= Dep(s, pos[t])
            BY <2>2 DEF Places
        <3> QED
            BY <3>1, <3>2, <3>3
    <2> QED
        BY <1>6, <2>1, <2>2
<1> QED
    BY <1>8, <1>10, <1>11, <1>12, <1>13, <1>14, <1>15 DEF Places, p, v

\* The token that waits is a member of the container being filled.
LEMMA WaitsInside ==
    ASSUME NEW s, Len(s) \in Nat, NEW u \in Nat, NEW up, NEW pos, NEW O, NEW c,
           Shape(u, up, O, c), Places(s, u, up, pos, O, c, {Len(s) + 1}), c # Nil, u > 0
    PROVE  up[u] = c /\ c < u
<1>1. /\ up[u] \in 0 .. u /\ up[u] < u /\ O \subseteq 0 .. u /\ c \in O /\ c \in 0 .. u
    <2>1. u \in 1 .. u
        OBVIOUS
    <2> QED
        BY <2>1 DEF Shape
<1>2. \A t \in 0 .. u : pos[t] \in 1 .. Len(s) + 1
    BY Where
<1>3. pos[u] = Len(s) + 1
    BY Where
<1>4. \A t \in 0 .. u : Dep(s, pos[t]) \in Int
    <2>1. \A t \in 0 .. u : pos[t] \in Nat \ {0}
        BY <1>2
    <2> QED
        BY <2>1, NextDep
<1>5. c < u
    <2>1. pos[c] <= Len(s)
        BY <1>1 DEF Places
    <2>2. c # u
        BY <1>3, <2>1
    <2> QED
        BY <1>1, <2>2
<1>6. Dep(s, pos[u]) = Dep(s, pos[c]) + 1
    BY <1>3 DEF Places
<1>7. /\ Dep(s, pos[up[u]]) = Dep(s, pos[u]) - 1
      /\ \A x \in 0 .. u : up[u] < x /\ x < u => Dep(s, pos[x]) >= Dep(s, pos[u])
    BY DEF Places
<1>8. \A t \in 0 .. u : c < t => Dep(s, pos[c]) < Dep(s, pos[t])
    BY <1>1 DEF Places
<1>9. ~(up[u] < c)
    <2> SUFFICES ASSUME up[u] < c PROVE FALSE
        OBVIOUS
    <2>1. Dep(s, pos[c]) >= Dep(s, pos[u])
        BY <1>1, <1>5, <1>7
    <2> QED
        BY <1>1, <1>4, <1>6, <2>1
<1>10. ~(c < up[u])
    <2> SUFFICES ASSUME c < up[u] PROVE FALSE
        OBVIOUS
    <2>1. Dep(s, pos[c]) < Dep(s, pos[up[u]])
        BY <1>1, <1>8
    <2> QED
        BY <1>1, <1>4, <1>6, <1>7, <2>1
<1> QED
    BY <1>1, <1>5, <1>9, <1>10

\* The value of the token that waits.
LEMMA PlaceScalar ==
    ASSUME NEW s, NEW l, NEW r, GoesOn(s, l, r), NEW u \in Nat, NEW up, NEW pos, NEW O, NEW c,
           Shape(u, up, O, c), Places(s, u, up, pos, O, c, {Len(s) + 1}), l[1] \in Scalars
    PROVE  Places(r, u, up, pos, O, c, {})
<1>0. Kept(r, s, u, up, pos, O)
    BY Keep
<1>1. l[1] \in ValueKinds /\ l[1] \notin OpenKinds /\ l[1] \notin CloseKinds
    BY Kinds DEF ValueKinds
<1>2. /\ Len(s) \in Nat /\ Len(r) = Len(s) + 1 /\ Vals(r) = Vals(s) \cup {Len(s) + 1}
      /\ \A i \in 1 .. Len(s) + 1 : Dep(r, i) = Dep(s, i) /\ Dep(s, i) \in Int
      /\ Dep(r, Len(s) + 2) = Dep(s, Len(s) + 1) + Rise(l[1])
    BY <1>1 DEF GoesOn
<1>3. c # Nil => Dep(r, Len(r) + 1) = Dep(r, pos[c]) + 1
    <2> SUFFICES ASSUME c # Nil PROVE Dep(r, Len(r) + 1) = Dep(r, pos[c]) + 1
        OBVIOUS
    <2>1. c \in 0 .. u /\ Dep(s, Len(s) + 1) = Dep(s, pos[c]) + 1
        BY DEF Shape, Places
    <2>2. Dep(r, pos[c]) = Dep(s, pos[c])
        BY <2>1, <1>0 DEF Kept
    <2>3. Len(r) + 1 = Len(s) + 2 /\ Len(s) + 1 \in 1 .. Len(s) + 1
        BY <1>2
    <2>4. Dep(s, Len(s) + 1) \in Int /\ Rise(l[1]) = 0
        BY <1>1, <1>2, <2>3 DEF Rise
    <2> QED
        BY <1>2, <2>1, <2>2, <2>3, <2>4
<1> QED
    BY <1>0, <1>2, <1>3 DEF Places, Kept

\* A token that becomes a container is the innermost one.
LEMMA ShapeOpen ==
    ASSUME NEW u \in Nat \ {0}, NEW up, NEW O, NEW c, Shape(u, up, O, c), c # Nil,
           up[u] = c, c < u
    PROVE  Shape(u, up, O \cup {u}, u)
<1>1. /\ up \in [1 .. u -> 0 .. u] /\ \A t \in 1 .. u : up[t] < t
      /\ O \subseteq 0 .. u /\ c \in O /\ 0 \in O /\ c \in 0 .. u
      /\ \A o \in O : o <= c
      /\ \A o \in O \ {0} : up[o] \in O /\ \A x \in O : x <= up[o] \/ x >= o
    BY DEF Shape
<1>2. u \notin O /\ u # Nil
    BY <1>1 DEF Nil
<1>3. \A o \in O \cup {u} : o <= u
    BY <1>1
<1>4. ASSUME NEW o \in (O \cup {u}) \ {0}
      PROVE  up[o] \in O \cup {u} /\ \A x \in O \cup {u} : x <= up[o] \/ x >= o
    <2>1. CASE o = u
        BY <1>1, <2>1
    <2>2. CASE o \in O \ {0}
        <3>1. u >= o
            BY <1>1, <2>2
        <3> QED
            BY <1>1, <2>2, <3>1
    <2> QED
        BY <2>1, <2>2
<1> QED
    BY <1>1, <1>2, <1>3, <1>4 DEF Shape

\* The bracket of a container is where its token waited for it.
LEMMA PlaceOpen ==
    ASSUME NEW s, NEW l, NEW r, GoesOn(s, l, r), NEW u \in Nat, NEW up, NEW pos, NEW O, NEW c,
           Shape(u, up, O, c), Places(s, u, up, pos, O, c, {Len(s) + 1}), l[1] \in OpenKinds
    PROVE  Places(r, u, up, pos, O \cup {u}, u, {})
<1>0. Kept(r, s, u, up, pos, O)
    BY Keep
<1>2. /\ Len(s) \in Nat /\ Len(r) = Len(s) + 1 /\ Vals(r) = Vals(s) \cup {Len(s) + 1}
      /\ r[Len(s) + 1] = l
      /\ \A i \in 1 .. Len(s) + 1 : Dep(r, i) = Dep(s, i) /\ Dep(s, i) \in Int
      /\ Dep(r, Len(s) + 2) = Dep(s, Len(s) + 1) + Rise(l[1])
    BY DEF GoesOn, ValueKinds
<1>3. pos[u] = Len(s) + 1
    BY <1>2, Where
<1>4. Dep(r, Len(r) + 1) = Dep(r, pos[u]) + 1
    <2>1. Len(r) + 1 = Len(s) + 2 /\ Len(s) + 1 \in 1 .. Len(s) + 1 /\ Rise(l[1]) = 1
        BY <1>2 DEF Rise
    <2> QED
        BY <1>2, <1>3, <2>1
<1>5. ASSUME NEW o \in O \cup {u} PROVE pos[o] <= Len(r) /\ r[pos[o]][1] \in OpenKinds
    BY <1>0, <1>2, <1>3 DEF Kept
<1>6. ASSUME NEW o \in O \cup {u}, NEW t \in 0 .. u, o < t PROVE Dep(r, pos[o]) < Dep(r, pos[t])
    <2>1. o # u
        BY <1>6
    <2> QED
        BY <1>0, <1>6, <2>1 DEF Kept
<1> QED
    BY <1>0, <1>2, <1>4, <1>5, <1>6 DEF Places, Kept

\* The end of a container.
Parent(up, c) == IF c = 0 THEN Nil ELSE up[c]

\* The container around one that ends is the innermost one.
LEMMA ShapeClose ==
    ASSUME NEW u \in Nat, NEW up, NEW O, NEW c, Shape(u, up, O, c), c # Nil
    PROVE  Shape(u, up, O \ {c}, Parent(up, c))
<1>1. /\ up \in [1 .. u -> 0 .. u] /\ \A t \in 1 .. u : up[t] < t
      /\ O \subseteq 0 .. u /\ c \in O /\ 0 \in O /\ c \in 0 .. u
      /\ \A o \in O : o <= c
      /\ \A o \in O \ {0} : up[o] \in O /\ \A x \in O : x <= up[o] \/ x >= o
    BY DEF Shape
<1>2. CASE c = 0
    <2>1. O \ {c} = {} /\ Parent(up, c) = Nil
        BY <1>1, <1>2 DEF Parent
    <2> QED
        BY <1>1, <2>1 DEF Shape
<1>3. CASE c # 0
    <2>1. Parent(up, c) = up[c] /\ up[c] \in O /\ up[c] < c /\ up[c] \in 0 .. u
        BY <1>1, <1>3 DEF Parent
    <2>2. \A x \in O \ {c} : x <= up[c]
        BY <1>1, <1>3
    <2>3. ASSUME NEW o \in (O \ {c}) \ {0} PROVE up[o] \in O \ {c}
        <3>1. up[o] < o /\ o < c /\ up[o] \in O /\ up[o] \in 0 .. u
            BY <1>1
        <3> QED
            BY <1>1, <3>1
    <2>4. up[c] # Nil /\ 0 \in O \ {c} /\ up[c] \in O \ {c}
        BY <1>1, <1>3, <2>1 DEF Nil
    <2> QED
        BY <1>1, <2>1, <2>2, <2>3, <2>4 DEF Shape
<1> QED
    BY <1>2, <1>3

\* A bracket that closes a container takes no token.
LEMMA PlaceClose ==
    ASSUME NEW s, NEW l, NEW r, GoesOn(s, l, r), NEW u \in Nat, NEW up, NEW pos, NEW O, NEW c,
           Shape(u, up, O, c), Places(s, u, up, pos, O, c, {}), c # Nil, l[1] \in CloseKinds
    PROVE  Places(r, u, up, pos, O \ {c}, Parent(up, c), {})
<1>0. Kept(r, s, u, up, pos, O)
    BY Keep
<1>1. l[1] \notin ValueKinds /\ l[1] \notin OpenKinds
    BY Kinds DEF ValueKinds
<1>2. /\ Len(s) \in Nat /\ Len(r) = Len(s) + 1 /\ Vals(r) = Vals(s)
      /\ \A i \in 1 .. Len(s) + 1 : Dep(r, i) = Dep(s, i) /\ Dep(s, i) \in Int
      /\ Dep(r, Len(s) + 2) = Dep(s, Len(s) + 1) + Rise(l[1])
    BY <1>1 DEF GoesOn
<1>3. c \in 0 .. u /\ Dep(s, Len(s) + 1) = Dep(s, pos[c]) + 1
    BY DEF Shape, Places
<1>4. Dep(r, Len(r) + 1) = Dep(r, pos[c])
    <2>1. Len(r) + 1 = Len(s) + 2 /\ Len(s) + 1 \in 1 .. Len(s) + 1 /\ Rise(l[1]) = -1
        BY <1>1, <1>2 DEF Rise
    <2>2. Dep(r, pos[c]) = Dep(s, pos[c]) /\ Dep(r, pos[c]) \in Int
        BY <1>0, <1>3 DEF Kept
    <2> QED
        BY <1>2, <1>3, <2>1, <2>2
<1>5. Parent(up, c) # Nil => Dep(r, Len(r) + 1) = Dep(r, pos[Parent(up, c)]) + 1
    <2> SUFFICES ASSUME Parent(up, c) # Nil PROVE Dep(r, Len(r) + 1) = Dep(r, pos[up[c]]) + 1
        BY DEF Parent
    <2>1. c \in 1 .. u
        BY <1>3 DEF Parent
    <2>2. Dep(r, pos[up[c]]) = Dep(r, pos[c]) - 1 /\ Dep(r, pos[c]) \in Int
        BY <1>0, <1>3, <2>1 DEF Kept
    <2> QED
        BY <1>4, <2>2
<1> QED
    BY <1>0, <1>2, <1>5 DEF Places, Kept

-----------------------------------------------------------------------------
(* The types, names and links of the tokens.                               *)

\* The text goes on; a token that waited has its value.
LEMMA MarksGoOn ==
    ASSUME NEW s, NEW l, NEW r, GoesOn(s, l, r), NEW u \in Nat, NEW pos, NEW tk, NEW tj,
           Marks(tk, s, u, pos),
           \A t \in 0 .. u : pos[t] \in 1 .. Len(s) + 1 /\ (t # 0 => pos[t] >= 2),
           \A t \in 0 .. u : tj[t].name = tk[t].name,
           \A t \in 0 .. u : IF pos[t] = Len(s) + 1
                             THEN /\ tj[t].type = TypeAt(l[1])
                                  /\ l[1] \in OpenKinds => tj[t].child # Junk
                             ELSE tj[t].type = tk[t].type /\ tj[t].child = tk[t].child
    PROVE  Marks(tj, r, u, pos)
<1>1. /\ Len(s) \in Nat /\ Len(r) = Len(s) + 1 /\ r[Len(s) + 1] = l
      /\ \A i \in 1 .. Len(s) : r[i] = s[i]
    BY DEF GoesOn
<1> SUFFICES ASSUME NEW t \in 0 .. u
             PROVE  /\ t # 0 => tj[t].name = NameAt(r, pos[t])
                    /\ pos[t] <= Len(r) => /\ tj[t].type = TypeAt(r[pos[t]][1])
                                           /\ r[pos[t]][1] \in OpenKinds => tj[t].child # Junk
                    /\ pos[t] > Len(r) => tj[t].child = Nil
    BY DEF Marks
<1>2. t # 0 => tj[t].name = NameAt(r, pos[t])
    <2> SUFFICES ASSUME t # 0 PROVE tj[t].name = NameAt(r, pos[t])
        OBVIOUS
    <2>1. pos[t] - 1 \in 1 .. Len(s)
        BY <1>1
    <2>2. NameAt(r, pos[t]) = NameAt(s, pos[t])
        BY <1>1, <2>1 DEF NameAt
    <2> QED
        BY <2>2 DEF Marks
<1>3. pos[t] \in 1 .. Len(r)
    BY <1>1
<1>4. CASE pos[t] = Len(s) + 1
    BY <1>1, <1>2, <1>3, <1>4
<1>5. CASE pos[t] # Len(s) + 1
    <2>1. pos[t] \in 1 .. Len(s) /\ pos[t] <= Len(s)
        BY <1>1, <1>5
    <2> QED
        BY <1>1, <1>2, <1>3, <1>5, <2>1 DEF Marks
<1> QED
    BY <1>4, <1>5

\* A new token at the next place.
LEMMA MarksNew ==
    ASSUME NEW s, Len(s) \in Nat, NEW u \in Nat, NEW pos, NEW tk, NEW tj,
           Marks(tk, s, u, pos), \A t \in 0 .. u : pos[t] \in 1 .. Len(s),
           \A t \in 0 .. u : /\ tj[t].name = tk[t].name /\ tj[t].type = tk[t].type
                             /\ tk[t].child # Junk => tj[t].child # Junk,
           tj[u + 1].name = NameAt(s, Len(s) + 1), tj[u + 1].child = Nil
    PROVE  Marks(tj, s, u + 1, NewPos(pos, u, Len(s) + 1))
<1> DEFINE p == NewPos(pos, u, Len(s) + 1)
<1>1. \A t \in 0 .. u : t \in 0 .. u + 1 /\ t # u + 1 /\ p[t] = pos[t]
    BY DEF NewPos
<1>2. p[u + 1] = Len(s) + 1
    BY DEF NewPos
<1> HIDE DEF p
<1> SUFFICES ASSUME NEW t \in 0 .. u + 1
             PROVE  /\ t # 0 => tj[t].name = NameAt(s, p[t])
                    /\ p[t] <= Len(s) => /\ tj[t].type = TypeAt(s[p[t]][1])
                                         /\ s[p[t]][1] \in OpenKinds => tj[t].child # Junk
                    /\ p[t] > Len(s) => tj[t].child = Nil
    BY DEF Marks, p
<1>3. CASE t = u + 1
    <2>1. ~(p[t] <= Len(s))
        BY <1>2, <1>3
    <2> QED
        BY <1>2, <1>3, <2>1
<1>4. CASE t \in 0 .. u
    <2>1. p[t] = pos[t] /\ ~(p[t] > Len(s))
        BY <1>1, <1>4
    <2> QED
        BY <1>4, <2>1 DEF Marks
<1> QED
    BY <1>3, <1>4

\* The first token of a list stays the first when a later one is added.
LEMMA FirstStays ==
    ASSUME NEW S, NEW p, NEW x \in Nat, IsFirst(p, S), S \subseteq Nat, \A m \in S : m < x, S # {}
    PROVE  IsFirst(p, S \cup {x})
<1>1. p \in S /\ \A m \in S : p <= m
    BY DEF IsFirst
<1>2. p <= x
    BY <1>1
<1> QED
    BY <1>1, <1>2 DEF IsFirst

\* Linking a new token to its parent or to the last child keeps every list of children.
LEMMA LinksNew ==
    ASSUME NEW u \in Nat, NEW up, NEW O, NEW c, Shape(u, up, O, c), c # Nil,
           NEW tk, NEW tj, Links(tk, u, up, O), tk[c].child # Junk,
           NEW last, MembersIn(up, u, c) # {} => /\ last \in MembersIn(up, u, c)
                                                 /\ \A m \in MembersIn(up, u, c) : m <= last,
           tj[u + 1].child = Nil, tj[u + 1].next = Nil,
           \A t \in 0 .. u :
              /\ tj[t].child = IF MembersIn(up, u, c) = {} /\ t = c THEN u + 1 ELSE tk[t].child
              /\ tj[t].next = IF MembersIn(up, u, c) # {} /\ t = last THEN u + 1 ELSE tk[t].next
    PROVE  Links(tj, u + 1, NewUp(up, u, c), O)
<1> DEFINE v == NewUp(up, u, c)
           f == u + 1
           B == MembersIn(up, u, c)
<1>1. /\ up \in [1 .. u -> 0 .. u] /\ \A t \in 1 .. u : up[t] < t
      /\ O \subseteq 0 .. u /\ c \in O /\ 0 \in O /\ c \in 0 .. u
      /\ \A o \in O : o <= c
    BY DEF Shape
<1>2. \A t \in 1 .. u : v[t] = up[t]
    BY DEF NewUp
<1>3. v[f] = c /\ f \in 1 .. u + 1 /\ \A t \in 1 .. u + 1 : t \in 1 .. u \/ t = f
    BY DEF NewUp
<1>4. ASSUME NEW t \in 0 .. u
      PROVE  MembersIn(v, u + 1, t) = MembersIn(up, u, t) \cup (IF t = c THEN {f} ELSE {})
    <2>1. \A m \in 1 .. u + 1 : v[m] = t <=> m \in MembersIn(up, u, t) \/ (m = f /\ t = c)
        BY <1>2, <1>3 DEF MembersIn
    <2>2. MembersIn(up, u, t) \subseteq 1 .. u + 1
        BY DEF MembersIn
    <2> HIDE DEF f
    <2> QED
        BY <1>3, <2>1, <2>2 DEF MembersIn
<1>5. MembersIn(v, u + 1, f) = {}
    <2>1. \A m \in 1 .. u + 1 : v[m] # f
        BY <1>1, <1>2, <1>3
    <2> QED
        BY <2>1 DEF MembersIn
<1>6. B \subseteq 1 .. u /\ B \subseteq Nat /\ \A m \in B : m > c /\ m \notin O /\ up[m] = c /\ m < f
    BY <1>1 DEF MembersIn
<1>7. tj[0].next = Nil
    <2>1. tk[0].next = Nil
        BY DEF Links
    <2>2. B # {} => last # 0
        BY <1>6
    <2> QED
        BY <2>1, <2>2
<1> HIDE DEF v
<1>8. ASSUME NEW t \in 0 .. u + 1, tj[t].child # Junk
      PROVE  IsFirst(tj[t].child, MembersIn(v, u + 1, t))
    <2>1. CASE t = f
        BY <1>5, <2>1 DEF IsFirst
    <2>2. CASE t \in 0 .. u /\ t # c
        <3>1. MembersIn(v, u + 1, t) = MembersIn(up, u, t) /\ tj[t].child = tk[t].child
            BY <1>4, <2>2
        <3> QED
            BY <1>8, <2>2, <3>1 DEF Links
    <2>3. CASE t = c /\ B = {}
        <3>1. MembersIn(v, u + 1, t) = {f} /\ tj[t].child = f
            BY <1>1, <1>4, <2>3
        <3> QED
            BY <3>1 DEF IsFirst
    <2>4. CASE t = c /\ B # {}
        <3>1. MembersIn(v, u + 1, t) = B \cup {f} /\ tj[t].child = tk[c].child
            BY <1>1, <1>4, <2>4
        <3>2. IsFirst(tk[c].child, B)
            BY <1>1 DEF Links
        <3>3. IsFirst(tk[c].child, B \cup {f})
            <4>1. f \in Nat /\ B \subseteq Nat /\ (\A m \in B : m < f) /\ B # {}
                BY <1>6, <2>4
            <4> HIDE DEF B, f
            <4> QED
                BY <3>2, <4>1, FirstStays
        <3> QED
            BY <3>1, <3>3
    <2> QED
        BY <2>1, <2>2, <2>3, <2>4
<1>9. ASSUME NEW t \in (1 .. u + 1) \ O
      PROVE  IsFirst(tj[t].next, {m \in MembersIn(v, u + 1, v[t]) : m > t})
    <2>1. CASE t = f
        <3>1. MembersIn(v, u + 1, c) = B \cup {f} /\ v[t] = c
            BY <1>1, <1>3, <1>4, <2>1
        <3>2. {m \in B \cup {f} : m > f} = {}
            BY <1>6
        <3> QED
            BY <2>1, <3>1, <3>2 DEF IsFirst
    <2>2. CASE t \in 1 .. u /\ up[t] # c
        <3>1. t \in 0 .. u /\ up[t] \in 0 .. u /\ v[t] = up[t] /\ t \notin B
            BY <1>1, <1>2, <2>2 DEF MembersIn
        <3>2. MembersIn(v, u + 1, up[t]) = MembersIn(up, u, up[t]) /\ tj[t].next = tk[t].next
            BY <1>4, <2>2, <3>1
        <3>3. IsFirst(tk[t].next, {m \in MembersIn(up, u, up[t]) : m > t})
            BY <2>2 DEF Links
        <3> QED
            BY <3>1, <3>2, <3>3
    <2>3. CASE t \in 1 .. u /\ up[t] = c
        <3>1. t \in B /\ t \in 0 .. u /\ v[t] = c /\ MembersIn(v, u + 1, c) = B \cup {f}
            BY <1>1, <1>2, <1>4, <2>3 DEF MembersIn
        <3>2. last \in B /\ \A m \in B : m <= last
            BY <3>1
        <3>3. {m \in B \cup {f} : m > t} = {m \in B : m > t} \cup {f}
            BY <1>6, <2>3
        <3>4. CASE t = last
            <4>1. {m \in B : m > t} = {}
                BY <1>6, <3>2, <3>4
            <4>2. tj[t].next = f
                BY <3>1, <3>4
            <4> QED
                BY <3>1, <3>3, <4>1, <4>2 DEF IsFirst
        <3>5. CASE t # last
            <4>1. last > t /\ last \in {m \in B : m > t}
                BY <1>6, <3>1, <3>2, <3>5
            <4>2. tj[t].next = tk[t].next /\ IsFirst(tk[t].next, {m \in B : m > t})
                BY <2>3, <3>1, <3>5 DEF Links
            <4> DEFINE S == {m \in B : m > t}
            <4>3. S \subseteq Nat /\ (\A m \in S : m < f) /\ f \in Nat /\ S # {}
                BY <1>6, <4>1
            <4>4. IsFirst(tk[t].next, S \cup {f})
                <5> HIDE DEF S, f
                <5>1. IsFirst(tk[t].next, S)
                    BY <4>2 DEF S
                <5> QED
                    BY <4>3, <5>1, FirstStays
            <4> QED
                BY <3>1, <3>3, <4>2, <4>4
        <3> QED
            BY <3>4, <3>5
    <2> QED
        BY <1>3, <2>1, <2>2, <2>3
<1>10. ASSUME NEW t \in O \ {0}
       PROVE  tj[t].next = v[t] /\ \A m \in MembersIn(v, u + 1, v[t]) : m <= t
    <2>1. t \in 1 .. u /\ t \in 0 .. u /\ v[t] = up[t] /\ up[t] \in 0 .. u /\ up[t] < t /\ t <= c
        BY <1>1, <1>2
    <2>2. up[t] # c /\ t \notin B
        BY <1>1, <1>6, <2>1
    <2>3. tj[t].next = tk[t].next /\ MembersIn(v, u + 1, up[t]) = MembersIn(up, u, up[t])
        BY <1>4, <2>1, <2>2
    <2> QED
        BY <2>1, <2>3 DEF Links
<1> QED
    BY <1>7, <1>8, <1>9, <1>10 DEF Links, v

\* The token that got a scalar has no members.
LEMMA LinksScalar ==
    ASSUME NEW u \in Nat \ {0}, NEW up, NEW O, NEW c, Shape(u, up, O, c),
           NEW tk, NEW tj, Links(tk, u, up, O),
           tj[u].child \in {Nil, Junk}, tj[u].next = tk[u].next,
           \A t \in 0 .. u - 1 : tj[t].child = tk[t].child /\ tj[t].next = tk[t].next
    PROVE  Links(tj, u, up, O)
<1>1. MembersIn(up, u, u) = {}
    BY DEF MembersIn, Shape
<1>2. \A t \in 0 .. u : tj[t].next = tk[t].next
    OBVIOUS
<1>3. ASSUME NEW t \in 0 .. u, tj[t].child # Junk PROVE IsFirst(tj[t].child, MembersIn(up, u, t))
    <2>1. CASE t = u
        BY <1>1, <1>3, <2>1 DEF IsFirst
    <2>2. CASE t # u
        BY <1>3, <2>2 DEF Links
    <2> QED
        BY <2>1, <2>2
<1>4. 0 \in 0 .. u /\ 1 .. u \subseteq 0 .. u /\ O \subseteq 0 .. u
    BY DEF Shape
<1> QED
    BY <1>2, <1>3, <1>4 DEF Links

\* The token that became an open container points to its parent.
LEMMA LinksOpen ==
    ASSUME NEW u \in Nat \ {0}, NEW up, NEW O, NEW c, Shape(u, up, O, c),
           NEW tk, NEW tj, Links(tk, u, up, O),
           \A t \in 0 .. u : tj[t].child = tk[t].child,
           \A t \in 0 .. u : tj[t].next = IF t = u THEN up[u] ELSE tk[t].next
    PROVE  Links(tj, u, up, O \cup {u})
<1>1. 0 \in 0 .. u /\ 1 .. u \subseteq 0 .. u /\ O \subseteq 0 .. u /\ u # 0
    BY DEF Shape
<1>2. tj[0].next = Nil
    BY <1>1 DEF Links
<1>3. ASSUME NEW t \in (O \cup {u}) \ {0}
      PROVE  tj[t].next = up[t] /\ \A m \in MembersIn(up, u, up[t]) : m <= t
    <2>1. CASE t = u
        BY <1>1, <2>1 DEF MembersIn
    <2>2. CASE t # u
        BY <1>1, <2>2 DEF Links
    <2> QED
        BY <2>1, <2>2
<1> QED
    BY <1>1, <1>2, <1>3 DEF Links

\* The end of a container closes the list it is the last member of.
LEMMA LinksClose ==
    ASSUME NEW u \in Nat, NEW up, NEW O, NEW c, Shape(u, up, O, c), c # Nil,
           NEW tk, NEW tj, Links(tk, u, up, O),
           \A t \in 0 .. u : tj[t].child = tk[t].child,
           \A t \in 0 .. u : tj[t].next = IF t = c THEN Nil ELSE tk[t].next
    PROVE  Links(tj, u, up, O \ {c}) /\ (c # 0 => tk[c].next = up[c]) /\ (c = 0 => tk[c].next = Nil)
<1>1. 0 \in 0 .. u /\ 1 .. u \subseteq 0 .. u /\ O \subseteq 0 .. u /\ c \in O
    BY DEF Shape
<1>2. tj[0].next = Nil
    BY <1>1 DEF Links
<1>3. ASSUME NEW t \in (1 .. u) \ (O \ {c})
      PROVE  IsFirst(tj[t].next, {m \in MembersIn(up, u, up[t]) : m > t})
    <2>1. CASE t = c
        <3>1. \A m \in MembersIn(up, u, up[t]) : m <= t
            BY <1>1, <2>1 DEF Links
        <3>2. {m \in MembersIn(up, u, up[t]) : m > t} = {}
            BY <3>1 DEF MembersIn
        <3> QED
            BY <1>1, <2>1, <3>2 DEF IsFirst
    <2>2. CASE t # c
        BY <1>1, <2>2 DEF Links
    <2> QED
        BY <2>1, <2>2
<1>4. (c # 0 => tk[c].next = up[c]) /\ (c = 0 => tk[c].next = Nil)
    BY <1>1 DEF Links
<1> QED
    BY <1>1, <1>2, <1>3, <1>4 DEF Links

-----------------------------------------------------------------------------
(* What a lexeme does to the tree.                                         *)

\* The witnesses of a tree.
LEMMA Built ==
    ASSUME NEW tk, NEW u \in Nat, NEW c, NEW s, Len(s) \in Nat, NEW W, W \subseteq {Len(s) + 1},
           NEW up, NEW pos, NEW O, Tree(tk, u, c, s, W, up, pos, O)
    PROVE  HasTree(tk, u, c, s, W)
<1>1. up \in [1 .. u -> 0 .. u] /\ O \in SUBSET (0 .. u)
    BY DEF Tree, Shape
<1>2. \A t \in 0 .. u : pos[t] \in 1 .. Len(s) + 1
    BY Where DEF Tree
<1>3. pos \in [0 .. u -> 1 .. Len(s) + 1]
    BY <1>2 DEF Tree, Places
<1> QED
    BY <1>1, <1>3 DEF HasTree

\* The container being filled is one.
LEMMA Filled ==
    ASSUME NEW tk, NEW u \in Nat, NEW c, NEW s, Len(s) \in Nat, NEW W, W \subseteq {Len(s) + 1},
           HasTree(tk, u, c, s, W), c # Nil
    PROVE  c \in 0 .. u /\ tk[c].child # Junk
<1>1. PICK up, pos, O : Tree(tk, u, c, s, W, up, pos, O)
    BY DEF HasTree
<1>2. c \in O /\ c \in 0 .. u
    BY <1>1 DEF Tree, Shape
<1>3. pos[c] <= Len(s) /\ s[pos[c]][1] \in OpenKinds
    BY <1>1, <1>2 DEF Tree, Places
<1> QED
    BY <1>1, <1>2, <1>3 DEF Tree, Marks

\* A comma or a key leaves the tree.
LEMMA TreeNothing ==
    ASSUME NEW tk, NEW u \in Nat, NEW c, NEW s, NEW l, NEW r, GoesOn(s, l, r),
           HasTree(tk, u, c, s, {}), l[1] \notin ValueKinds \cup CloseKinds
    PROVE  HasTree(tk, u, c, r, {})
<1>1. PICK up, pos, O : Tree(tk, u, c, s, {}, up, pos, O)
    BY DEF HasTree
<1>2. Len(s) \in Nat /\ Len(r) \in Nat
    BY DEF GoesOn
<1>3. Places(r, u, up, pos, O, c, {})
    BY <1>1, PlaceNothing DEF Tree
<1>4. \A t \in 0 .. u : pos[t] \in 1 .. Len(s) /\ (t # 0 => pos[t] >= 2)
    BY <1>1, <1>2, Where DEF Tree
<1>5. Marks(tk, r, u, pos)
    <2>1. \A t \in 0 .. u : pos[t] \in 1 .. Len(s) + 1 /\ pos[t] # Len(s) + 1
        BY <1>2, <1>4
    <2> QED
        BY <1>1, <1>4, <2>1, MarksGoOn DEF Tree
<1>6. Tree(tk, u, c, r, {}, up, pos, O)
    BY <1>1, <1>3, <1>5 DEF Tree
<1> QED
    BY <1>2, <1>6, Built

\* The end of a container (lwjson.c:532-549).
LEMMA TreeClose ==
    ASSUME NEW tk, NEW tj, NEW u \in Nat, NEW c, NEW s, NEW l, NEW r, GoesOn(s, l, r),
           HasTree(tk, u, c, s, {}), c # Nil, l[1] \in CloseKinds,
           \A t \in 0 .. u : /\ tj[t].name = tk[t].name /\ tj[t].type = tk[t].type
                             /\ tj[t].child = tk[t].child
                             /\ tj[t].next = IF t = c THEN Nil ELSE tk[t].next
    PROVE  HasTree(tj, u, tk[c].next, r, {})
<1>1. PICK up, pos, O : Tree(tk, u, c, s, {}, up, pos, O)
    BY DEF HasTree
<1>2. Len(s) \in Nat /\ Len(r) \in Nat
    BY DEF GoesOn
<1>3. Places(r, u, up, pos, O \ {c}, Parent(up, c), {}) /\ Shape(u, up, O \ {c}, Parent(up, c))
    BY <1>1, PlaceClose, ShapeClose DEF Tree
<1>4. \A t \in 0 .. u : pos[t] \in 1 .. Len(s) /\ (t # 0 => pos[t] >= 2)
    BY <1>1, <1>2, Where DEF Tree
<1>5. Marks(tj, r, u, pos)
    <2>1. \A t \in 0 .. u : pos[t] \in 1 .. Len(s) + 1 /\ pos[t] # Len(s) + 1
        BY <1>2, <1>4
    <2> QED
        BY <1>1, <1>4, <2>1, MarksGoOn DEF Tree
<1>6. Links(tj, u, up, O \ {c}) /\ Parent(up, c) = tk[c].next
    <2>1. /\ Links(tj, u, up, O \ {c})
          /\ c # 0 => tk[c].next = up[c]
          /\ c = 0 => tk[c].next = Nil
        <3>1. /\ \A t \in 0 .. u : tj[t].child = tk[t].child
              /\ \A t \in 0 .. u : tj[t].next = IF t = c THEN Nil ELSE tk[t].next
            OBVIOUS
        <3>2. Shape(u, up, O, c) /\ Links(tk, u, up, O)
            BY <1>1 DEF Tree
        <3> QED
            BY <3>1, <3>2, LinksClose
    <2> QED
        BY <2>1 DEF Parent
<1>7. Tree(tj, u, tk[c].next, r, {}, up, pos, O \ {c})
    BY <1>3, <1>5, <1>6 DEF Tree
<1> QED
    BY <1>2, <1>7, Built

\* A value that is no container (lwjson.c:594-648).
LEMMA TreeScalar ==
    ASSUME NEW tk, NEW tj, NEW u \in Nat \ {0}, NEW c, NEW s, NEW l, NEW r, GoesOn(s, l, r),
           HasTree(tk, u, c, s, {Len(s) + 1}), l[1] \in Scalars,
           \A t \in 0 .. u : tj[t].name = tk[t].name /\ tj[t].next = tk[t].next,
           tj[u].type = l[1], tj[u].child \in {Nil, Junk},
           \A t \in 0 .. u - 1 : tj[t].type = tk[t].type /\ tj[t].child = tk[t].child
    PROVE  HasTree(tj, u, c, r, {})
<1>1. PICK up, pos, O : Tree(tk, u, c, s, {Len(s) + 1}, up, pos, O)
    BY DEF HasTree
<1>2. Len(s) \in Nat /\ Len(r) \in Nat
    BY DEF GoesOn
<1>3. Places(r, u, up, pos, O, c, {})
    BY <1>1, PlaceScalar DEF Tree
<1>4. /\ \A t \in 0 .. u : pos[t] \in 1 .. Len(s) + 1 /\ (t # 0 => pos[t] >= 2)
      /\ pos[u] = Len(s) + 1 /\ \A t \in 0 .. u - 1 : pos[t] \in 1 .. Len(s)
    <2>1. Shape(u, up, O, c) /\ Places(s, u, up, pos, O, c, {Len(s) + 1})
        BY <1>1 DEF Tree
    <2>2. \A t \in 1 .. u : t \in 0 .. u
        OBVIOUS
    <2>3. {Len(s) + 1} # {} /\ u \in Nat
        OBVIOUS
    <2>4. /\ \A t \in 0 .. u : pos[t] \in 1 .. Len(s) + 1
          /\ {Len(s) + 1} # {} => pos[u] = Len(s) + 1 /\ \A t \in 0 .. u - 1 : pos[t] \in 1 .. Len(s)
          /\ \A t \in 1 .. u : pos[t] >= 2
        BY <1>2, <2>1, <2>3, Where
    <2>5. \A t \in 0 .. u : t # 0 => t \in 1 .. u
        OBVIOUS
    <2> QED
        BY <2>3, <2>4, <2>5
<1>5. Marks(tj, r, u, pos)
    <2>1. \A t \in 0 .. u : pos[t] = Len(s) + 1 \/ t \in 0 .. u - 1
        BY <1>4
    <2>2. \A t \in 0 .. u : pos[t] = Len(s) + 1 => t = u
        BY <1>2, <1>4
    <2>3. l[1] \notin OpenKinds /\ TypeAt(l[1]) = l[1]
        BY Kinds DEF TypeAt, OpenKinds
    <2>4. \A t \in 0 .. u : IF pos[t] = Len(s) + 1
                            THEN /\ tj[t].type = TypeAt(l[1])
                                 /\ l[1] \in OpenKinds => tj[t].child # Junk
                            ELSE tj[t].type = tk[t].type /\ tj[t].child = tk[t].child
        BY <2>1, <2>2, <2>3
    <2> QED
        BY <1>1, <1>4, <2>4, MarksGoOn DEF Tree
<1>6. Links(tj, u, up, O)
    <2>1. u \in 0 .. u /\ \A t \in 0 .. u - 1 : t \in 0 .. u
        OBVIOUS
    <2> QED
        BY <1>1, <2>1, LinksScalar DEF Tree
<1>7. Tree(tj, u, c, r, {}, up, pos, O)
    BY <1>1, <1>3, <1>5, <1>6 DEF Tree
<1> QED
    BY <1>2, <1>7, Built

\* The beginning of a container (lwjson.c:580-592).
LEMMA TreeOpen ==
    ASSUME NEW tk, NEW tj, NEW u \in Nat \ {0}, NEW c, NEW s, NEW l, NEW r, GoesOn(s, l, r),
           HasTree(tk, u, c, s, {Len(s) + 1}), c # Nil, l[1] \in OpenKinds,
           \A t \in 0 .. u : /\ tj[t].name = tk[t].name /\ tj[t].child = tk[t].child
                             /\ tj[t].next = IF t = u THEN c ELSE tk[t].next
                             /\ tj[t].type = IF t = u THEN TypeAt(l[1]) ELSE tk[t].type
    PROVE  HasTree(tj, u, u, r, {})
<1>1. PICK up, pos, O : Tree(tk, u, c, s, {Len(s) + 1}, up, pos, O)
    BY DEF HasTree
<1>2. Len(s) \in Nat /\ Len(r) \in Nat
    BY DEF GoesOn
<1>3. Places(r, u, up, pos, O \cup {u}, u, {})
    BY <1>1, PlaceOpen DEF Tree
<1>4. up[u] = c /\ c < u
    BY <1>1, <1>2, WaitsInside DEF Tree
<1>5. Shape(u, up, O \cup {u}, u)
    BY <1>1, <1>4, ShapeOpen DEF Tree
<1>6. /\ \A t \in 0 .. u : pos[t] \in 1 .. Len(s) + 1 /\ (t # 0 => pos[t] >= 2)
      /\ pos[u] = Len(s) + 1 /\ \A t \in 0 .. u - 1 : pos[t] \in 1 .. Len(s)
    <2>1. Shape(u, up, O, c) /\ Places(s, u, up, pos, O, c, {Len(s) + 1})
        BY <1>1 DEF Tree
    <2>2. \A t \in 1 .. u : t \in 0 .. u
        OBVIOUS
    <2>3. {Len(s) + 1} # {} /\ u \in Nat
        OBVIOUS
    <2>4. /\ \A t \in 0 .. u : pos[t] \in 1 .. Len(s) + 1
          /\ {Len(s) + 1} # {} => pos[u] = Len(s) + 1 /\ \A t \in 0 .. u - 1 : pos[t] \in 1 .. Len(s)
          /\ \A t \in 1 .. u : pos[t] >= 2
        BY <1>2, <2>1, <2>3, Where
    <2>5. \A t \in 0 .. u : t # 0 => t \in 1 .. u
        OBVIOUS
    <2> QED
        BY <2>3, <2>4, <2>5
<1>7. Marks(tj, r, u, pos)
    <2>1. \A t \in 0 .. u : pos[t] = Len(s) + 1 <=> t = u
        <3>1. \A t \in 0 .. u : t = u \/ t \in 0 .. u - 1
            OBVIOUS
        <3> QED
            BY <1>2, <1>6, <3>1
    <2>2. tk[u].child = Nil
        BY <1>1, <1>2, <1>6 DEF Tree, Marks
    <2>3. Nil # Junk
        BY DEF Nil, Junk
    <2>4. \A t \in 0 .. u : IF pos[t] = Len(s) + 1
                            THEN /\ tj[t].type = TypeAt(l[1])
                                 /\ l[1] \in OpenKinds => tj[t].child # Junk
                            ELSE tj[t].type = tk[t].type /\ tj[t].child = tk[t].child
        BY <2>1, <2>2, <2>3
    <2> QED
        BY <1>1, <1>6, <2>4, MarksGoOn DEF Tree
<1>8. Links(tj, u, up, O \cup {u})
    BY <1>1, <1>4, LinksOpen DEF Tree
<1>9. Tree(tj, u, u, r, {}, up, pos, O \cup {u})
    BY <1>3, <1>5, <1>7, <1>8 DEF Tree
<1> QED
    BY <1>2, <1>9, Built

-----------------------------------------------------------------------------
(* The steps of the parser.                                                *)

TokenRecs == [type : {"object", "array"} \cup Scalars \cup {"string"},
              name : Names \cup {NoName},
              child : Tokens \cup {Nil, Junk}, next : Tokens \cup {Nil}]

\* The list of a container's members, while members are added to it.
LEMMA ListOf ==
    ASSUME tok \in [Tokens -> TokenRecs], NEW u \in 0 .. TokLen, NEW up, NEW O, NEW c, NEW t \in 0 .. u,
           Shape(u, up, O, c), Links(tok, u, up, O), tok[t].child # Junk,
           \A o \in O : o <= t
    PROVE  ChainOf(Chain(tok[t].child), MembersIn(up, u, t))
<1>1. Tokens = 0 .. TokLen /\ TokLen \in Nat
    BY BoundsAssumption DEF Tokens, Root
<1>2. MembersIn(up, u, t) \in SUBSET Tokens
    BY <1>1 DEF MembersIn
<1>3. IsFirst(tok[t].child, MembersIn(up, u, t))
    BY DEF Links
<1>4. ASSUME NEW m \in MembersIn(up, u, t)
      PROVE  IsFirst(tok[m].next, {x \in MembersIn(up, u, t) : x > m})
    <2>1. m \in 1 .. u /\ up[m] = t /\ t < m
        BY DEF MembersIn, Shape
    <2>2. m \notin O
        BY <2>1
    <2> QED
        BY <2>1, <2>2 DEF Links
<1> QED
    BY <1>2, <1>3, <1>4, Follow DEF TokenRecs

\* A new token and its link.
LEMMA LinkedTokens ==
    ASSUME tok \in [Tokens -> TokenRecs], used \in 0 .. TokLen, ~Full, NEW up, NEW O,
           Shape(used, up, O, to), Links(tok, used, up, O), to # Nil, tok[to].child # Junk,
           NEW v \in TokenRecs
    PROVE  LET B == MembersIn(up, used, to)
               list == Chain(tok[to].child)
               last == list[Len(list)]
               tj == Linked(v)
           IN  /\ Fresh = used + 1 /\ Fresh \in Tokens /\ Fresh \in 0 .. TokLen
               /\ tj \in [Tokens -> TokenRecs] /\ tj[Fresh] = v
               /\ B # {} => last \in B /\ \A m \in B : m <= last
               /\ \A t \in 0 .. used :
                    /\ tj[t].name = tok[t].name /\ tj[t].type = tok[t].type
                    /\ tj[t].child = IF B = {} /\ t = to THEN used + 1 ELSE tok[t].child
                    /\ tj[t].next = IF B # {} /\ t = last THEN used + 1 ELSE tok[t].next
<1> DEFINE B == MembersIn(up, used, to)
           list == Chain(tok[to].child)
           last == list[Len(list)]
           tj == Linked(v)
<1>1. Tokens = 0 .. TokLen /\ TokLen \in Nat /\ Fresh = used + 1 /\ Fresh \in 0 .. TokLen
    BY BoundsAssumption DEF Tokens, Root, Full, Fresh
<1>2. to \in O /\ O \subseteq 0 .. used /\ \A o \in O : o <= to
    BY DEF Shape
<1>3. ChainOf(list, B)
    BY <1>2, ListOf
<1> HIDE DEF list
<1>4. B # {} => last \in B /\ \A m \in B : m <= last
    <2> SUFFICES ASSUME B # {} PROVE last \in B /\ \A m \in B : m <= last
        OBVIOUS
    <2>1. /\ list \in Seq(B) /\ list # <<>> /\ \A m \in B : m <= last
        BY <1>3 DEF ChainOf
    <2>2. Len(list) \in 1 .. Len(list)
        BY <2>1, EmptySeq
    <2> HIDE DEF B
    <2> QED
        BY <2>1, <2>2, ElementOfSeq
<1>5. B = {} <=> list = <<>>
    <2>1. list \in Seq(B) /\ {list[k] : k \in 1 .. Len(list)} = B
        BY <1>3 DEF ChainOf
    <2>2. B = {} => list = <<>>
        <3> SUFFICES ASSUME B = {}, list # <<>> PROVE FALSE
            OBVIOUS
        <3>1. Len(list) \in 1 .. Len(list)
            BY <2>1, EmptySeq
        <3> QED
            BY <2>1, <3>1
    <2>3. B # {} => list # <<>>
        BY <1>3 DEF ChainOf
    <2> QED
        BY <2>2, <2>3
<1>6. B \subseteq 1 .. used
    BY DEF MembersIn
<1> HIDE DEF B, last
<1>7. tj = IF list = <<>> THEN [tok EXCEPT ![Fresh] = v, ![to].child = Fresh]
           ELSE [tok EXCEPT ![Fresh] = v, ![last].next = Fresh]
    BY DEF Linked, list, last
<1> HIDE DEF tj
<1>8. Fresh \in Tokens /\ Fresh \notin 0 .. used /\ 0 .. used \subseteq Tokens
    BY <1>1
<1>9. \A t \in 0 .. used : tok[t] \in TokenRecs
    BY <1>8
<1>10. /\ tj \in [Tokens -> TokenRecs] /\ tj[Fresh] = v
       /\ \A t \in 0 .. used :
             /\ tj[t].name = tok[t].name /\ tj[t].type = tok[t].type
             /\ tj[t].child = IF B = {} /\ t = to THEN used + 1 ELSE tok[t].child
             /\ tj[t].next = IF B # {} /\ t = last THEN used + 1 ELSE tok[t].next
    <2>1. CASE B = {}
        <3>1. tj = [tok EXCEPT ![Fresh] = v, ![to].child = Fresh] /\ to \in Tokens /\ to # Fresh
            BY <1>2, <1>5, <1>7, <1>8, <2>1
        <3>2. tj \in [Tokens -> TokenRecs] /\ tj[Fresh] = v
            BY <1>8, <3>1 DEF TokenRecs
        <3>3. \A t \in 0 .. used : tj[t] = IF t = to THEN [tok[t] EXCEPT !.child = Fresh] ELSE tok[t]
            BY <1>8, <3>1
        <3>4. ASSUME NEW t \in 0 .. used
              PROVE  /\ tj[t].name = tok[t].name /\ tj[t].type = tok[t].type
                     /\ tj[t].child = IF B = {} /\ t = to THEN used + 1 ELSE tok[t].child
                     /\ tj[t].next = IF B # {} /\ t = last THEN used + 1 ELSE tok[t].next
            <4>1. tok[t] \in TokenRecs
                BY <1>9
            <4>2. CASE t = to
                <5>1. tj[t] = [tok[t] EXCEPT !.child = used + 1]
                    BY <1>1, <3>3, <4>2
                <5> QED
                    BY <2>1, <4>1, <4>2, <5>1 DEF TokenRecs
            <4>3. CASE t # to
                <5>1. tj[t] = tok[t]
                    BY <3>3, <4>3
                <5> QED
                    BY <2>1, <4>3, <5>1
            <4> QED
                BY <4>2, <4>3
        <3> QED
            BY <3>2, <3>4
    <2>2. CASE B # {}
        <3>1. tj = [tok EXCEPT ![Fresh] = v, ![last].next = Fresh] /\ last \in Tokens
              /\ last # Fresh
            BY <1>4, <1>5, <1>6, <1>7, <1>8, <2>2
        <3>2. tj \in [Tokens -> TokenRecs] /\ tj[Fresh] = v
            BY <1>8, <3>1 DEF TokenRecs
        <3>3. \A t \in 0 .. used : tj[t] = IF t = last THEN [tok[t] EXCEPT !.next = Fresh] ELSE tok[t]
            BY <1>8, <3>1
        <3>4. ASSUME NEW t \in 0 .. used
              PROVE  /\ tj[t].name = tok[t].name /\ tj[t].type = tok[t].type
                     /\ tj[t].child = IF B = {} /\ t = to THEN used + 1 ELSE tok[t].child
                     /\ tj[t].next = IF B # {} /\ t = last THEN used + 1 ELSE tok[t].next
            <4>1. tok[t] \in TokenRecs
                BY <1>9
            <4>2. CASE t = last
                <5>1. tj[t] = [tok[t] EXCEPT !.next = used + 1]
                    BY <1>1, <3>3, <4>2
                <5> QED
                    BY <2>2, <4>1, <4>2, <5>1 DEF TokenRecs
            <4>3. CASE t # last
                <5>1. tj[t] = tok[t]
                    BY <3>3, <4>3
                <5> QED
                    BY <2>2, <4>3, <5>1
            <4> QED
                BY <4>2, <4>3
        <3> QED
            BY <3>2, <3>4
    <2> QED
        BY <2>1, <2>2
<1> QED
    BY <1>1, <1>4, <1>8, <1>10 DEF B, last, list, tj

\* A token taken and linked (lwjson.c:551-578).
LEMMA TreeNew ==
    ASSUME tok \in [Tokens -> TokenRecs], used \in 0 .. TokLen, ~Full, to # Nil,
           NEW s, Len(s) \in Nat, HasTree(tok, used, to, s, {}),
           NEW v \in TokenRecs, v.name = NameAt(s, Len(s) + 1), v.child = Nil, v.next = Nil
    PROVE  HasTree(Linked(v), used + 1, to, s, {Len(s) + 1})
<1>1. PICK up, pos, O : Tree(tok, used, to, s, {}, up, pos, O)
    BY DEF HasTree
<1>2. tok[to].child # Junk /\ used \in Nat
    <2>1. used \in Nat
        BY BoundsAssumption
    <2> QED
        BY <2>1, Filled
<1> DEFINE last == Chain(tok[to].child)[Len(Chain(tok[to].child))]
           B == MembersIn(up, used, to)
           tj == Linked(v)
<1>3. /\ Fresh = used + 1 /\ tj[Fresh] = v
      /\ B # {} => last \in B /\ \A m \in B : m <= last
      /\ \A t \in 0 .. used :
            /\ tj[t].name = tok[t].name /\ tj[t].type = tok[t].type
            /\ tj[t].child = IF B = {} /\ t = to THEN used + 1 ELSE tok[t].child
            /\ tj[t].next = IF B # {} /\ t = last THEN used + 1 ELSE tok[t].next
    BY <1>1, <1>2, LinkedTokens DEF Tree
<1> HIDE DEF last, tj
<1>4. Shape(used + 1, NewUp(up, used, to), O, to)
    BY <1>1, <1>2, ShapeNew DEF Tree
<1>5. Places(s, used + 1, NewUp(up, used, to), NewPos(pos, used, Len(s) + 1), O, to, {Len(s) + 1})
    BY <1>1, <1>2, PlaceNew DEF Tree
<1>6. Links(tj, used + 1, NewUp(up, used, to), O)
    BY <1>1, <1>2, <1>3, LinksNew DEF Tree
<1>7. Marks(tj, s, used + 1, NewPos(pos, used, Len(s) + 1))
    <2>1. \A t \in 0 .. used : pos[t] \in 1 .. Len(s)
        BY <1>1, <1>2, Where DEF Tree
    <2>2. used + 1 # Junk
        BY <1>2 DEF Junk
    <2>3. \A t \in 0 .. used : tok[t].child # Junk => tj[t].child # Junk
        BY <1>3, <2>2
    <2> QED
        BY <1>1, <1>2, <1>3, <2>1, <2>3, MarksNew DEF Tree
<1>8. Tree(tj, used + 1, to, s, {Len(s) + 1}, NewUp(up, used, to),
           NewPos(pos, used, Len(s) + 1), O)
    BY <1>4, <1>5, <1>6, <1>7 DEF Tree
<1> QED
    BY <1>2, <1>8, Built DEF tj

\* The bracket that begins a text.
LEMMA TreeRoot ==
    ASSUME NEW tk, NEW l, NEW r, Len(r) = 1, r[1] = l, l[1] \in OpenKinds,
           tk[0].type = TypeAt(l[1]), tk[0].child = Nil, tk[0].next = Nil
    PROVE  HasTree(tk, 0, 0, r, {})
<1> DEFINE up == [t \in 1 .. 0 |-> 0]
           pos == [t \in 0 .. 0 |-> 1]
<1>1. 1 .. 0 = {} /\ 0 .. 0 = {0} /\ 1 .. 1 = {1} /\ 0 # Nil /\ Nil # Junk
    BY DEF Nil, Junk
<1>2. MembersIn(up, 0, 0) = {}
    BY <1>1 DEF MembersIn
<1>3. Shape(0, up, {0}, 0)
    BY <1>1 DEF Shape
<1>4. Links(tk, 0, up, {0})
    BY <1>1, <1>2 DEF Links, IsFirst
<1>5. Dep(r, 2) = 1 /\ Dep(r, 1) = 0
    <2>1. 1 \in Nat \ {0} /\ 1 + 1 = 2
        OBVIOUS
    <2>2. Dep(r, 1 + 1) = Dep(r, 1) + Rise(r[1][1])
        BY <2>1, NextDep
    <2>3. Rise(r[1][1]) = 1
        BY DEF Rise
    <2> QED
        BY <2>1, <2>2, <2>3, FirstDep
<1>6. Vals(r) = {1}
    BY <1>1 DEF Vals, ValueKinds
<1>7. Places(r, 0, up, pos, {0}, 0, {})
    <2>1. pos \in [0 .. 0 -> Nat \ {0}] /\ pos[0] = 1 /\ {pos[t] : t \in 0 .. 0} = {1}
        BY <1>1
    <2>2. Dep(r, Len(r) + 1) = Dep(r, pos[0]) + 1
        BY <1>5, <2>1
    <2> HIDE DEF pos, up
    <2>3. \A o \in {0} : pos[o] <= Len(r) /\ r[pos[o]][1] \in OpenKinds
        BY <2>1
    <2>4. \A x, y \in 0 .. 0 : ~(x < y)
        BY <1>1
    <2>5. \A o \in {0}, t \in 0 .. 0 : ~(o < t)
        BY <1>1
    <2> QED
        BY <1>1, <1>6, <2>1, <2>2, <2>3, <2>4, <2>5 DEF Places
<1>8. Marks(tk, r, 0, pos)
    BY <1>1 DEF Marks
<1>9. Tree(tk, 0, 0, r, {}, up, pos, {0})
    BY <1>3, <1>4, <1>7, <1>8 DEF Tree
<1> HIDE DEF up, pos
<1> QED
    BY <1>9, Built

\* What a value does to the token that waits for it.
LEMMA ValueStep ==
    ASSUME to \in Tokens, NEW tk \in [Tokens -> TokenRecs], NEW u \in 1 .. TokLen, NEW s, NEW l, NEW r,
           GoesOn(s, l, r), HasTree(tk, u, to, s, {Len(s) + 1}), Value(tk, u, l[1])
    PROVE  /\ tok' \in [Tokens -> TokenRecs] /\ to' \in Tokens
           /\ HasTree(tok', u, to', r, {})
           /\ pc' \in {"opened", "after"} /\ res' = res /\ parsed' = parsed
           /\ l[1] # "key" /\ (pc' = "opened" => l[1] \in OpenKinds)
           /\ pc' = "after" => l[1] \in Scalars
<1>1. Tokens = 0 .. TokLen /\ TokLen \in Nat /\ u \in Nat \ {0} /\ u \in Tokens /\ to # Nil
      /\ 0 .. u \subseteq Tokens /\ 0 .. u - 1 \subseteq Tokens
    BY BoundsAssumption DEF Tokens, Root, Nil
<1>2. \A t \in Tokens : tk[t] \in TokenRecs
    OBVIOUS
<1>3. CASE l[1] \in {"{", "["} /\ to' = u
           /\ tok' = [tk EXCEPT ![u].type = IF l[1] = "{" THEN "object" ELSE "array", ![u].next = to]
           /\ Goon("opened")
    <2>1. tok' \in [Tokens -> TokenRecs]
        <3> DEFINE v == [tk[u] EXCEPT !.type = IF l[1] = "{" THEN "object" ELSE "array", !.next = to]
        <3>1. tk[u] \in TokenRecs
            BY <1>1
        <3>2. v \in TokenRecs
            BY <3>1 DEF TokenRecs
        <3>3. tok' = [tk EXCEPT ![u] = v]
            BY <1>1, <1>3
        <3> HIDE DEF v
        <3> QED
            BY <3>2, <3>3
    <2>2. \A t \in Tokens :
            /\ tok'[t].name = tk[t].name /\ tok'[t].child = tk[t].child
            /\ tok'[t].next = IF t = u THEN to ELSE tk[t].next
            /\ tok'[t].type = IF t = u THEN TypeAt(l[1]) ELSE tk[t].type
        <3> SUFFICES ASSUME NEW t \in Tokens
                     PROVE  /\ tok'[t].name = tk[t].name /\ tok'[t].child = tk[t].child
                            /\ tok'[t].next = IF t = u THEN to ELSE tk[t].next
                            /\ tok'[t].type = IF t = u THEN TypeAt(l[1]) ELSE tk[t].type
            OBVIOUS
        <3>1. CASE t = u
            <4>1. tok'[t] = [tk[t] EXCEPT !.type = IF l[1] = "{" THEN "object" ELSE "array", !.next = to]
                BY <1>1, <1>3, <3>1
            <4> QED
                BY <1>2, <1>3, <3>1, <4>1 DEF TokenRecs, TypeAt
        <3>2. CASE t # u
            BY <1>3, <3>2
        <3> QED
            BY <3>1, <3>2
    <2>3. HasTree(tok', u, u, r, {})
        <3>1. l[1] \in OpenKinds
            BY <1>3 DEF OpenKinds
        <3>2. \A t \in 0 .. u :
                /\ tok'[t].name = tk[t].name /\ tok'[t].child = tk[t].child
                /\ tok'[t].next = IF t = u THEN to ELSE tk[t].next
                /\ tok'[t].type = IF t = u THEN TypeAt(l[1]) ELSE tk[t].type
            BY <1>1, <2>2
        <3> QED
            BY <1>1, <3>1, <3>2, TreeOpen, SMTT(40)
    <2>4. l[1] \in OpenKinds /\ l[1] # "key"
        BY <1>3 DEF OpenKinds
    <2> QED
        BY <1>1, <1>3, <2>1, <2>3, <2>4 DEF Goon
<1>4. CASE l[1] \in Scalars /\ to' = to /\ Goon("after")
           /\ tok' = [tk EXCEPT ![u].type = l[1],
                                ![u].child = IF l[1] \in {"string", "int", "real"} THEN Junk ELSE Nil]
    <2>1. tok' \in [Tokens -> TokenRecs]
        <3> DEFINE v == [tk[u] EXCEPT !.type = l[1],
                                      !.child = IF l[1] \in {"string", "int", "real"} THEN Junk ELSE Nil]
        <3>1. tk[u] \in TokenRecs
            BY <1>1
        <3>2. v \in TokenRecs
            BY <1>4, <3>1 DEF TokenRecs
        <3>3. tok' = [tk EXCEPT ![u] = v]
            BY <1>1, <1>4
        <3> HIDE DEF v
        <3> QED
            BY <3>2, <3>3
    <2>2. \A t \in Tokens \ {u} : tok'[t] = tk[t]
        BY <1>4
    <2>3. /\ tok'[u].type = l[1] /\ tok'[u].child \in {Nil, Junk}
          /\ tok'[u].name = tk[u].name /\ tok'[u].next = tk[u].next
        <3>1. tok'[u] = [tk[u] EXCEPT !.type = l[1],
                                      !.child = IF l[1] \in {"string", "int", "real"} THEN Junk ELSE Nil]
            BY <1>1, <1>4
        <3> QED
            BY <1>1, <1>2, <3>1 DEF TokenRecs
    <2>4. HasTree(tok', u, to, r, {})
        <3>1. \A t \in 0 .. u : tok'[t].name = tk[t].name /\ tok'[t].next = tk[t].next
            BY <1>1, <2>2, <2>3
        <3>2. \A t \in 0 .. u - 1 : tok'[t].type = tk[t].type /\ tok'[t].child = tk[t].child
            BY <1>1, <2>2
        <3> QED
            BY <1>1, <1>4, <2>3, <3>1, <3>2, TreeScalar
    <2>5. l[1] # "key"
        BY <1>4, Kinds
    <2> QED
        BY <1>1, <1>4, <2>1, <2>4, <2>5 DEF Goon
<1> QED
    BY <1>3, <1>4 DEF Value

-----------------------------------------------------------------------------
(* What JSON allows next.                                                  *)

\* Counting by a one-to-one function.
LEMMA ImageSize ==
    ASSUME NEW S, IsFiniteSet(S), NEW f, \A x, y \in S : f[x] = f[y] => x = y
    PROVE  IsFiniteSet({f[x] : x \in S}) /\ Cardinality({f[x] : x \in S}) = Cardinality(S)
<1> DEFINE T == {f[x] : x \in S}
           g == [x \in S |-> f[x]]
<1>1. g \in Bijection(S, T)
    <2>1. g \in [S -> T] /\ \A x \in S : g[x] = f[x]
        OBVIOUS
    <2>2. \A y \in T : \E x \in S : f[x] = y
        OBVIOUS
    <2> HIDE DEF g, T
    <2>3. g \in Injection(S, T)
        BY <2>1 DEF Injection, IsInjective
    <2>4. g \in Surjection(S, T)
        BY <2>1, <2>2 DEF Surjection
    <2> QED
        BY <2>3, <2>4 DEF Bijection
<1>2. ExistsBijection(S, T)
    BY <1>1 DEF ExistsBijection
<1> QED
    BY <1>2, FS_Bijection

Comma == ","

\* The container being filled is the last one open in the text.
LastOpen(tk, c, s, j) ==
    /\ j \in 1 .. Len(s) /\ s[j][1] \in OpenKinds
    /\ Dep(s, j) = Dep(s, Len(s) + 1) - 1
    /\ Dep(s, Len(s) + 1) \in Int /\ Dep(s, Len(s) + 1) >= 1
    /\ \A k \in Vals(s) : j < k => Dep(s, k) >= Dep(s, Len(s) + 1)
    /\ tk[c].type = TypeAt(s[j][1])

\* The container to which tokens are added is the last that the text has open.
LEMMA InText ==
    ASSUME NEW tk, NEW u \in Nat, NEW c, NEW s, Len(s) \in Nat, NEW W, W \subseteq {Len(s) + 1},
           HasTree(tk, u, c, s, W), c # Nil
    PROVE  \E j \in Vals(s) : LastOpen(tk, c, s, j)
<1>0. PICK up, pos, O : Tree(tk, u, c, s, W, up, pos, O)
    BY DEF HasTree
<1>1. /\ c \in O /\ 0 \in O /\ c \in 0 .. u
      /\ Shape(u, up, O, c) /\ Places(s, u, up, pos, O, c, W) /\ Marks(tk, s, u, pos)
    BY <1>0 DEF Tree, Shape
<1>2. /\ \A t \in 0 .. u : pos[t] \in 1 .. Len(s) + 1
      /\ pos[c] <= Len(s) /\ s[pos[c]][1] \in OpenKinds
      /\ Dep(s, Len(s) + 1) = Dep(s, pos[c]) + 1 /\ pos[0] = 1
      /\ \A x, y \in 0 .. u : x < y => pos[x] < pos[y]
      /\ {pos[t] : t \in 0 .. u} = Vals(s) \cup W
      /\ \A o \in O, t \in 0 .. u : o < t => Dep(s, pos[o]) < Dep(s, pos[t])
    BY <1>1, Where DEF Places
<1>3. \A t \in 0 .. u : Dep(s, pos[t]) \in Int
    <2>1. \A t \in 0 .. u : pos[t] \in Nat \ {0}
        BY <1>2
    <2> QED
        BY <2>1, NextDep
<1>4. pos[c] \in 1 .. Len(s) /\ pos[c] \in Vals(s)
    BY <1>1, <1>2 DEF Vals, ValueKinds
<1>5. Dep(s, pos[c]) >= 0
    <2>1. CASE c = 0
        BY <1>2, <2>1, FirstDep
    <2>2. CASE c # 0
        <3>1. 0 < c /\ 0 \in 0 .. u
            BY <1>1, <2>2
        <3>2. Dep(s, 1) < Dep(s, pos[c])
            BY <1>1, <1>2, <3>1
        <3> QED
            BY <1>1, <1>3, <3>2, FirstDep
    <2> QED
        BY <2>1, <2>2
<1>6. ASSUME NEW k \in Vals(s), pos[c] < k PROVE Dep(s, k) >= Dep(s, Len(s) + 1)
    <2>1. PICK t \in 0 .. u : k = pos[t]
        BY <1>2
    <2>2. c < t
        <3>1. pos[c] \in Nat /\ pos[t] \in Nat /\ c \in Nat /\ t \in Nat
            BY <1>1, <1>2
        <3>2. t < c => pos[t] < pos[c]
            BY <1>1, <1>2
        <3> QED
            BY <1>6, <2>1, <3>1, <3>2
    <2>3. Dep(s, pos[c]) < Dep(s, k)
        BY <1>1, <1>2, <2>1, <2>2
    <2> QED
        BY <1>1, <1>2, <1>3, <2>1, <2>3
<1>7. tk[c].type = TypeAt(s[pos[c]][1])
    BY <1>1, <1>2 DEF Marks
<1>8. Dep(s, Len(s) + 1) \in Int /\ Dep(s, pos[c]) = Dep(s, Len(s) + 1) - 1
      /\ Dep(s, Len(s) + 1) >= 1
    <2>1. Dep(s, pos[c]) \in Int
        BY <1>1, <1>3
    <2>2. \A a, b : a \in Int /\ a >= 0 /\ b = a + 1 => b \in Int /\ a = b - 1 /\ b >= 1
        OBVIOUS
    <2> QED
        BY <1>2, <1>5, <2>1, <2>2, Zenon
<1> QED
    BY <1>2, <1>4, <1>6, <1>7, <1>8 DEF LastOpen

\* The bracket that closes the root.
LEMMA ClosesRoot ==
    ASSUME NEW tk, NEW u \in Nat, NEW c, NEW s, NEW l, NEW r, GoesOn(s, l, r),
           HasTree(tk, u, c, s, {}), c # Nil, tk[c].next = Nil, l[1] \in CloseKinds
    PROVE  Dep(r, Len(r) + 1) = 0
<1>1. PICK up, pos, O : Tree(tk, u, c, s, {}, up, pos, O)
    BY DEF HasTree
<1>2. /\ c \in O /\ c \in 0 .. u /\ \A t \in 1 .. u : up[t] \in 0 .. u
      /\ \A t \in O \ {0} : tk[t].next = up[t]
      /\ pos[0] = 1 /\ Dep(s, Len(s) + 1) = Dep(s, pos[c]) + 1
    BY <1>1 DEF Tree, Shape, Links, Places
<1>3. c = 0
    <2> SUFFICES ASSUME c # 0 PROVE FALSE
        OBVIOUS
    <2>1. c \in 1 .. u
        BY <1>2
    <2>2. up[c] # Nil
        BY <1>2, <2>1 DEF Nil
    <2> QED
        BY <1>2, <2>2
<1>4. Dep(s, Len(s) + 1) = 1
    BY <1>2, <1>3, FirstDep
<1>5. Rise(l[1]) = -1
    BY Kinds DEF Rise
<1>6. Len(r) + 1 = Len(s) + 2 /\ Dep(r, Len(s) + 2) = Dep(s, Len(s) + 1) + Rise(l[1])
    BY DEF GoesOn
<1> QED
    BY <1>4, <1>5, <1>6

\* The values are the tokens.
LEMMA ValuesCounted ==
    ASSUME NEW tk, NEW u \in Nat, NEW c, NEW s, HasTree(tk, u, c, s, {})
    PROVE  IsFiniteSet(Vals(s)) /\ Cardinality(Vals(s)) = u + 1
<1>1. PICK up, pos, O : Tree(tk, u, c, s, {}, up, pos, O)
    BY DEF HasTree
<1>2. /\ pos \in [0 .. u -> Nat \ {0}]
      /\ \A x, y \in 0 .. u : x < y => pos[x] < pos[y]
      /\ {pos[t] : t \in 0 .. u} = Vals(s)
    BY <1>1 DEF Tree, Places
<1>3. \A x, y \in 0 .. u : pos[x] = pos[y] => x = y
    <2> SUFFICES ASSUME NEW x \in 0 .. u, NEW y \in 0 .. u, pos[x] = pos[y] PROVE x = y
        OBVIOUS
    <2>1. pos[x] \in Nat /\ pos[y] \in Nat /\ (x < y => pos[x] < pos[y]) /\ (y < x => pos[y] < pos[x])
        BY <1>2
    <2> QED
        BY <2>1
<1>4. IsFiniteSet(0 .. u) /\ Cardinality(0 .. u) = u + 1
    <2>1. 0 \in Int /\ u \in Int /\ (IF 0 > u THEN 0 ELSE u - 0 + 1) = u + 1
        OBVIOUS
    <2> QED
        BY <2>1, FS_Interval
<1>5. IsFiniteSet({pos[t] : t \in 0 .. u}) /\ Cardinality({pos[t] : t \in 0 .. u}) = u + 1
    BY <1>3, <1>4, ImageSize
<1> QED
    BY <1>2, <1>5

\* The container around the next lexeme is the one being filled.
LEMMA Around ==
    ASSUME NEW s \in Seq(Lexemes), NEW n, n = Len(s), s = text, used \in Nat,
           NEW W, W \subseteq {n + 1}, HasTree(tok, used, to, text, W), to # Nil,
           NEW l \in Lexemes \cup Ends, text' = Append(s, l)
    PROVE  \E p \in OpenKinds : /\ Kind(ParentOf(n + 1))' = p /\ tok[to].type = TypeAt(p)
                                /\ ~(Depth(n + 1)' <= 0)
<1>1. Len(s) \in Nat /\ W \subseteq {Len(s) + 1} /\ HasTree(tok, used, to, s, W)
    BY LenProperties
<1>2. /\ n \in Nat /\ \A i \in 1 .. n : Kind(i)' = s[i][1]
      /\ \A i \in 1 .. n + 1 : Depth(i)' = Dep(s, i)
      /\ Values' = Vals(s) \/ Values' = Vals(s) \cup {n + 1}
    BY NextReading DEF Reads
<1>3. PICK j \in Vals(s) : LastOpen(tok, to, s, j)
    BY <1>1, InText
<1>4. /\ j \in 1 .. n /\ s[j][1] \in OpenKinds
      /\ Dep(s, j) = Dep(s, n + 1) - 1 /\ Dep(s, n + 1) \in Int /\ Dep(s, n + 1) >= 1
      /\ \A k \in Vals(s) : j < k => Dep(s, k) >= Dep(s, n + 1)
      /\ tok[to].type = TypeAt(s[j][1])
    BY <1>3 DEF LastOpen
<1> DEFINE IsParent(i) == /\ i < n + 1 /\ Opens(i)' /\ Depth(i)' = Depth(n + 1)' - 1
                          /\ \A k \in Values' : i < k /\ k < n + 1 => Depth(k)' >= Depth(n + 1)'
<1>5. \A k \in Values' : k < n + 1 => k \in Vals(s) /\ k \in 1 .. n /\ Depth(k)' = Dep(s, k)
    <2>1. \A k \in Vals(s) : k \in 1 .. n
        BY DEF Vals
    <2> QED
        BY <1>2, <2>1
<1>6. j \in Values' /\ IsParent(j)
    <2>1. j < n + 1 /\ Depth(j)' = Depth(n + 1)' - 1 /\ j \in Values' /\ Depth(n + 1)' = Dep(s, n + 1)
        BY <1>2, <1>4
    <2>2. Opens(j)'
        BY <1>2, <1>4 DEF Opens, OpenKinds
    <2>3. \A k \in Values' : j < k /\ k < n + 1 => Depth(k)' >= Depth(n + 1)'
        BY <1>4, <1>5, <2>1
    <2> QED
        BY <2>1, <2>2, <2>3
<1>7. ASSUME NEW i \in Values', IsParent(i) PROVE i = j
    <2>1. i \in Vals(s) /\ i \in 1 .. n /\ Depth(i)' = Dep(s, i) /\ Depth(n + 1)' = Dep(s, n + 1)
        BY <1>2, <1>5, <1>7
    <2>2. Dep(s, i) = Dep(s, n + 1) - 1
        BY <1>7, <2>1
    <2>3. ~(j < i)
        <3> SUFFICES ASSUME j < i PROVE FALSE
            OBVIOUS
        <3>1. Dep(s, i) >= Dep(s, n + 1)
            BY <1>4, <2>1
        <3> QED
            BY <1>4, <2>2, <3>1
    <2>4. ~(i < j)
        <3> SUFFICES ASSUME i < j PROVE FALSE
            OBVIOUS
        <3>1. Depth(j)' >= Depth(n + 1)' /\ Depth(j)' = Dep(s, j)
            BY <1>2, <1>4, <1>6, <1>7
        <3> QED
            BY <1>4, <2>1, <3>1
    <2> QED
        BY <1>4, <2>1, <2>3, <2>4
<1>8. ParentOf(n + 1)' = CHOOSE i \in Values' : IsParent(i)
    BY DEF ParentOf
<1> HIDE DEF IsParent
<1>9. ParentOf(n + 1)' = j
    BY <1>6, <1>7, <1>8
<1>10. Kind(ParentOf(n + 1))' = s[j][1]
    <2>1. Kind(ParentOf(n + 1))' = Kind(j)'
        BY <1>9 DEF Kind
    <2> QED
        BY <1>2, <1>4, <2>1
<1>11. ~(Depth(n + 1)' <= 0)
    <2>1. Depth(n + 1)' = Dep(s, n + 1)
        BY <1>2
    <2> QED
        BY <1>4, <2>1
<1> QED
    BY <1>4, <1>10, <1>11

\* The lexemes and the ends of a text.
LEMMA EndKinds ==
    /\ \A l \in Ends : l[1] \in {"end", "blanks"}
    /\ \A l \in Lexemes : l[1] # "end" /\ l[1] # "blanks"
<1>1. \A l \in Ends : l[1] \in {"end", "blanks"}
    BY DEF Ends
<1>2. ASSUME NEW l \in Lexemes PROVE l[1] # "end" /\ l[1] # "blanks"
    <2>1. \/ \E k \in Scalars \cup {"{", "}", "[", "]", ",", "bad"} : l = <<k, NoName>>
          \/ \E n \in Names : l = <<"key", n>>
        BY Zenon DEF Lexemes
    <2>2. \A k \in Scalars \cup {"{", "}", "[", "]", ",", "bad"} : k # "end" /\ k # "blanks"
        <3>1. \A k \in Scalars : k # "end" /\ k # "blanks"
            BY ScalarsAssumption
        <3> QED
            BY <3>1, Zenon
    <2>3. ASSUME NEW k, l = <<k, NoName>> PROVE l[1] = k
        BY <2>3
    <2>4. ASSUME NEW n \in Names, l = <<"key", n>> PROVE l[1] = "key"
        BY <2>4
    <2> QED
        BY <2>1, <2>2, <2>3, <2>4, Zenon
<1> QED
    BY <1>1, <1>2

\* What JSON allows after the kind last in a container of a type.
Allowed(type, last, k) ==
    \/ k = "key" /\ type = "object" /\ last \in OpenKinds \cup {Comma}
    \/ k \in ValueKinds /\ type = "object" /\ last = "key"
    \/ k \in ValueKinds /\ type # "object" /\ last \in OpenKinds \cup {Comma}
    \/ k = Comma /\ last \in Scalars \cup CloseKinds
    \/ k = CloserOf(type) /\ last \in ValueKinds \cup CloseKinds

\* A text that is still JSON goes on with a lexeme that the parser allows.
LEMMA FitsNext ==
    ASSUME NEW s \in Seq(Lexemes), NEW n, n = Len(s), n # 0, s = text, used \in Nat,
           NEW W, W \subseteq {n + 1}, HasTree(tok, used, to, text, W), to # Nil,
           NEW l \in Lexemes \cup Ends, text' = Append(s, l), IsJson'
    PROVE  l \notin Ends /\ Allowed(tok[to].type, s[n][1], l[1])
<1>1. /\ n \in Nat /\ Len(text') = n + 1 /\ Kind(n)' = s[n][1]
      /\ Kind(n + 1)' = IF l \in Ends THEN "end" ELSE l[1]
    <2>1. /\ n \in Nat /\ Len(text') = n + 1 /\ \A i \in 1 .. n : Kind(i)' = s[i][1]
          /\ Kind(n + 1)' = IF l \in Ends THEN "end" ELSE l[1]
        BY NextReading DEF Reads
    <2> QED
        BY <2>1
<1>2. PICK p \in OpenKinds : /\ Kind(ParentOf(n + 1))' = p /\ tok[to].type = TypeAt(p)
                             /\ ~(Depth(n + 1)' <= 0)
    BY Around
<1>3. Fits(n + 1)'
    <2>1. n + 1 \in 1 .. Len(text')
        BY <1>1
    <2> QED
        BY <2>1 DEF IsJson
<1>4. n + 1 # 1 /\ (n + 1) - 1 = n
    BY <1>1
<1>5. Kind((n + 1) - 1)' = s[n][1]
    BY <1>1, <1>4
<1>6. \/ Kind(n + 1)' = "key" /\ p = "{" /\ Begins(n + 1)'
      \/ IsValue(n + 1)' /\ p = "{" /\ s[n][1] = "key"
      \/ IsValue(n + 1)' /\ p = "[" /\ Begins(n + 1)'
      \/ Kind(n + 1)' = Comma /\ AfterMember(n + 1)'
      \/ /\ Kind(n + 1)' = IF p = "{" THEN "}" ELSE "]"
         /\ AfterMember(n + 1)' \/ Opens((n + 1) - 1)'
    BY <1>2, <1>3, <1>4, <1>5, Zenon DEF Fits, Comma
<1>7. Begins(n + 1)' => s[n][1] \in OpenKinds \cup {Comma}
    BY <1>5, Zenon DEF Begins, Opens, OpenKinds, Comma
<1>8. IsValue(n + 1)' => Kind(n + 1)' \in ValueKinds
    BY Zenon DEF IsValue, Opens, ValueKinds, OpenKinds
<1>9. AfterMember(n + 1)' => s[n][1] \in Scalars \cup CloseKinds
    BY <1>5, Zenon DEF AfterMember, CloseKinds
<1>10. Opens((n + 1) - 1)' => s[n][1] \in OpenKinds
    BY <1>5, Zenon DEF Opens, OpenKinds
<1>11. l \notin Ends
    <2> SUFFICES ASSUME l \in Ends PROVE FALSE
        OBVIOUS
    <2>1. Kind(n + 1)' = "end"
        BY <1>1
    <2>2. "end" \notin ValueKinds
        BY Kinds
    <2>3. "end" # Comma
        BY Zenon DEF Comma
    <2> QED
        BY <1>6, <1>8, <2>1, <2>2, <2>3
<1>12. /\ p = "{" => tok[to].type = "object" /\ CloserOf(tok[to].type) = "}"
       /\ p = "[" => tok[to].type # "object" /\ CloserOf(tok[to].type) = "]"
       /\ p = "{" \/ p = "["
    BY <1>2 DEF TypeAt, CloserOf, OpenKinds
<1> QED
    BY <1>1, <1>6, <1>7, <1>8, <1>9, <1>11, <1>12, <1>10 DEF Allowed, ValueKinds

\* What JsonAccepted says of the result of a parse.
Judged(r) == IsJson => r = IF Members <= TokLen THEN "ok" ELSE "mem"

\* A lexeme that JSON does not allow.
LEMMA Refused ==
    ASSUME text \in Seq(Lexemes), text # <<>>, used \in Nat, NEW W, W \subseteq {Len(text) + 1},
           HasTree(tok, used, to, text, W), to # Nil,
           NEW l \in Lexemes \cup Ends, text' = Append(text, l), NEW r,
           l \notin Ends => ~Allowed(tok[to].type, text[Len(text)][1], l[1])
    PROVE  Judged(r)'
<1> SUFFICES ASSUME IsJson' PROVE FALSE
    BY DEF Judged
<1>1. PICK s \in Seq(Lexemes) : s = text
    OBVIOUS
<1>2. PICK n \in Nat : n = Len(s)
    BY LenProperties
<1>3. n # 0
    BY <1>1, <1>2, EmptySeq
<1>4. W \subseteq {n + 1} /\ text' = Append(s, l)
    BY <1>1, <1>2
<1>5. l \notin Ends /\ Allowed(tok[to].type, s[n][1], l[1])
    BY <1>1, <1>2, <1>3, <1>4, FitsNext
<1> QED
    BY <1>1, <1>2, <1>5

\* The places of a text with one lexeme.
LEMMA One == 0 + 1 = 1 /\ 1 \in 1 .. 0 + 1
OBVIOUS

\* A text that does not begin with a bracket.
LEMMA RefusedFirst ==
    ASSUME text = <<>>, NEW l \in Lexemes \cup Ends, text' = Append(text, l), l[1] \notin {"{", "["},
           NEW r
    PROVE  Judged(r)'
<1> SUFFICES ASSUME IsJson' PROVE FALSE
    BY DEF Judged
<1>1. PICK s \in Seq(Lexemes) : s = <<>>
    BY EmptySeq
<1>2. PICK n \in Nat : n = Len(s)
    BY LenProperties
<1>3. n = 0
    BY <1>1, <1>2, EmptySeq
<1>4. text' = Append(s, l)
    BY <1>1
<1>5. Len(text') = n + 1 /\ Kind(n + 1)' = IF l \in Ends THEN "end" ELSE l[1]
    BY <1>2, <1>4, NextReading DEF Reads
<1>6. Opens(1)'
    <2>1. 1 \in 1 .. Len(text')
        BY <1>3, <1>5, One, Zenon
    <2>2. Fits(1)'
        BY <2>1 DEF IsJson
    <2> QED
        BY <2>2, Zenon DEF Fits
<1>7. n + 1 = 1
    BY <1>3, One, Zenon
<1>8. Kind(1)' = IF l \in Ends THEN "end" ELSE l[1]
    BY <1>5, <1>7
<1> QED
    BY <1>6, <1>8 DEF Opens

\* A lexeme after the root.
LEMMA RefusedLast ==
    ASSUME text \in Seq(Lexemes), text # <<>>, Dep(text, Len(text) + 1) = 0,
           NEW l \in Lexemes, text' = Append(text, l), NEW r
    PROVE  Judged(r)'
<1> SUFFICES ASSUME IsJson' PROVE FALSE
    BY DEF Judged
<1>1. PICK s \in Seq(Lexemes) : s = text
    OBVIOUS
<1>2. PICK n \in Nat : n = Len(s)
    BY LenProperties
<1>3. n # 0
    BY <1>1, <1>2, EmptySeq
<1>4. l \notin Ends /\ l[1] # "end"
    BY EndKinds
<1>5. Len(text') = n + 1 /\ Kind(n + 1)' = l[1] /\ Depth(n + 1)' = 0
    <2>1. /\ Len(text') = n + 1 /\ \A i \in 1 .. n + 1 : Depth(i)' = Dep(s, i)
          /\ Kind(n + 1)' = l[1]
        BY <1>1, <1>2, <1>4, NextReading DEF Reads
    <2> QED
        BY <1>1, <1>2, <2>1
<1>6. Fits(n + 1)'
    <2>1. n + 1 \in 1 .. Len(text')
        BY <1>5
    <2> QED
        BY <2>1 DEF IsJson
<1>7. n + 1 # 1 /\ Depth(n + 1)' <= 0
    BY <1>3, <1>5
<1>8. Kind(n + 1)' = "end"
    BY <1>6, <1>7, Zenon DEF Fits
<1> QED
    BY <1>4, <1>5, <1>8

\* The tokens are used up.
LEMMA RefusedFull ==
    ASSUME text \in Seq(Lexemes), used = TokLen, NEW c, HasTree(tok, used, c, text, {}),
           NEW l \in Lexemes, text' = Append(text, l), l[1] = "key" \/ l[1] \in ValueKinds
    PROVE  Judged("mem")'
<1>1. PICK s \in Seq(Lexemes) : s = text
    OBVIOUS
<1>2. PICK n \in Nat : n = Len(s)
    BY LenProperties
<1>3. l \notin Ends
    BY EndKinds, Zenon DEF Ends
<1>4. TokLen \in Nat /\ IsFiniteSet(Vals(s)) /\ Cardinality(Vals(s)) = TokLen + 1
    BY <1>1, BoundsAssumption, ValuesCounted
<1>5. /\ Len(Body') = n + 1 /\ Kind(n + 1)' = l[1]
      /\ Values' = IF l[1] \in ValueKinds THEN Vals(s) \cup {n + 1} ELSE Vals(s)
    BY <1>1, <1>2, <1>3, NextReading DEF Reads
<1>6. CASE l[1] = "key"
    <2>1. Values' = Vals(s)
        BY <1>5, <1>6, Kinds
    <2>2. Kind(Len(Body))' = "key"
        BY <1>5, <1>6 DEF Kind
    <2>3. Members' = TokLen + 1 - 1 + 1
        BY <1>4, <2>1, <2>2 DEF Members
    <2> QED
        BY <1>4, <2>3 DEF Judged
<1>7. CASE l[1] \in ValueKinds
    <2>1. n + 1 \notin Vals(s)
        BY <1>2 DEF Vals
    <2>2. Cardinality(Values') = TokLen + 2
        <3>1. Cardinality(Vals(s) \cup {n + 1}) = Cardinality(Vals(s)) + 1
            BY <1>4, <2>1, FS_AddElement
        <3>2. Cardinality(Values') = TokLen + 1 + 1
            BY <1>4, <1>5, <1>7, <3>1
        <3> QED
            BY <1>4, <3>2
    <2>3. Members' >= TokLen + 1
        BY <1>4, <2>2 DEF Members
    <2>4. Members' \in Int
        BY <1>4, <2>2 DEF Members
    <2> QED
        BY <1>4, <2>3, <2>4 DEF Judged
<1> QED
    BY <1>6, <1>7

\* The text ends after its root.
LEMMA AcceptedWhole ==
    ASSUME text \in Seq(Lexemes), text # <<>>, text[Len(text)][1] # "key", used \in 0 .. TokLen,
           NEW c, HasTree(tok, used, c, text, {}), NEW l \in Ends, text' = Append(text, l)
    PROVE  Judged("ok")'
<1>1. PICK s \in Seq(Lexemes) : s = text
    OBVIOUS
<1>2. PICK n \in Nat : n = Len(s)
    BY LenProperties
<1>3. n # 0
    BY <1>1, <1>2, EmptySeq
<1>4. TokLen \in Nat /\ used \in Nat /\ used <= TokLen /\ Cardinality(Vals(s)) = used + 1
    BY <1>1, BoundsAssumption, ValuesCounted
<1>5. Len(Body') = n /\ Kind(n)' = s[n][1] /\ Values' = Vals(s)
    <2>1. /\ Len(Body') = n /\ \A i \in 1 .. n : Kind(i)' = s[i][1]
          /\ Values' = Vals(s)
        BY <1>1, <1>2, NextReading DEF Reads
    <2> QED
        BY <1>3, <2>1
<1>6. Kind(Len(Body))' # "key"
    <2>1. Kind(Len(Body))' = Kind(n)'
        BY <1>5 DEF Kind
    <2> QED
        BY <1>1, <1>2, <1>5, <2>1
<1>7. Members' = used + 1 - 1 + 0
    BY <1>4, <1>5, <1>6 DEF Members
<1> QED
    BY <1>4, <1>7 DEF Judged

-----------------------------------------------------------------------------
(* Every step keeps the invariant.                                         *)

\* The parser goes on with the text.
LEMMA GoesOnReading ==
    ASSUME IInv, pc # "idle", Building', UNCHANGED <<res, parsed, parses>>,
           tok' \in [Tokens -> TokenRecs], used' \in 0 .. TokLen, to' \in Tokens \cup {Nil},
           new' \in Tokens, text' \in Seq(Lexemes), text' # <<>>,
           text'[Len(text')][1] = "key" <=> pc' = "value",
           pc' = "opened" => text'[Len(text')][1] \in OpenKinds,
           pc' = "value" => new' = used' /\ used' > 0,
           pc' = "after" => text'[Len(text')][1] \in Scalars,
           pc' = "trail" => Dep(text', Len(text') + 1) = 0,
           pc' = "trail" <=> to' = Nil,
           HasTree(tok', used', to', text', Waiting')
    PROVE  IInv'
<1>1. ~parsed'
    BY DEF IInv, RestInv, Accepted
<1>2. text' \in Seq(Lexemes \cup Ends)
    BY SeqMonotonic
<1>3. TypeOK'
    BY <1>2 DEF TypeOK, IInv, Building, TokenRecs
<1>4. BuildInv'
    BY DEF BuildInv
<1>5. StartInv' /\ RestInv' /\ JsonAccepted'
    BY <1>1 DEF StartInv, RestInv, Accepted, Building, JsonAccepted
<1> QED
    BY <1>3, <1>4, <1>5 DEF IInv

\* The parser returns.
LEMMA Returns ==
    ASSUME IInv, NEW r \in {"ok", "json", "mem", "err"}, Finish(r), parses' = parses,
           text' \in Seq(Lexemes \cup Ends), Judged(r)',
           r = "ok" => /\ to \in {Root, Nil}
                       /\ \E s \in Seq(Lexemes), l \in Ends :
                             text' = Append(s, l) /\ HasTree(tok, used, to, s, {})
    PROVE  IInv'
<1>1. TypeOK'
    BY DEF TypeOK, IInv, Finish
<1>2. BuildInv' /\ StartInv'
    BY DEF BuildInv, StartInv, Building, Finish
<1>3. RestInv'
    BY DEF RestInv, Accepted, Finish
<1>4. JsonAccepted'
    BY DEF JsonAccepted, Judged, Finish
<1> QED
    BY <1>1, <1>2, <1>3, <1>4 DEF IInv

\* What holds when the next lexeme is read in the loop.
LEMMA InLoop ==
    ASSUME IInv, pc \in {"opened", "loop", "after"}, NEW l \in Lexemes, text' = Append(text, l)
    PROVE  /\ tok \in [Tokens -> TokenRecs] /\ used \in 0 .. TokLen /\ to \in Tokens /\ to # Nil
           /\ new \in Tokens /\ Len(text) \in Nat /\ HasTree(tok, used, to, text, {})
           /\ NameAt(text, Len(text) + 1) = NoName
           /\ text' \in Seq(Lexemes) /\ text' # <<>> /\ text' \in Seq(Lexemes \cup Ends)
           /\ GoesOn(text, l, text') /\ text'[Len(text')] = l
<1>1. /\ text \in Seq(Lexemes) /\ text[Len(text)][1] # "key" /\ to # Nil
      /\ HasTree(tok, used, to, text, {})
    BY DEF IInv, BuildInv, Building, Waiting
<1>2. text' \in Seq(Lexemes) /\ GoesOn(text, l, text')
    BY <1>1, Longer
<1>3. Len(text) \in Nat /\ Len(text') = Len(text) + 1 /\ text'[Len(text')] = l
    BY <1>2 DEF GoesOn
<1>4. text' # <<>>
    BY <1>3, EmptySeq
<1>5. NameAt(text, Len(text) + 1) = NoName
    BY <1>1, <1>3 DEF NameAt
<1>6. text' \in Seq(Lexemes \cup Ends)
    BY <1>2, SeqMonotonic
<1> QED
    BY <1>1, <1>2, <1>3, <1>4, <1>5, <1>6 DEF IInv, TypeOK, TokenRecs

\* In the loop the lexeme before is not a key.
LEMMA LoopRefused ==
    ASSUME IInv, pc \in {"opened", "loop", "after"}, NEW l \in Lexemes \cup Ends,
           text' = Append(text, l), NEW r,
           \/ l \in Ends
           \/ /\ l[1] # Comma /\ l[1] # CloserOf(tok[to].type)
              /\ tok[to].type = "object" => l[1] # "key"
              /\ tok[to].type # "object" => l[1] \notin ValueKinds
           \/ pc = "opened" /\ ~MayFollowBracket(l[1])
           \/ pc = "after" /\ l[1] # Comma /\ l[1] \notin CloseKinds
    PROVE  Judged(r)'
<1>1. /\ text \in Seq(Lexemes) /\ text # <<>> /\ to # Nil /\ used \in Nat
      /\ HasTree(tok, used, to, text, {})
    BY DEF IInv, TypeOK, BuildInv, Building, Waiting
<1> DEFINE type == tok[to].type
           last == text[Len(text)][1]
<1>2. /\ last # "key" /\ (pc = "opened" => last \in OpenKinds)
      /\ pc = "after" => last \in Scalars
    BY DEF IInv, BuildInv, Building
<1> HIDE DEF type, last
<1>3. CloserOf(type) \in CloseKinds /\ (type = "object" => CloserOf(type) = "}")
      /\ (type # "object" => CloserOf(type) = "]")
    BY DEF CloserOf, CloseKinds
<1>4. ASSUME l[1] # Comma, l[1] # CloserOf(type), type = "object" => l[1] # "key",
             type # "object" => l[1] \notin ValueKinds
      PROVE  ~Allowed(type, last, l[1])
    BY <1>2, <1>4, Zenon DEF Allowed
<1>5. ASSUME pc = "opened", ~MayFollowBracket(l[1]) PROVE ~Allowed(type, last, l[1])
    <2>1. last \in OpenKinds /\ last \notin Scalars /\ last \notin CloseKinds
        BY <1>2, <1>5, Kinds, Zenon
    <2>2. CASE type = "object"
        <3>1. l[1] # "key" /\ l[1] # CloserOf(type)
            BY <1>3, <1>5, <2>2, Zenon DEF MayFollowBracket, type
        <3> QED
            BY <1>2, <2>1, <2>2, <3>1, Zenon DEF Allowed
    <2>3. CASE type # "object"
        <3>1. l[1] \notin ValueKinds /\ l[1] # CloserOf(type)
            BY <1>3, <1>5, <2>3, Zenon DEF MayFollowBracket, type, ValueKinds, OpenKinds
        <3> QED
            BY <1>2, <2>1, <2>3, <3>1, Zenon DEF Allowed
    <2> QED
        BY <2>2, <2>3
<1>6. ASSUME pc = "after", l[1] # Comma, l[1] \notin CloseKinds PROVE ~Allowed(type, last, l[1])
    <2>1. last \in Scalars /\ last \notin OpenKinds
        BY <1>2, <1>6, Kinds, Zenon
    <2>2. last # Comma
        BY <2>1, Kinds, Zenon DEF Comma
    <2> QED
        BY <1>2, <1>3, <1>6, <2>1, <2>2, Zenon DEF Allowed
<1>7. l \notin Ends => ~Allowed(type, last, l[1])
    BY <1>4, <1>5, <1>6, Zenon DEF type
<1>8. {} \subseteq {Len(text) + 1}
    OBVIOUS
<1> QED
    BY <1>1, <1>7, <1>8, Refused, Zenon DEF type, last

\* A step of the parser that takes a member keeps the invariant.
LEMMA MemberStep ==
    ASSUME IInv, pc \in {"opened", "loop", "after"}, NEW l \in Lexemes, text' = Append(text, l),
           parses' = parses, l[1] # Comma, l[1] # CloserOf(tok[to].type), Member(l[1], l[2])
    PROVE  IInv'
<1>1. /\ tok \in [Tokens -> TokenRecs] /\ used \in 0 .. TokLen /\ to \in Tokens /\ to # Nil
      /\ new \in Tokens /\ Len(text) \in Nat /\ HasTree(tok, used, to, text, {})
      /\ NameAt(text, Len(text) + 1) = NoName
      /\ text' \in Seq(Lexemes) /\ text' # <<>> /\ text' \in Seq(Lexemes \cup Ends)
      /\ GoesOn(text, l, text') /\ text'[Len(text')] = l
    BY InLoop
<1>2. TokLen \in Nat /\ used \in Nat /\ pc # "idle"
    BY <1>1, BoundsAssumption
<1>3. CASE \/ Full /\ Finish("mem")
           \/ tok[to].type = "object" /\ l[1] # "key" /\ Finish("json")
           \/ tok[to].type # "object" /\ l[1] \notin Scalars \cup {"{", "["} /\ Finish("json")
    <2>1. CASE Full /\ Finish("mem") /\ (l[1] = "key" \/ l[1] \in ValueKinds)
        <3>1. text \in Seq(Lexemes)
            BY DEF IInv, BuildInv, Building
        <3>2. used = TokLen
            BY <1>1, <1>2, <2>1 DEF Full
        <3>3. Judged("mem")'
            BY <1>1, <2>1, <3>1, <3>2, RefusedFull
        <3> QED
            BY <1>1, <2>1, <3>3, Returns
    <2>2. CASE ~(l[1] = "key" \/ l[1] \in ValueKinds) /\ (Finish("mem") \/ Finish("json"))
        <3>1. \A r : Judged(r)'
            BY <2>2, LoopRefused
        <3> QED
            BY <1>1, <2>2, <3>1, Returns
    <2>3. CASE tok[to].type = "object" /\ l[1] # "key" /\ Finish("json")
        <3>1. Judged("json")'
            BY <2>3, LoopRefused
        <3> QED
            BY <1>1, <2>3, <3>1, Returns
    <2>4. CASE tok[to].type # "object" /\ l[1] \notin Scalars \cup {"{", "["} /\ Finish("json")
        <3>1. l[1] \notin ValueKinds
            BY <2>4 DEF ValueKinds, OpenKinds
        <3>2. Judged("json")'
            BY <2>4, <3>1, LoopRefused
        <3> QED
            BY <1>1, <2>4, <3>2, Returns
    <2> QED
        BY <1>3, <2>1, <2>2, <2>3, <2>4
<1>4. CASE /\ ~Full /\ l[1] = "key" /\ tok' = Linked([Zero EXCEPT !.name = l[2]])
           /\ used' = Fresh /\ new' = Fresh /\ UNCHANGED to /\ Goon("value")
    <2> DEFINE v == [Zero EXCEPT !.name = l[2]]
    <2>1. v \in TokenRecs /\ v.name = l[2] /\ v.child = Nil /\ v.next = Nil
        <3>1. l[2] \in Names \cup {NoName}
            <4>1. \/ \E k \in Scalars \cup {"{", "}", "[", "]", ",", "bad"} : l = <<k, NoName>>
                  \/ \E n \in Names : l = <<"key", n>>
                BY DEF Lexemes
            <4>2. ASSUME NEW k, l = <<k, NoName>> PROVE l[2] = NoName
                BY <4>2
            <4>3. ASSUME NEW n \in Names, l = <<"key", n>> PROVE l[2] \in Names
                BY <4>3
            <4> QED
                BY <4>1, <4>2, <4>3
        <3> QED
            BY <3>1 DEF TokenRecs, Zero
    <2> HIDE DEF v
    <2>2. HasTree(tok, used, to, text', {})
        <3>1. l[1] \notin ValueKinds \cup CloseKinds
            BY <1>4, Kinds
        <3> QED
            BY <1>1, <1>2, <3>1, TreeNothing
    <2>3. Len(text') \in Nat /\ NameAt(text', Len(text') + 1) = l[2]
        <3>1. Len(text') = Len(text) + 1
            BY <1>1 DEF GoesOn
        <3>2. Len(text') \in Nat /\ (Len(text') + 1) - 1 = Len(text')
            BY <1>1, <3>1
        <3> QED
            BY <1>1, <1>4, <3>2 DEF NameAt
    <2>4. HasTree(Linked(v), used + 1, to, text', {Len(text') + 1})
        BY <1>1, <1>4, <2>1, <2>2, <2>3, TreeNew
    <2>5. Fresh = used + 1 /\ Fresh \in Tokens /\ Fresh \in 0 .. TokLen /\ Fresh > 0
        BY <1>1, <1>2, <1>4 DEF Fresh, Full, Tokens, Root
    <2>6. Linked(v) \in [Tokens -> TokenRecs]
        <3>1. PICK up, pos, O : Tree(tok, used, to, text, {}, up, pos, O)
            BY <1>1 DEF HasTree
        <3>2. tok[to].child # Junk
            BY <1>1, <1>2, Filled
        <3> QED
            BY <1>1, <1>4, <2>1, <3>1, <3>2, LinkedTokens DEF Tree
    <2>7. Waiting' = {Len(text') + 1} /\ Building' /\ pc' = "value"
        BY <1>4 DEF Waiting, Building, Goon
    <2>8. HasTree(tok', used', to', text', Waiting')
        BY <1>4, <2>4, <2>5, <2>7 DEF v
    <2>9. tok' \in [Tokens -> TokenRecs] /\ used' \in 0 .. TokLen /\ to' \in Tokens /\ to' # Nil
          /\ new' \in Tokens /\ new' = used' /\ used' > 0
        BY <1>1, <1>4, <2>5, <2>6 DEF v
    <2>10. UNCHANGED <<res, parsed, parses>>
        BY <1>4 DEF Goon
    <2> QED
        BY <1>1, <1>2, <1>4, <2>7, <2>8, <2>9, <2>10, GoesOnReading
<1>5. CASE /\ ~Full /\ Value(Linked(Zero), Fresh, l[1]) /\ used' = Fresh /\ UNCHANGED new
    <2>1. Zero \in TokenRecs /\ Zero.name = NoName /\ Zero.child = Nil /\ Zero.next = Nil
        BY DEF TokenRecs, Zero
    <2>2. HasTree(Linked(Zero), used + 1, to, text, {Len(text) + 1})
        BY <1>1, <1>5, <2>1, TreeNew
    <2>3. Fresh = used + 1 /\ Fresh \in Tokens /\ Fresh \in 0 .. TokLen /\ Fresh \in 1 .. TokLen
        BY <1>1, <1>2, <1>5 DEF Fresh, Full, Tokens, Root
    <2>4. Linked(Zero) \in [Tokens -> TokenRecs]
        <3>1. PICK up, pos, O : Tree(tok, used, to, text, {}, up, pos, O)
            BY <1>1 DEF HasTree
        <3>2. tok[to].child # Junk
            BY <1>1, <1>2, Filled
        <3> QED
            BY <1>1, <1>5, <2>1, <3>1, <3>2, LinkedTokens DEF Tree
    <2>5. /\ tok' \in [Tokens -> TokenRecs] /\ to' \in Tokens
          /\ HasTree(tok', Fresh, to', text', {})
          /\ pc' \in {"opened", "after"} /\ res' = res /\ parsed' = parsed /\ l[1] # "key"
          /\ pc' = "opened" => l[1] \in OpenKinds
          /\ pc' = "after" => l[1] \in Scalars
        BY <1>1, <1>5, <2>2, <2>3, <2>4, ValueStep
    <2>6. Waiting' = {} /\ Building' /\ pc' # "value" /\ pc' # "trail"
        BY <2>5 DEF Waiting, Building
    <2>7. to' # Nil
        BY <1>2, <2>5 DEF Tokens, Root, Nil
    <2>8. HasTree(tok', used', to', text', Waiting')
        BY <1>5, <2>5, <2>6
    <2> QED
        BY <1>1, <1>2, <1>5, <2>3, <2>5, <2>6, <2>7, <2>8, GoesOnReading
<1> QED
    BY <1>3, <1>4, <1>5 DEF Member

\* A step of the parser that closes a container keeps the invariant.
LEMMA CloserStep ==
    ASSUME IInv, pc \in {"opened", "loop", "after"}, NEW l \in Lexemes, text' = Append(text, l),
           parses' = parses, l[1] = CloserOf(tok[to].type), Closer
    PROVE  IInv'
<1>1. /\ tok \in [Tokens -> TokenRecs] /\ used \in 0 .. TokLen /\ to \in Tokens /\ to # Nil
      /\ new \in Tokens /\ Len(text) \in Nat /\ HasTree(tok, used, to, text, {})
      /\ text' \in Seq(Lexemes) /\ text' # <<>>
      /\ GoesOn(text, l, text') /\ text'[Len(text')] = l
    BY InLoop
<1>2. TokLen \in Nat /\ used \in Nat /\ pc # "idle" /\ Tokens = 0 .. TokLen
    BY <1>1, BoundsAssumption DEF Tokens, Root
<1>3. l[1] \in CloseKinds /\ l[1] # "key"
    BY DEF CloserOf, CloseKinds
<1>4. /\ tok' = [tok EXCEPT ![to].next = Nil] /\ to' = tok[to].next
      /\ UNCHANGED <<used, new, res, parsed, parses>>
      /\ pc' = IF tok[to].next = Nil THEN "trail" ELSE "loop"
    BY DEF Closer, Goon
<1>5. tok[to] \in TokenRecs /\ to' \in Tokens \cup {Nil}
    BY <1>1, <1>4 DEF TokenRecs
<1>6. tok' \in [Tokens -> TokenRecs]
    BY <1>1, <1>4, <1>5 DEF TokenRecs
<1>7. \A t \in 0 .. used : /\ tok'[t].name = tok[t].name /\ tok'[t].type = tok[t].type
                           /\ tok'[t].child = tok[t].child
                           /\ tok'[t].next = IF t = to THEN Nil ELSE tok[t].next
    <2> SUFFICES ASSUME NEW t \in 0 .. used
                 PROVE  /\ tok'[t].name = tok[t].name /\ tok'[t].type = tok[t].type
                        /\ tok'[t].child = tok[t].child
                        /\ tok'[t].next = IF t = to THEN Nil ELSE tok[t].next
        OBVIOUS
    <2>1. t \in Tokens
        BY <1>1, <1>2
    <2>2. CASE t = to
        <3>1. tok'[t] = [tok[t] EXCEPT !.next = Nil]
            BY <1>1, <1>4, <2>2
        <3> QED
            BY <1>5, <2>2, <3>1 DEF TokenRecs
    <2>3. CASE t # to
        BY <1>1, <1>4, <2>1, <2>3
    <2> QED
        BY <2>2, <2>3
<1>8. HasTree(tok', used, to', text', {})
    BY <1>1, <1>2, <1>3, <1>4, <1>7, TreeClose, ZenonT(40)
<1>9. Waiting' = {} /\ Building' /\ pc' # "value"
    BY <1>4 DEF Waiting, Building
<1>10. HasTree(tok', used', to', text', Waiting')
    BY <1>4, <1>8, <1>9
<1>11. pc' = "trail" => Dep(text', Len(text') + 1) = 0
    BY <1>1, <1>2, <1>3, <1>4, ClosesRoot
<1>12. pc' # "opened" /\ pc' # "after" /\ (pc' = "trail" <=> to' = Nil)
    BY <1>4
<1> QED
    BY <1>1, <1>2, <1>3, <1>4, <1>5, <1>6, <1>9, <1>10, <1>11, <1>12, GoesOnReading

\* A step of the parser that reads a comma keeps the invariant.
LEMMA CommaStep ==
    ASSUME IInv, pc \in {"opened", "loop", "after"}, NEW l \in Lexemes, text' = Append(text, l),
           parses' = parses, l[1] \notin ValueKinds \cup CloseKinds, l[1] # "key",
           Goon("loop"), UNCHANGED <<tok, used, to, new>>
    PROVE  IInv'
<1>1. /\ tok \in [Tokens -> TokenRecs] /\ used \in 0 .. TokLen /\ to \in Tokens /\ to # Nil
      /\ new \in Tokens /\ HasTree(tok, used, to, text, {})
      /\ text' \in Seq(Lexemes) /\ text' # <<>>
      /\ GoesOn(text, l, text') /\ text'[Len(text')] = l
    BY InLoop
<1>2. TokLen \in Nat /\ used \in Nat /\ pc # "idle"
    BY <1>1, BoundsAssumption
<1>3. HasTree(tok, used, to, text', {})
    BY <1>1, <1>2, TreeNothing
<1>4. Waiting' = {} /\ Building' /\ pc' = "loop"
    BY DEF Waiting, Building, Goon
<1>5. HasTree(tok', used', to', text', Waiting')
    BY <1>3, <1>4
<1> QED
    BY <1>1, <1>2, <1>4, <1>5, GoesOnReading DEF Goon

-----------------------------------------------------------------------------
(* The tree of a text that was accepted.                                   *)

\* The tokens and what the text says of itself: token t stands for the value
\* at pos[t] and is a member of token up[t], and subtrees do not overlap.
TextTree(up, pos) ==
    /\ up \in [1 .. used -> 0 .. used] /\ pos \in [0 .. used -> Nat]
    /\ \A t \in 1 .. used : up[t] < t
    /\ \A t, x \in 1 .. used : up[t] < x /\ x < t => up[t] <= up[x]
    /\ Values = {pos[t] : t \in 0 .. used} /\ pos[0] = 1
    /\ \A x, y \in 0 .. used : /\ pos[x] < pos[y] <=> x < y
                               /\ pos[x] = pos[y] => x = y
    /\ \A t \in 0 .. used : TokenOf(pos[t]) = t
    /\ DOMAIN Parents = {pos[t] : t \in 1 .. used}
    /\ \A t \in 1 .. used : Parents[pos[t]] = pos[up[t]]
    /\ \A t \in 0 .. used :
          /\ tok[t].type = TypeOf(pos[t])
          /\ t # 0 => tok[t].name = NameOf(pos[t])
          /\ Opens(pos[t]) => ChainOf(Kids(t), MembersIn(up, used, t))
    /\ \A t \in 1 .. used : Opens(pos[up[t]])

\* After a parse that succeeds the tree is that of the text.
LEMMA TextRead ==
    ASSUME tok \in [Tokens -> TokenRecs], used \in 0 .. TokLen, to \in {Root, Nil},
           NEW s \in Seq(Lexemes), NEW l \in Ends, text = Append(s, l),
           HasTree(tok, used, to, s, {})
    PROVE  \E up, pos : TextTree(up, pos)
<1> DEFINE n == Len(s)
<1>1. PICK up, pos, O : Tree(tok, used, to, s, {}, up, pos, O)
    BY DEF HasTree
<1>2. TokLen \in Nat /\ used \in Nat /\ n \in Nat
    BY BoundsAssumption, LenProperties
<1>3. /\ \A t \in 0 .. used : pos[t] \in 1 .. n
      /\ \A t \in 1 .. used : pos[t] >= 2
    BY <1>1, <1>2, Where DEF Tree
<1>4. /\ pos[0] = 1
      /\ \A x, y \in 0 .. used : x < y => pos[x] < pos[y]
      /\ {pos[t] : t \in 0 .. used} = Vals(s)
      /\ \A t \in 1 .. used : /\ up[t] \in 0 .. used /\ up[t] < t
                             /\ s[pos[up[t]]][1] \in OpenKinds
                             /\ Dep(s, pos[up[t]]) = Dep(s, pos[t]) - 1
                             /\ \A x \in 0 .. used : up[t] < x /\ x < t =>
                                                       Dep(s, pos[x]) >= Dep(s, pos[t])
    BY <1>1 DEF Tree, Places, Shape
<1>5. \A x, y \in 0 .. used : /\ pos[x] < pos[y] <=> x < y
                              /\ pos[x] = pos[y] => x = y
    <2> SUFFICES ASSUME NEW x \in 0 .. used, NEW y \in 0 .. used
                 PROVE  (pos[x] < pos[y] <=> x < y) /\ (pos[x] = pos[y] => x = y)
        OBVIOUS
    <2>1. pos[x] \in Nat /\ pos[y] \in Nat /\ x \in Nat /\ y \in Nat
        BY <1>2, <1>3
    <2>2. (x < y => pos[x] < pos[y]) /\ (y < x => pos[y] < pos[x])
        BY <1>4
    <2> QED
        BY <2>1, <2>2
<1>6. \A t \in 0 .. used : Dep(s, pos[t]) \in Int
    <2>1. \A t \in 0 .. used : pos[t] \in Nat \ {0}
        BY <1>2, <1>3
    <2> QED
        BY <2>1, NextDep
<1>7. Len(Body) = n /\ \A i \in 1 .. n : Body[i] = s[i] /\ Kind(i) = s[i][1]
    BY Reading DEF Reads
<1>8. Values = Vals(s) /\ \A i \in 1 .. n : Depth(i) = Dep(s, i)
    <2>1. Values = Vals(s) /\ \A i \in 1 .. n + 1 : Depth(i) = Dep(s, i)
        BY Reading DEF Reads
    <2> QED
        BY <1>2, <2>1
<1> HIDE DEF n
<1>9. \A i \in 1 .. n : Opens(i) <=> s[i][1] \in OpenKinds
    BY <1>7 DEF Opens, OpenKinds
\* The token of a value is counted out by the values before it.
<1>10. \A t \in 0 .. used : TokenOf(pos[t]) = t
    <2> SUFFICES ASSUME NEW t \in 0 .. used PROVE TokenOf(pos[t]) = t
        OBVIOUS
    <2>1. {j \in Vals(s) : j < pos[t]} = {pos[x] : x \in 0 .. t - 1}
        <3>1. ASSUME NEW j \in Vals(s), j < pos[t] PROVE j \in {pos[x] : x \in 0 .. t - 1}
            <4>1. PICK x \in 0 .. used : j = pos[x]
                BY <1>4
            <4>2. x < t
                BY <1>5, <3>1, <4>1
            <4>3. x \in 0 .. t - 1
                BY <1>2, <4>2
            <4> QED
                BY <4>1, <4>3
        <3>2. ASSUME NEW x \in 0 .. t - 1 PROVE pos[x] \in Vals(s) /\ pos[x] < pos[t]
            <4>1. x \in 0 .. used /\ x < t
                BY <1>2
            <4> QED
                BY <1>4, <4>1
        <3> QED
            BY <3>1, <3>2
    <2>2. IsFiniteSet(0 .. t - 1) /\ Cardinality(0 .. t - 1) = t
        <3>1. t \in Nat /\ 0 \in Int /\ t - 1 \in Int /\ (IF 0 > t - 1 THEN 0 ELSE t - 1 - 0 + 1) = t
            BY <1>2
        <3> QED
            BY <3>1, FS_Interval
    <2>3. \A x, y \in 0 .. t - 1 : pos[x] = pos[y] => x = y
        <3>1. \A x \in 0 .. t - 1 : x \in 0 .. used
            BY <1>2
        <3> QED
            BY <1>5, <3>1
    <2>4. Cardinality({pos[x] : x \in 0 .. t - 1}) = t
        <3> DEFINE D == 0 .. t - 1
        <3> HIDE DEF D
        <3>1. IsFiniteSet(D) /\ \A x, y \in D : pos[x] = pos[y] => x = y
            BY <2>2, <2>3 DEF D
        <3>2. Cardinality({pos[x] : x \in D}) = Cardinality(D)
            BY <3>1, ImageSize
        <3> QED
            BY <2>2, <3>2 DEF D
    <2> QED
        BY <1>8, <2>1, <2>4 DEF TokenOf
\* The depth tells the parent.
<1>11. \A t \in 1 .. used : ParentOf(pos[t]) = pos[up[t]]
    <2> SUFFICES ASSUME NEW t \in 1 .. used PROVE ParentOf(pos[t]) = pos[up[t]]
        OBVIOUS
    <2> DEFINE IsParent(j) == /\ j < pos[t] /\ Opens(j) /\ Depth(j) = Depth(pos[t]) - 1
                              /\ \A k \in Vals(s) : j < k /\ k < pos[t] => Depth(k) >= Depth(pos[t])
               p == pos[up[t]]
    <2>1. /\ t \in 0 .. used /\ up[t] \in 0 .. used /\ up[t] < t
          /\ s[p][1] \in OpenKinds /\ Dep(s, p) = Dep(s, pos[t]) - 1
          /\ \A x \in 0 .. used : up[t] < x /\ x < t => Dep(s, pos[x]) >= Dep(s, pos[t])
        BY <1>4
    <2>2. \A x \in 0 .. used : pos[x] \in Vals(s) /\ pos[x] \in 1 .. n
                               /\ Depth(pos[x]) = Dep(s, pos[x])
        BY <1>3, <1>4, <1>8
    <2>3. p \in Vals(s) /\ IsParent(p)
        <3>1. p < pos[t] /\ Opens(p) /\ Depth(p) = Depth(pos[t]) - 1
            BY <1>5, <1>9, <2>1, <2>2
        <3>2. ASSUME NEW k \in Vals(s), p < k, k < pos[t] PROVE Depth(k) >= Depth(pos[t])
            <4>1. PICK x \in 0 .. used : k = pos[x]
                BY <1>4
            <4>2. up[t] < x /\ x < t
                BY <1>5, <2>1, <3>2, <4>1
            <4> QED
                BY <2>1, <2>2, <4>1, <4>2
        <3> QED
            BY <2>1, <2>2, <3>1, <3>2
    <2>4. ASSUME NEW j \in Vals(s), IsParent(j) PROVE j = p
        <3>1. PICK x \in 0 .. used : j = pos[x]
            BY <1>4
        <3>2. x < t /\ Dep(s, pos[x]) = Dep(s, pos[t]) - 1
            BY <1>5, <2>1, <2>2, <2>4, <3>1
        <3>3. ~(up[t] < x)
            <4> SUFFICES ASSUME up[t] < x PROVE FALSE
                OBVIOUS
            <4>1. Dep(s, pos[x]) >= Dep(s, pos[t])
                BY <2>1, <3>2
            <4> QED
                BY <1>6, <2>1, <3>2, <4>1
        <3>4. ~(x < up[t])
            <4> SUFFICES ASSUME x < up[t] PROVE FALSE
                OBVIOUS
            <4>1. pos[x] < p /\ p < pos[t]
                BY <1>5, <2>1
            <4>2. Depth(p) >= Depth(pos[t])
                BY <2>2, <2>4, <3>1, <4>1, <2>1
            <4>3. Dep(s, p) >= Dep(s, pos[t])
                BY <2>1, <2>2, <4>2
            <4> QED
                BY <1>6, <2>1, <4>3
        <3>5. x = up[t]
            BY <1>2, <2>1, <3>3, <3>4
        <3> QED
            BY <3>1, <3>5
    <2>5. ParentOf(pos[t]) = CHOOSE j \in Vals(s) : IsParent(j)
        BY <1>8 DEF ParentOf
    <2> HIDE DEF IsParent, p
    <2>6. (CHOOSE j \in Vals(s) : IsParent(j)) = p
        BY <2>3, <2>4
    <2> QED
        BY <2>5, <2>6 DEF p
<1>12. Values \ {1} = {pos[t] : t \in 1 .. used}
    <2>1. \A t \in 1 .. used : t \in 0 .. used /\ pos[t] # 1
        BY <1>3
    <2>2. ASSUME NEW i \in Vals(s) \ {1} PROVE \E t \in 1 .. used : i = pos[t]
        <3>1. PICK t \in 0 .. used : i = pos[t]
            BY <1>4
        <3>2. t # 0
            BY <1>4, <2>2, <3>1
        <3> QED
            BY <1>2, <3>1, <3>2
    <2>3. ASSUME NEW t \in 1 .. used PROVE pos[t] \in Vals(s) \ {1}
        BY <1>4, <2>1
    <2> QED
        BY <1>8, <2>2, <2>3
<1>13. /\ DOMAIN Parents = {pos[t] : t \in 1 .. used}
       /\ \A t \in 1 .. used : Parents[pos[t]] = pos[up[t]]
    <2>1. Parents = [i \in {pos[t] : t \in 1 .. used} |-> ParentOf(i)]
        BY <1>12 DEF Parents
    <2> QED
        BY <1>11, <2>1
\* A value between a container and one of its members is inside the container.
<1>14. ASSUME NEW t \in 1 .. used, NEW x \in 1 .. used, up[t] < x, x < t PROVE up[t] <= up[x]
    <2> SUFFICES ASSUME up[x] < up[t] PROVE FALSE
        BY <1>2, <1>4
    <2>1. /\ t \in 0 .. used /\ x \in 0 .. used /\ up[t] \in 0 .. used
          /\ Dep(s, pos[x]) >= Dep(s, pos[t]) /\ Dep(s, pos[up[t]]) = Dep(s, pos[t]) - 1
        BY <1>4, <1>14
    <2>2. Dep(s, pos[up[t]]) >= Dep(s, pos[x])
        BY <1>4, <1>14, <2>1
    <2> QED
        BY <1>6, <2>1, <2>2
<1>15. ASSUME NEW t \in 0 .. used
       PROVE  /\ tok[t].type = TypeOf(pos[t])
              /\ t # 0 => tok[t].name = NameOf(pos[t])
    <2>1. pos[t] \in 1 .. n /\ pos[t] <= n
        BY <1>2, <1>3
    <2>2. tok[t].type = TypeAt(s[pos[t]][1]) /\ (t # 0 => tok[t].name = NameAt(s, pos[t]))
        BY <1>1, <2>1 DEF Tree, Marks, n
    <2>3. TypeOf(pos[t]) = TypeAt(s[pos[t]][1])
        BY <1>7, <2>1 DEF TypeOf, TypeAt
    <2>4. t # 0 => NameOf(pos[t]) = NameAt(s, pos[t])
        <3> SUFFICES ASSUME t # 0 PROVE NameOf(pos[t]) = NameAt(s, pos[t])
            OBVIOUS
        <3>1. pos[t] - 1 \in 1 .. n
            BY <1>2, <1>3, <2>1
        <3> QED
            BY <1>7, <3>1 DEF NameOf, NameAt
    <2> QED
        BY <2>2, <2>3, <2>4
<1>16. ASSUME NEW t \in 0 .. used, Opens(pos[t])
       PROVE  ChainOf(Kids(t), MembersIn(up, used, t))
    <2>1. Kids(t) = Chain(tok[t].child)
        BY DEF Kids, Chain
    <2>2. pos[t] \in 1 .. n /\ pos[t] <= n /\ s[pos[t]][1] \in OpenKinds
        BY <1>2, <1>3, <1>9, <1>16
    <2>3. tok[t].child # Junk
        BY <1>1, <2>2 DEF Tree, Marks, n
    <2>4. \A o \in O : o <= t
        <3>1. t >= 0 /\ Nil # 0
            BY <1>2 DEF Nil
        <3>2. \A o \in O : o <= 0
            BY <1>1, <3>1 DEF Tree, Shape, Root
        <3>3. \A o \in O : o \in 0 .. used
            BY <1>1 DEF Tree, Shape
        <3> QED
            BY <1>2, <3>2, <3>3
    <2>5. ChainOf(Chain(tok[t].child), MembersIn(up, used, t))
        BY <1>1, <2>3, <2>4, ListOf DEF Tree
    <2> QED
        BY <2>1, <2>5
<1>17. ASSUME NEW t \in 1 .. used PROVE Opens(pos[up[t]])
    <2>1. s[pos[up[t]]][1] \in OpenKinds /\ up[t] \in 0 .. used
        BY <1>4
    <2> QED
        BY <1>3, <1>9, <2>1
<1>18. up \in [1 .. used -> 0 .. used] /\ pos \in [0 .. used -> Nat]
    BY <1>1 DEF Tree, Shape, Places
<1>19. TextTree(up, pos)
    BY <1>4, <1>5, <1>8, <1>10, <1>13, <1>14, <1>15, <1>16, <1>17, <1>18 DEF TextTree
<1> QED
    BY <1>19

\* The members of a value, found in the text, are the members of its token.
LEMMA MembersRead ==
    ASSUME used \in Nat, NEW up, NEW pos, TextTree(up, pos), NEW c \in 0 .. used
    PROVE  MembersOf(Parents, pos[c]) = {pos[m] : m \in MembersIn(up, used, c)}
<1>1. /\ DOMAIN Parents = {pos[t] : t \in 1 .. used}
      /\ \A t \in 1 .. used : Parents[pos[t]] = pos[up[t]] /\ up[t] \in 0 .. used
      /\ \A x, y \in 0 .. used : pos[x] = pos[y] => x = y
    BY DEF TextTree
<1>2. \A t \in 1 .. used : Parents[pos[t]] = pos[c] <=> up[t] = c
    BY <1>1
<1>3. MembersOf(Parents, pos[c]) = {i \in {pos[t] : t \in 1 .. used} : Parents[i] = pos[c]}
    BY <1>1 DEF MembersOf
<1> QED
    BY <1>2, <1>3 DEF MembersIn

\* The tree of the text is what the property asks.
LEMMA TreeRead ==
    ASSUME used \in Nat, NEW up, NEW pos, TextTree(up, pos)
    PROVE  TreeOfText
<1>1. /\ Values = {pos[t] : t \in 0 .. used} /\ pos[0] = 1
      /\ \A x, y \in 0 .. used : pos[x] = pos[y] => x = y
      /\ \A t \in 0 .. used :
            /\ TokenOf(pos[t]) = t
            /\ tok[t].type = TypeOf(pos[t])
            /\ t # 0 => tok[t].name = NameOf(pos[t])
            /\ Opens(pos[t]) => ChainOf(Kids(t), MembersIn(up, used, t))
    BY DEF TextTree
<1>2. used = Cardinality(Values) - 1
    <2>1. IsFiniteSet(0 .. used) /\ Cardinality(0 .. used) = used + 1
        <3>1. 0 \in Int /\ used \in Int /\ (IF 0 > used THEN 0 ELSE used - 0 + 1) = used + 1
            OBVIOUS
        <3> QED
            BY <3>1, FS_Interval
    <2>2. Cardinality({pos[t] : t \in 0 .. used}) = used + 1
        BY <1>1, <2>1, ImageSize
    <2> QED
        BY <1>1, <2>2
<1>3. ASSUME NEW t \in 0 .. used
      PROVE  /\ {TokenOf(m) : m \in MembersOf(Parents, pos[t])} = MembersIn(up, used, t)
             /\ Cardinality(MembersOf(Parents, pos[t])) = Cardinality(MembersIn(up, used, t))
    <2> DEFINE M == MembersIn(up, used, t)
    <2>1. \A m \in M : m \in 0 .. used
        BY DEF MembersIn
    <2>2. IsFiniteSet(M)
        <3>1. IsFiniteSet(1 .. used)
            BY FS_Interval
        <3>2. M \in SUBSET (1 .. used)
            BY DEF MembersIn
        <3> QED
            BY <3>1, <3>2, FS_Subset
    <2>3. MembersOf(Parents, pos[t]) = {pos[m] : m \in M}
        BY MembersRead
    <2> HIDE DEF M
    <2>4. Cardinality({pos[m] : m \in M}) = Cardinality(M)
        BY <1>1, <2>1, <2>2, ImageSize
    <2>5. \A m \in M : TokenOf(pos[m]) = m
        BY <1>1, <2>1
    <2>6. {TokenOf(i) : i \in {pos[m] : m \in M}} = M
        BY <2>5
    <2> QED
        BY <2>3, <2>4, <2>6 DEF M
<1>4. ASSUME NEW i \in Values
       PROVE  /\ tok[TokenOf(i)].type = TypeOf(i)
              /\ i # 1 => tok[TokenOf(i)].name = NameOf(i)
              /\ Opens(i) =>
                    /\ {Kids(TokenOf(i))[k] : k \in 1 .. Len(Kids(TokenOf(i)))}
                          = {TokenOf(m) : m \in MembersOf(Parents, i)}
                    /\ Len(Kids(TokenOf(i))) = Cardinality(MembersOf(Parents, i))
    <2>1. PICK t \in 0 .. used : i = pos[t]
        BY <1>1, <1>4
    <2>2. TokenOf(i) = t
        BY <1>1, <2>1
    <2>3. Kids(TokenOf(i)) = Kids(t)
        BY <2>2 DEF Kids
    <2> QED
        BY <1>1, <1>3, <2>1, <2>2, <2>3 DEF ChainOf
<1> QED
    BY <1>2, <1>4 DEF TreeOfText

\* At rest the tree of the text is there.
LEMMA AtRest ==
    ASSUME IInv, Accepted
    PROVE  used \in Nat /\ \E up, pos : TextTree(up, pos)
<1>1. /\ tok \in [Tokens -> TokenRecs] /\ used \in 0 .. TokLen /\ to \in {Root, Nil}
      /\ \E s \in Seq(Lexemes), l \in Ends : text = Append(s, l) /\ HasTree(tok, used, to, s, {})
    BY DEF IInv, TypeOK, TokenRecs, RestInv
<1>2. used \in Nat
    BY <1>1, BoundsAssumption
<1> QED
    BY <1>1, <1>2, TextRead

-----------------------------------------------------------------------------
(* The parser as a whole.                                                  *)

\* The branches of the loop's body.
LEMMA LoopCases ==
    ASSUME NEW k, NEW n, Loop(k, n)
    PROVE  \/ k = "end" /\ Finish(IF to = Root THEN "ok" ELSE "json")
           \/ k = "blanks" /\ Finish("json")
           \/ /\ k # "end" /\ k # "blanks"
              /\ \/ /\ k \notin ValueKinds \cup CloseKinds /\ k # "key"
                    /\ Goon("loop") /\ UNCHANGED <<tok, used, to, new>>
                 \/ k = CloserOf(tok[to].type) /\ Closer
                 \/ k # Comma /\ k # CloserOf(tok[to].type) /\ Member(k, n)
<1>1. CASE k = "end" \/ k = "blanks"
    BY <1>1 DEF Loop
<1>2. CASE k # "end" /\ k # "blanks" /\ k = ","
    <2>1. Goon("loop") /\ UNCHANGED <<tok, used, to, new>>
        BY <1>2, Zenon DEF Loop
    <2>2. k \notin ValueKinds /\ k \notin CloseKinds
        BY <1>2, Kinds, Zenon
    <2>3. k # "key"
        BY <1>2, Zenon
    <2> QED
        BY <1>2, <2>1, <2>2, <2>3, Zenon
<1>3. CASE k # "end" /\ k # "blanks" /\ k # ","
    BY <1>3, Zenon DEF Loop, Comma
<1> QED
    BY <1>1, <1>2, <1>3, Zenon

\* A turn of the loop of the parser keeps the invariant.
LEMMA LoopStep ==
    ASSUME IInv, pc \in {"opened", "loop", "after"}, NEW l \in Lexemes \cup Ends,
           text' = Append(text, l), parses' = parses, Loop(l[1], l[2])
    PROVE  IInv'
<1>1. text' \in Seq(Lexemes \cup Ends)
    BY AppendProperties DEF IInv, TypeOK
<1>2. CASE l[1] = "end" /\ Finish(IF to = Root THEN "ok" ELSE "json")
    <2>1. l \in Ends /\ text \in Seq(Lexemes) /\ HasTree(tok, used, to, text, {})
        BY <1>2, EndKinds DEF IInv, BuildInv, Building, Waiting
    <2>2. \A r : Judged(r)'
        BY <2>1, LoopRefused
    <2>3. CASE to = Root
        BY <1>1, <1>2, <2>1, <2>2, <2>3, Returns
    <2>4. CASE to # Root
        BY <1>1, <1>2, <2>2, <2>4, Returns
    <2> QED
        BY <2>3, <2>4
<1>3. CASE l[1] = "blanks" /\ Finish("json")
    <2>1. l \in Ends
        BY <1>3, EndKinds
    <2>2. Judged("json")'
        BY <2>1, LoopRefused
    <2> QED
        BY <1>1, <1>3, <2>2, Returns
<1>4. CASE l[1] # "end" /\ l[1] # "blanks"
    <2>1. l \in Lexemes
        BY <1>4, EndKinds
    <2>2. CASE /\ l[1] \notin ValueKinds \cup CloseKinds /\ l[1] # "key"
               /\ Goon("loop") /\ UNCHANGED <<tok, used, to, new>>
        BY <2>1, <2>2, CommaStep
    <2>3. CASE l[1] = CloserOf(tok[to].type) /\ Closer
        BY <2>1, <2>3, CloserStep
    <2>4. CASE l[1] # Comma /\ l[1] # CloserOf(tok[to].type) /\ Member(l[1], l[2])
        BY <2>1, <2>4, MemberStep
    <2> QED
        BY <1>4, <2>2, <2>3, <2>4, LoopCases
<1> QED
    BY <1>2, <1>3, <1>4, LoopCases

\* The numbers of the first token and of the tokens taken.
LEMMA Numbers ==
    /\ TokLen \in Nat /\ Root = 0 /\ Root \in Tokens /\ Root # Nil /\ 0 \in 0 .. TokLen
    /\ \A t \in Tokens : t # Nil
    /\ \A u \in 0 .. TokLen : u > 0 => u \in 1 .. TokLen
BY BoundsAssumption DEF Tokens, Root, Nil

\* The first lexeme: the root is the first token.
LEMMA FirstStep ==
    ASSUME IInv, pc = "start", NEW l \in Lexemes \cup Ends, text' = Append(text, l),
           parses' = parses, l[1] \in {"{", "["},
           tok' = [tok EXCEPT ![Root].type = IF l[1] = "{" THEN "object" ELSE "array"],
           Goon("opened"), UNCHANGED <<used, to, new>>
    PROVE  IInv'
<1>1. l \in Lexemes /\ l[1] \in OpenKinds /\ l[1] # "key"
    BY EndKinds DEF OpenKinds
<1>2. /\ tok \in [Tokens -> TokenRecs] /\ tok[Root] = Zero
      /\ used = 0 /\ to = Root /\ new \in Tokens /\ text = <<>>
    BY DEF IInv, TypeOK, TokenRecs, StartInv
<1>3. Root \in Tokens /\ 0 \in 0 .. TokLen /\ Root = 0 /\ Root # Nil
    BY Numbers
<1>4. text' = Append(<<>>, l)
    BY <1>2
<1>5. text' \in Seq(Lexemes) /\ Len(text') = 1 /\ text'[1] = l /\ text' # <<>>
    BY <1>1, <1>4, OnlyOne
<1> DEFINE v == [Zero EXCEPT !.type = IF l[1] = "{" THEN "object" ELSE "array"]
<1>6. v \in TokenRecs /\ v.type = TypeAt(l[1]) /\ v.child = Nil /\ v.next = Nil
    BY <1>3 DEF TokenRecs, Zero, TypeAt, OpenKinds
<1>7. tok' = [tok EXCEPT ![Root] = v]
    BY <1>2, <1>3
<1> HIDE DEF v
<1>8. tok' \in [Tokens -> TokenRecs] /\ tok'[0] = v
    <2>1. tok' \in [Tokens -> TokenRecs]
        BY <1>2, <1>6, <1>7
    <2>2. tok'[Root] = v
        BY <1>2, <1>3, <1>7
    <2> QED
        BY <1>3, <2>1, <2>2
<1>9. HasTree(tok', 0, 0, text', {})
    BY <1>1, <1>5, <1>6, <1>8, TreeRoot
<1>10. Waiting' = {} /\ Building' /\ pc' = "opened"
    BY DEF Waiting, Building, Goon
<1>11. HasTree(tok', used', to', text', Waiting')
    BY <1>2, <1>3, <1>9, <1>10
<1> QED
    BY <1>1, <1>2, <1>3, <1>5, <1>8, <1>10, <1>11, GoesOnReading DEF Goon

\* The tokens in use are counted.
LEMMA UsedIsNat == IInv => used \in Nat
BY BoundsAssumption DEF IInv, TypeOK

\* A key without its value.
LEMMA ValueRefused ==
    ASSUME IInv, pc = "value", NEW l \in Lexemes \cup Ends, text' = Append(text, l), NEW r,
           l[1] \notin Scalars \cup {"{", "["}
    PROVE  Judged(r)'
<1>1. /\ text \in Seq(Lexemes) /\ text # <<>> /\ to # Nil /\ used \in Nat
      /\ HasTree(tok, used, to, text, {Len(text) + 1}) /\ text[Len(text)][1] = "key"
    <2>1. Building /\ BuildInv /\ Waiting = {Len(text) + 1}
        BY DEF IInv, Building, Waiting
    <2> QED
        BY <2>1, UsedIsNat, Zenon DEF BuildInv
<1>2. l[1] \notin ValueKinds
    BY DEF ValueKinds, OpenKinds
<1>3. "key" \notin OpenKinds /\ "key" \notin Scalars /\ "key" \notin CloseKinds
      /\ "key" \notin ValueKinds
    BY Kinds, Zenon DEF ValueKinds
<1>4. "key" # Comma
    BY Zenon DEF Comma
<1>5. ~Allowed(tok[to].type, "key", l[1])
    BY <1>2, <1>3, <1>4, Zenon DEF Allowed
<1>6. {Len(text) + 1} \subseteq {Len(text) + 1}
    OBVIOUS
<1> QED
    BY <1>1, <1>5, <1>6, Refused, Zenon

\* The value after a key.
LEMMA NamedStep ==
    ASSUME IInv, pc = "value", NEW l \in Lexemes \cup Ends, text' = Append(text, l),
           parses' = parses, l[1] \in Scalars \cup {"{", "["},
           Value(tok, new, l[1]), UNCHANGED <<used, new>>
    PROVE  IInv'
<1>1. /\ tok \in [Tokens -> TokenRecs] /\ used \in 0 .. TokLen /\ new \in Tokens
      /\ to \in Tokens /\ to # Nil /\ new = used /\ used > 0 /\ text \in Seq(Lexemes)
      /\ HasTree(tok, used, to, text, {Len(text) + 1})
    BY DEF IInv, TypeOK, TokenRecs, BuildInv, Building, Waiting
<1>2. TokLen \in Nat /\ used \in 1 .. TokLen
    BY <1>1, Numbers
<1>3. l \in Lexemes
    <2>1. l[1] # "end" /\ l[1] # "blanks"
        BY ScalarsAssumption
    <2> QED
        BY <2>1, EndKinds
<1>4. text' \in Seq(Lexemes) /\ GoesOn(text, l, text')
    BY <1>1, <1>3, Longer
<1>5. text' # <<>> /\ text'[Len(text')] = l
    <2>1. Len(text) \in Nat
        BY <1>1, LenProperties
    <2> QED
        BY <1>4, <2>1, LastOf
<1>6. /\ tok' \in [Tokens -> TokenRecs] /\ to' \in Tokens
      /\ HasTree(tok', used, to', text', {})
      /\ pc' \in {"opened", "after"} /\ res' = res /\ parsed' = parsed /\ l[1] # "key"
      /\ pc' = "opened" => l[1] \in OpenKinds
      /\ pc' = "after" => l[1] \in Scalars
    BY <1>1, <1>2, <1>4, ValueStep
<1>7. Waiting' = {} /\ Building' /\ pc' # "value" /\ pc' # "trail"
    BY <1>6 DEF Waiting, Building
<1>8. to' # Nil
    BY <1>6, Numbers
<1>9. HasTree(tok', used', to', text', Waiting')
    BY <1>6, <1>7
<1> QED
    BY <1>1, <1>4, <1>5, <1>6, <1>7, <1>8, <1>9, GoesOnReading

\* A lexeme that is read keeps the invariant.
LEMMA ReadKeeps == ASSUME IInv, Read PROVE IInv'
<1>1. PICK l \in Lexemes \cup Ends : Take(l[1], l[2]) /\ text' = Append(text, l)
    BY Zenon DEF Read
<1>2. parses' = parses
    BY DEF Read
<1>3. text' \in Seq(Lexemes \cup Ends)
    BY <1>1, AppendProperties DEF IInv, TypeOK
<1>4. CASE pc \in {"opened", "loop", "after"} /\ Loop(l[1], l[2])
    BY <1>1, <1>2, <1>4, LoopStep
<1>5. CASE /\ Finish("json")
           /\ \/ pc = "start" /\ l[1] \notin {"{", "["}
              \/ pc = "opened" /\ ~MayFollowBracket(l[1])
              \/ pc = "value" /\ l[1] \notin Scalars \cup {"{", "["}
              \/ pc = "after" /\ l[1] \notin {",", "]", "}"}
    <2>1. ASSUME pc = "start", l[1] \notin {"{", "["}
          PROVE  Judged("json")'
        BY <1>1, <2>1, RefusedFirst DEF IInv, StartInv
    <2>2. ASSUME pc = "opened", ~MayFollowBracket(l[1])
          PROVE  Judged("json")'
        BY <1>1, <2>2, LoopRefused
    <2>3. ASSUME pc = "value", l[1] \notin Scalars \cup {"{", "["}
          PROVE  Judged("json")'
        BY <1>1, <2>3, ValueRefused
    <2>4. ASSUME pc = "after", l[1] \notin {",", "]", "}"}
          PROVE  Judged("json")'
        <3>1. l[1] # Comma /\ l[1] \notin CloseKinds
            BY <2>4, Zenon DEF Comma, CloseKinds
        <3> QED
            BY <1>1, <2>4, <3>1, LoopRefused
    <2>5. Judged("json")'
        BY <1>5, <2>1, <2>2, <2>3, <2>4, Zenon
    <2> QED
        BY <1>2, <1>3, <1>5, <2>5, Returns
<1>6. CASE /\ pc = "start" /\ l[1] \in {"{", "["}
           /\ tok' = [tok EXCEPT ![Root].type = IF l[1] = "{" THEN "object" ELSE "array"]
           /\ Goon("opened") /\ UNCHANGED <<used, to, new>>
    BY <1>1, <1>2, <1>6, FirstStep
<1>7. CASE /\ pc = "value" /\ l[1] \in Scalars \cup {"{", "["}
           /\ Value(tok, new, l[1]) /\ UNCHANGED <<used, new>>
    BY <1>1, <1>2, <1>7, NamedStep
<1>8. CASE pc = "trail" /\ Finish(IF l[1] \in {"end", "blanks"} THEN "ok" ELSE "err")
    <2>1. /\ used \in 0 .. TokLen /\ to = Nil /\ text \in Seq(Lexemes) /\ text # <<>>
          /\ text[Len(text)][1] # "key" /\ Dep(text, Len(text) + 1) = 0
          /\ HasTree(tok, used, to, text, {})
        BY <1>8 DEF IInv, TypeOK, BuildInv, Building, Waiting
    <2>2. CASE l[1] \in {"end", "blanks"}
        <3>1. l \in Ends
            BY <2>2, EndKinds
        <3>2. Judged("ok")'
            BY <1>1, <2>1, <3>1, AcceptedWhole
        <3> QED
            BY <1>1, <1>2, <1>3, <1>8, <2>1, <2>2, <3>1, <3>2, Returns
    <2>3. CASE l[1] \notin {"end", "blanks"}
        <3>1. l \in Lexemes
            BY <2>3, EndKinds
        <3>2. Judged("err")'
            BY <1>1, <2>1, <3>1, RefusedLast
        <3> QED
            BY <1>2, <1>3, <1>8, <2>3, <3>2, Returns
    <2> QED
        BY <2>2, <2>3
<1> QED
    BY <1>1, <1>4, <1>5, <1>6, <1>7, <1>8, Zenon DEF Take

\* What was judged stays judged when no lexeme is read.
LEMMA AcceptedStays ==
    ASSUME JsonAccepted, UNCHANGED <<pc, res, parses, text>>
    PROVE  JsonAccepted'
<1>1. Body' = Body /\ Ended' = Ended
    BY DEF Body, Ended
<1>2. \A i : Kind(i)' = Kind(i)
    BY <1>1 DEF Kind
<1>3. \A i : Opens(i)' = Opens(i) /\ IsValue(i)' = IsValue(i)
    BY <1>2 DEF Opens, IsValue
<1>4. Values' = Values
    BY <1>1, <1>3 DEF Values
<1>5. \A i : Depth(i)' = Depth(i)
    BY <1>2, <1>3 DEF Depth
<1>6. \A i : ParentOf(i)' = ParentOf(i)
    BY <1>3, <1>4, <1>5 DEF ParentOf
<1>7. \A i : Begins(i)' = Begins(i) /\ AfterMember(i)' = AfterMember(i)
    BY <1>2, <1>3 DEF Begins, AfterMember
<1>8. ASSUME NEW i PROVE Fits(i)' = Fits(i)
    <2>1. Kind(ParentOf(i))' = Kind(ParentOf(i))
        BY <1>1, <1>6 DEF Kind
    <2>2. /\ Kind(i)' = Kind(i) /\ Kind(i - 1)' = Kind(i - 1) /\ Depth(i)' = Depth(i)
          /\ Opens(i)' = Opens(i) /\ Opens(i - 1)' = Opens(i - 1) /\ IsValue(i)' = IsValue(i)
          /\ Begins(i)' = Begins(i) /\ AfterMember(i)' = AfterMember(i)
        BY <1>2, <1>3, <1>5, <1>7
    <2> QED
        BY <2>1, <2>2, Zenon DEF Fits
<1>9. IsJson' = IsJson
    BY <1>8 DEF IsJson
<1>10. Members' = Members
    BY <1>1, <1>2, <1>4 DEF Members
<1> QED
    BY <1>9, <1>10 DEF JsonAccepted

\* The invariant holds of tokens that were never used.
LEMMA InitIInv == Init => IInv
<1> SUFFICES ASSUME Init PROVE IInv
    OBVIOUS
<1>1. Root \in Tokens /\ 0 \in 0 .. TokLen
    BY BoundsAssumption DEF Tokens, Root
<1>2. text \in Seq(Lexemes \cup Ends) /\ 0 \in 0 .. Len(MaxText)
    BY BoundsAssumption, EmptySeq, LenProperties DEF Init
<1>3. tok \in [Tokens -> [type : {"object", "array"} \cup Scalars \cup {"string"},
                          name : Names \cup {NoName},
                          child : Tokens \cup {Nil, Junk}, next : Tokens \cup {Nil}]]
    BY <1>1 DEF Init, Zero
<1>4. TypeOK
    BY <1>1, <1>2, <1>3 DEF Init, TypeOK
<1>5. BuildInv /\ StartInv /\ RestInv /\ JsonAccepted
    BY DEF Init, BuildInv, Building, StartInv, RestInv, Accepted, JsonAccepted
<1> QED
    BY <1>4, <1>5 DEF IInv

\* Every step keeps the invariant.
LEMMA NextIInv == IInv /\ [Next]_vars => IInv'
<1> SUFFICES ASSUME IInv, [Next]_vars PROVE IInv'
    OBVIOUS
<1>1. CASE ParseNothing
    <2>1. TypeOK'
        BY <1>1, EmptySeq DEF ParseNothing, IInv, TypeOK
    <2>2. BuildInv' /\ StartInv'
        BY <1>1 DEF ParseNothing, BuildInv, Building, StartInv
    <2>3. RestInv'
        BY <1>1 DEF ParseNothing, RestInv, Accepted
    <2>4. JsonAccepted'
        BY <1>1 DEF ParseNothing, JsonAccepted
    <2> QED
        BY <2>1, <2>2, <2>3, <2>4 DEF IInv
<1>2. CASE Parse
    <2>1. Zero \in TokenRecs /\ Root \in Tokens /\ 0 \in 0 .. TokLen
        BY BoundsAssumption DEF TokenRecs, Zero, Tokens, Root
    <2>2. text' \in Seq(Lexemes \cup Ends) /\ parses' \in 0 .. Len(MaxText)
        BY <1>2, BoundsAssumption, EmptySeq, LenProperties DEF Parse, IInv, TypeOK
    <2>3. tok' \in [Tokens -> TokenRecs] /\ tok'[Root] = Zero
        BY <1>2, <2>1 DEF Parse, IInv, TypeOK, TokenRecs
    <2>4. TypeOK'
        BY <1>2, <2>1, <2>2, <2>3 DEF Parse, IInv, TypeOK, TokenRecs
    <2>5. BuildInv' /\ StartInv' /\ RestInv' /\ JsonAccepted'
        BY <1>2, <2>3 DEF Parse, BuildInv, Building, StartInv, RestInv, Accepted, JsonAccepted
    <2> QED
        BY <2>4, <2>5 DEF IInv
<1>3. CASE Read
    BY <1>3, ReadKeeps
<1>4. CASE Free
    <2>1. Zero \in TokenRecs
        BY BoundsAssumption DEF TokenRecs, Zero, Tokens, Root
    <2>2. tok' \in [Tokens -> TokenRecs]
        BY <1>4, <2>1 DEF Free, IInv, TypeOK, TokenRecs
    <2>3. TypeOK'
        BY <1>4, <2>2 DEF Free, IInv, TypeOK, TokenRecs
    <2>4. BuildInv' /\ StartInv' /\ RestInv'
        BY <1>4 DEF Free, BuildInv, Building, StartInv, RestInv, Accepted
    <2>5. JsonAccepted'
        BY <1>4, AcceptedStays DEF Free, IInv
    <2> QED
        BY <2>3, <2>4, <2>5 DEF IInv
<1>5. CASE UNCHANGED vars
    <2>1. TypeOK'
        BY <1>5 DEF vars, IInv, TypeOK
    <2>2. BuildInv' /\ StartInv'
        BY <1>5 DEF vars, IInv, BuildInv, Building, Waiting, StartInv
    <2>3. RestInv'
        BY <1>5 DEF vars, IInv, RestInv, Accepted
    <2>4. JsonAccepted'
        BY <1>5, AcceptedStays DEF vars, IInv
    <2> QED
        BY <2>1, <2>2, <2>3, <2>4 DEF IInv
<1> QED
    BY <1>1, <1>2, <1>3, <1>4, <1>5 DEF Next

\* The invariant of the specification.
LEMMA Inductive == Spec => []IInv
BY InitIInv, NextIInv, PTL DEF Spec

-----------------------------------------------------------------------------
(* The search.                                                             *)

\* A token that stands for a value to which a segment of a path leads.
Hit(pos, seg, m) == Matches(Parents, seg, pos[m])

\* A way down from the token t by the last n segments of a path.
Walk(up, pos, path, n, t, w) ==
    /\ w \in [0 .. n -> 0 .. used] /\ w[0] = t
    /\ \A i \in 1 .. n : /\ w[i] \in MembersIn(up, used, w[i - 1])
                         /\ Hit(pos, path[Len(path) - n + i], w[i])

\* The tokens it may lead to.
Led(up, pos, path, n, t) ==
    {y \in 0 .. used : \E w : Walk(up, pos, path, n, t, w) /\ w[n] = y}

\* A way down stays below the token where it begins, and before the tokens
\* that follow it at its level or above.
LEMMA WalkStays ==
    ASSUME used \in Nat, NEW up, NEW pos, TextTree(up, pos), NEW path, NEW n \in Nat,
           NEW t \in 0 .. used, NEW w, Walk(up, pos, path, n, t, w)
    PROVE  /\ t <= w[n]
           /\ \A z \in 1 .. used : t < z /\ up[z] < t => w[n] < z
<1>1. /\ \A x \in 1 .. used : up[x] \in 0 .. used /\ up[x] < x
      /\ \A x, y \in 1 .. used : up[x] < y /\ y < x => up[x] <= up[y]
    BY DEF TextTree
<1>2. /\ w[0] = t /\ \A i \in 0 .. n : w[i] \in 0 .. used
      /\ \A i \in 1 .. n : w[i] \in 1 .. used /\ up[w[i]] = w[i - 1]
    BY DEF Walk, MembersIn
<1> DEFINE Stays(i) == t <= w[i] /\ \A z \in 1 .. used : t < z /\ up[z] < t => w[i] < z
           Bad == {i \in 0 .. n : ~Stays(i)}
<1>3. Bad = {}
    <2> SUFFICES ASSUME Bad # {} PROVE FALSE
        OBVIOUS
    <2>1. Bad \in SUBSET Nat
        OBVIOUS
    <2>2. PICK i \in Bad : \A x \in Bad : i <= x
        <3> HIDE DEF Bad
        <3> QED
            BY <2>1, Least
    <2>3. Stays(0)
        BY <1>2
    <2> HIDE DEF Stays
    <2>4. i \in 1 .. n /\ i - 1 \in 0 .. n /\ ~Stays(i)
        BY <2>2, <2>3
    <2>5. Stays(i - 1)
        BY <2>2, <2>4
    <2>6. /\ w[i - 1] \in 0 .. used /\ w[i] \in 1 .. used /\ up[w[i]] = w[i - 1]
        BY <1>2, <2>4
    <2>7. t <= w[i]
        BY <1>1, <2>5, <2>6 DEF Stays
    <2>8. ASSUME NEW z \in 1 .. used, t < z, up[z] < t PROVE w[i] < z
        <3>1. t <= w[i - 1] /\ w[i - 1] < z
            BY <2>5, <2>8 DEF Stays
        <3>2. w[i] # z
            BY <1>1, <2>6, <2>8, <3>1
        <3>3. ~(z < w[i])
            <4> SUFFICES ASSUME z < w[i] PROVE FALSE
                OBVIOUS
            <4>1. up[w[i]] <= up[z]
                BY <1>1, <2>6, <3>1
            <4> QED
                BY <1>1, <2>6, <2>8, <3>1, <4>1
        <3> QED
            BY <2>6, <3>2, <3>3
    <2> QED
        BY <2>4, <2>7, <2>8 DEF Stays
<1>4. Stays(n)
    <2> HIDE DEF Stays
    <2>1. n \in 0 .. n
        OBVIOUS
    <2> QED
        BY <1>3, <2>1
<1> QED
    BY <1>4

\* The second half, for one token.
LEMMA WalkBefore ==
    ASSUME used \in Nat, NEW up, NEW pos, TextTree(up, pos), NEW path, NEW n \in Nat,
           NEW t \in 0 .. used, NEW w, Walk(up, pos, path, n, t, w),
           NEW z \in 1 .. used, t < z, up[z] < t
    PROVE  w[n] < z
<1>1. \A x \in 1 .. used : t < x /\ up[x] < t => w[n] < x
    BY WalkStays
<1> QED
    BY <1>1

\* The first step of a way down.
LEMMA LedNext ==
    ASSUME used \in Nat, NEW up, NEW pos, NEW path, Len(path) \in Nat, NEW n \in 1 .. Len(path),
           NEW t \in 0 .. used
    PROVE  \A y : y \in Led(up, pos, path, n, t) <=>
                     \E c \in MembersIn(up, used, t) : /\ Hit(pos, path[Len(path) + 1 - n], c)
                                                       /\ y \in Led(up, pos, path, n - 1, c)
<1> DEFINE L == Len(path)
<1>1. L - n + 1 = L + 1 - n /\ n - 1 \in Nat /\ n \in Nat
    OBVIOUS
<1>2. ASSUME NEW y \in Led(up, pos, path, n, t)
      PROVE  \E c \in MembersIn(up, used, t) : /\ Hit(pos, path[L + 1 - n], c)
                                               /\ y \in Led(up, pos, path, n - 1, c)
    <2>1. PICK w : Walk(up, pos, path, n, t, w) /\ w[n] = y
        BY <1>2 DEF Led
    <2> DEFINE v == [i \in 0 .. n - 1 |-> w[i + 1]]
    <2>2. \A i \in 0 .. n - 1 : v[i] = w[i + 1] /\ i + 1 \in 1 .. n /\ i + 1 \in 0 .. n
        OBVIOUS
    <2>3. v \in [0 .. n - 1 -> 0 .. used]
        BY <2>1, <2>2 DEF Walk
    <2>4. ASSUME NEW i \in 1 .. n - 1
          PROVE  /\ v[i] \in MembersIn(up, used, v[i - 1])
                 /\ Hit(pos, path[L - (n - 1) + i], v[i])
        <3>1. i \in 0 .. n - 1 /\ i - 1 \in 0 .. n - 1 /\ i + 1 \in 1 .. n /\ i - 1 + 1 = i
              /\ i + 1 - 1 = i /\ L - (n - 1) + i = L - n + (i + 1)
            OBVIOUS
        <3>2. v[i] = w[i + 1] /\ v[i - 1] = w[i]
            BY <2>2, <3>1
        <3>3. w[i + 1] \in MembersIn(up, used, w[i + 1 - 1]) /\ Hit(pos, path[L - n + (i + 1)], w[i + 1])
            BY <2>1, <3>1 DEF Walk
        <3> QED
            BY <3>1, <3>2, <3>3
    <2>5. v[0] = w[1] /\ v[n - 1] = y
        BY <1>1, <2>1, <2>2
    <2> HIDE DEF v
    <2>6. Walk(up, pos, path, n - 1, w[1], v)
        BY <2>3, <2>4, <2>5 DEF Walk
    <2>7. w[1] \in MembersIn(up, used, t) /\ Hit(pos, path[L + 1 - n], w[1])
        <3>1. 1 \in 1 .. n /\ 1 - 1 = 0
            OBVIOUS
        <3>2. w[1] \in MembersIn(up, used, w[1 - 1]) /\ Hit(pos, path[L - n + 1], w[1]) /\ w[0] = t
            BY <2>1, <3>1 DEF Walk
        <3> QED
            BY <1>1, <3>1, <3>2
    <2>8. y \in Led(up, pos, path, n - 1, w[1])
        BY <1>2, <2>5, <2>6 DEF Led
    <2> QED
        BY <2>7, <2>8
<1>3. ASSUME NEW c \in MembersIn(up, used, t), Hit(pos, path[L + 1 - n], c),
             NEW y \in Led(up, pos, path, n - 1, c)
      PROVE  y \in Led(up, pos, path, n, t)
    <2>1. PICK v : Walk(up, pos, path, n - 1, c, v) /\ v[n - 1] = y
        BY <1>3 DEF Led
    <2> DEFINE w == [i \in 0 .. n |-> IF i = 0 THEN t ELSE v[i - 1]]
    <2>2. \A i \in 1 .. n : w[i] = v[i - 1] /\ i - 1 \in 0 .. n - 1
        OBVIOUS
    <2>3. w[0] = t
        OBVIOUS
    <2>4. w \in [0 .. n -> 0 .. used]
        BY <2>1, <2>2 DEF Walk
    <2> HIDE DEF w
    <2>5. ASSUME NEW i \in 1 .. n
          PROVE  w[i] \in MembersIn(up, used, w[i - 1]) /\ Hit(pos, path[L - n + i], w[i])
        <3>1. CASE i = 1
            <4>1. w[1] = v[0] /\ v[0] = c /\ 1 - 1 = 0
                BY <2>1, <2>2, <3>1 DEF Walk
            <4> QED
                BY <1>1, <1>3, <2>3, <3>1, <4>1
        <3>2. CASE i # 1
            <4>1. i - 1 \in 1 .. n - 1 /\ i - 1 \in 1 .. n /\ L - (n - 1) + (i - 1) = L - n + i
                BY <3>2
            <4>2. w[i] = v[i - 1] /\ w[i - 1] = v[i - 1 - 1]
                BY <2>2, <4>1
            <4>3. /\ v[i - 1] \in MembersIn(up, used, v[i - 1 - 1])
                  /\ Hit(pos, path[L - (n - 1) + (i - 1)], v[i - 1])
                BY <2>1, <4>1 DEF Walk
            <4> QED
                BY <4>1, <4>2, <4>3
        <3> QED
            BY <3>1, <3>2
    <2>6. w[n] = y
        BY <2>1, <2>2
    <2>7. Walk(up, pos, path, n, t, w)
        BY <2>3, <2>4, <2>5 DEF Walk
    <2> QED
        BY <1>3, <2>6, <2>7 DEF Led
<1> QED
    BY <1>2, <1>3

\* The first result of the candidates is the first of all their results.
LEMMA FirstOfAll ==
    ASSUME NEW tried \in SUBSET Nat, NEW result, NEW S,
           \A k \in tried : S[k] \subseteq Nat /\ IsFirst(result[k], S[k]),
           \A j, k \in tried : j < k => \A x \in S[j], y \in S[k] : x < y,
           NEW all, all = UNION {S[k] : k \in tried}
    PROVE  IsFirst(FirstFound(tried, result), all)
<1> DEFINE found == {k \in tried : result[k] # Nil}
<1>1. \A k \in tried : result[k] # Nil <=> S[k] # {}
    <2>1. \A x \in Nat : x # Nil
        BY DEF Nil
    <2> QED
        BY <2>1 DEF IsFirst
<1>2. CASE found = {}
    <2>1. UNION {S[k] : k \in tried} = {}
        BY <1>1, <1>2
    <2>2. FirstFound(tried, result) = Nil
        BY <1>2 DEF FirstFound
    <2> QED
        BY <2>1, <2>2 DEF IsFirst
<1>3. CASE found # {}
    <2>1. \E m \in found : \A j \in found : m <= j
        <3>1. found \in SUBSET Nat
            OBVIOUS
        <3> HIDE DEF found
        <3> QED
            BY <1>3, <3>1, Least
    <2> DEFINE m == LeastOf(found)
    <2>2. m \in found /\ \A j \in found : m <= j
        <3> HIDE DEF found
        <3> QED
            BY <2>1 DEF LeastOf
    <2>3. FirstFound(tried, result) = result[m]
        BY <1>3 DEF FirstFound
    <2> HIDE DEF m
    <2>4. m \in tried /\ m \in Nat /\ result[m] \in S[m] /\ \A x \in S[m] : result[m] <= x
        BY <1>1, <2>2 DEF IsFirst
    <2>5. ASSUME NEW k \in tried, NEW x \in S[k] PROVE result[m] <= x
        <3>1. k \in found /\ m <= k /\ k \in Nat
            BY <1>1, <2>2, <2>5
        <3>2. CASE k = m
            BY <2>4, <2>5, <3>2
        <3>3. CASE k # m
            <4>1. m < k
                BY <2>4, <3>1, <3>3
            <4>2. result[m] < x /\ x \in Nat /\ result[m] \in Nat
                BY <2>4, <2>5, <4>1
            <4> QED
                BY <4>2
        <3> QED
            BY <3>2, <3>3
    <2>6. result[m] \in UNION {S[k] : k \in tried}
        BY <2>4
    <2> QED
        BY <2>3, <2>5, <2>6 DEF IsFirst
<1> QED
    BY <1>2, <1>3

\* The members of a value before one of them, by its place among the children.
LEMMA PlaceOf ==
    ASSUME used \in Nat, NEW up, NEW pos, TextTree(up, pos), NEW t \in 0 .. used,
           ChainOf(Kids(t), MembersIn(up, used, t)), NEW k \in 1 .. Len(Kids(t))
    PROVE  Cardinality({j \in MembersOf(Parents, pos[t]) : j < pos[Kids(t)[k]]}) = k - 1
<1> DEFINE K == Kids(t)
           M == MembersIn(up, used, t)
<1>1. /\ Len(K) \in Nat /\ \A x \in 1 .. Len(K) : K[x] \in M
      /\ \A m \in M : \E x \in 1 .. Len(K) : m = K[x]
      /\ \A x, y \in 1 .. Len(K) : x < y => K[x] < K[y]
    BY LenProperties, ElementOfSeq DEF ChainOf
<1>2. MembersOf(Parents, pos[t]) = {pos[m] : m \in M}
    BY MembersRead
<1>3. /\ \A m \in M : m \in 0 .. used
      /\ \A x, y \in 0 .. used : (pos[x] < pos[y] <=> x < y) /\ (pos[x] = pos[y] => x = y)
    BY DEF TextTree, MembersIn
<1> HIDE DEF K, M
<1>4. \A x, y \in 1 .. Len(K) : K[x] < K[y] <=> x < y
    <2> SUFFICES ASSUME NEW x \in 1 .. Len(K), NEW y \in 1 .. Len(K) PROVE K[x] < K[y] <=> x < y
        OBVIOUS
    <2>1. K[x] \in 0 .. used /\ K[y] \in 0 .. used
        BY <1>1, <1>3
    <2>2. (x < y => K[x] < K[y]) /\ (y < x => K[y] < K[x])
        BY <1>1
    <2> QED
        BY <1>1, <2>1, <2>2
<1>5. k \in 1 .. Len(K)
    BY DEF K
<1> DEFINE f == [x \in 1 .. k - 1 |-> pos[K[x]]]
<1>6. \A x \in 1 .. k - 1 : f[x] = pos[K[x]] /\ x \in 1 .. Len(K) /\ x < k
    BY <1>1, <1>5
<1> HIDE DEF f
<1>7. {j \in {pos[m] : m \in M} : j < pos[K[k]]} = {f[x] : x \in 1 .. k - 1}
    <2>1. ASSUME NEW m \in M, pos[m] < pos[K[k]] PROVE \E x \in 1 .. k - 1 : pos[m] = f[x]
        <3>1. PICK x \in 1 .. Len(K) : m = K[x]
            BY <1>1
        <3>2. x < k
            BY <1>1, <1>3, <1>4, <1>5, <2>1, <3>1
        <3>3. x \in 1 .. k - 1
            BY <1>1, <1>5, <3>2
        <3> QED
            BY <1>6, <3>1, <3>3
    <2>2. ASSUME NEW x \in 1 .. k - 1 PROVE f[x] \in {pos[m] : m \in M} /\ f[x] < pos[K[k]]
        <3>1. K[x] \in M /\ K[x] < K[k] /\ K[k] \in M
            BY <1>1, <1>5, <1>6
        <3> QED
            BY <1>3, <1>6, <3>1
    <2> QED
        BY <2>1, <2>2
<1>8. \A x, y \in 1 .. k - 1 : f[x] = f[y] => x = y
    <2> SUFFICES ASSUME NEW x \in 1 .. k - 1, NEW y \in 1 .. k - 1, f[x] = f[y] PROVE x = y
        OBVIOUS
    <2>1. K[x] = K[y] /\ x \in 1 .. Len(K) /\ y \in 1 .. Len(K)
        <3>1. x \in 1 .. Len(K) /\ y \in 1 .. Len(K) /\ pos[K[x]] = pos[K[y]]
            BY <1>6
        <3>2. K[x] \in 0 .. used /\ K[y] \in 0 .. used
            BY <1>1, <1>3, <3>1
        <3> QED
            BY <1>3, <3>1, <3>2
    <2>2. ~(x < y) /\ ~(y < x)
        <3>1. K[x] \in 0 .. used /\ K[y] \in 0 .. used
            BY <1>1, <1>3, <2>1
        <3> QED
            BY <1>4, <2>1, <3>1
    <2> QED
        BY <2>2
<1>9. IsFiniteSet(1 .. k - 1) /\ Cardinality(1 .. k - 1) = k - 1
    <2>1. 1 \in Int /\ k - 1 \in Int /\ (IF 1 > k - 1 THEN 0 ELSE k - 1 - 1 + 1) = k - 1
        BY <1>1, <1>5
    <2> QED
        BY <2>1, FS_Interval
<1>10. Cardinality({f[x] : x \in 1 .. k - 1}) = k - 1
    <2> DEFINE D == 1 .. k - 1
    <2> HIDE DEF D
    <2>1. IsFiniteSet(D) /\ \A x, y \in D : f[x] = f[y] => x = y
        BY <1>8, <1>9 DEF D
    <2>2. Cardinality({f[x] : x \in D}) = Cardinality(D)
        BY <2>1, ImageSize
    <2> QED
        BY <1>9, <2>2 DEF D
<1> QED
    BY <1>2, <1>7, <1>10 DEF K, M

\* The children tried for a segment are those it leads to.
LEMMA TriedRead ==
    ASSUME used \in Nat, NEW up, NEW pos, TextTree(up, pos), NEW t \in 0 .. used,
           NEW seg \in Segments
    PROVE  /\ Tried(t, seg) \in SUBSET Nat
           /\ \A k \in Tried(t, seg) : /\ Kids(t)[k] \in MembersIn(up, used, t)
                                       /\ Hit(pos, seg, Kids(t)[k])
           /\ \A m \in MembersIn(up, used, t) :
                 Hit(pos, seg, m) => \E k \in Tried(t, seg) : m = Kids(t)[k]
           /\ \A j, k \in Tried(t, seg) : j < k => Kids(t)[j] < Kids(t)[k]
<1> DEFINE K == Kids(t)
           M == MembersIn(up, used, t)
<1>1. /\ tok[t].type = TypeOf(pos[t]) /\ (Opens(pos[t]) => ChainOf(K, M))
      /\ \A m \in M : /\ m \in 1 .. used /\ up[m] = t /\ Parents[pos[m]] = pos[t]
                      /\ Opens(pos[t]) /\ tok[m].name = NameOf(pos[m])
    <2>1. \A m \in M : m \in 1 .. used /\ m \in 0 .. used /\ m # 0 /\ up[m] = t
        BY DEF MembersIn
    <2>2. /\ tok[t].type = TypeOf(pos[t]) /\ (Opens(pos[t]) => ChainOf(K, M))
          /\ \A m \in 1 .. used : Parents[pos[m]] = pos[up[m]] /\ Opens(pos[up[m]])
          /\ \A m \in 0 .. used : m # 0 => tok[m].name = NameOf(pos[m])
        BY DEF TextTree
    <2> HIDE DEF M, K
    <2> QED
        BY <2>1, <2>2
<1>2. /\ tok[t].type = "object" <=> Kind(pos[t]) = "{"
      /\ tok[t].type = "array" <=> Kind(pos[t]) = "["
    <2>1. Kind(pos[t]) # "object" /\ Kind(pos[t]) # "array"
        <3>1. pos[t] \in Values
            BY DEF TextTree
        <3>2. IsValue(pos[t])
            BY <3>1 DEF Values
        <3> QED
            BY <3>2, Kinds DEF IsValue, Opens
    <2> QED
        BY <1>1, <2>1 DEF TypeOf
<1>3. seg.kind = "index" => seg.index \in Nat
    BY DEF Segments
<1>4. CASE ~Opens(pos[t])
    <2>1. Tried(t, seg) = {}
        BY <1>2, <1>4 DEF Tried, Opens
    <2> QED
        BY <1>1, <1>4, <2>1
<1>5. CASE Opens(pos[t])
    <2>1. /\ Len(K) \in Nat /\ \A x \in 1 .. Len(K) : K[x] \in M
          /\ \A m \in M : \E x \in 1 .. Len(K) : m = K[x]
          /\ \A x, y \in 1 .. Len(K) : x < y => K[x] < K[y]
        BY <1>1, <1>5, LenProperties, ElementOfSeq DEF ChainOf
    <2>2. \A k \in 1 .. Len(K) :
             Cardinality({j \in MembersOf(Parents, pos[t]) : j < pos[K[k]]}) = k - 1
        BY <1>1, <1>5, PlaceOf
    <2> DEFINE Leads(k) == CASE seg.kind = "name" -> tok[t].type = "object" /\ tok[K[k]].name = seg.name
                             [] seg.kind = "index" -> tok[t].type = "array" /\ k = seg.index + 1
                             [] OTHER -> tok[t].type = "array"
    <2>3. Tried(t, seg) = {k \in 1 .. Len(K) : Leads(k)}
        BY DEF Tried
    <2>4. ASSUME NEW k \in 1 .. Len(K) PROVE Leads(k) <=> Hit(pos, seg, K[k])
        <3>1. /\ Parents[pos[K[k]]] = pos[t] /\ tok[K[k]].name = NameOf(pos[K[k]])
              /\ Cardinality({j \in MembersOf(Parents, Parents[pos[K[k]]]) : j < pos[K[k]]}) = k - 1
            BY <1>1, <2>1, <2>2
        <3>2. seg.kind = "index" => (k - 1 = seg.index <=> k = seg.index + 1)
            BY <1>3, <2>1
        <3> HIDE DEF K
        <3>3. CASE seg.kind = "name"
            BY <1>2, <3>1, <3>3 DEF Hit, Matches
        <3>4. CASE seg.kind = "index"
            BY <1>2, <3>1, <3>2, <3>4 DEF Hit, Matches
        <3>5. CASE seg.kind # "name" /\ seg.kind # "index"
            BY <1>2, <3>1, <3>5 DEF Hit, Matches
        <3> QED
            BY <3>3, <3>4, <3>5
    <2> HIDE DEF Leads, K, M
    <2>5. Tried(t, seg) \in SUBSET Nat
        BY <2>1, <2>3
    <2>6. \A k \in Tried(t, seg) : K[k] \in M /\ Hit(pos, seg, K[k])
        BY <2>1, <2>3, <2>4
    <2>7. \A m \in M : Hit(pos, seg, m) => \E k \in Tried(t, seg) : m = K[k]
        BY <2>1, <2>3, <2>4
    <2>8. \A j, k \in Tried(t, seg) : j < k => K[j] < K[k]
        BY <2>1, <2>3
    <2> QED
        BY <2>5, <2>6, <2>7, <2>8 DEF K, M
<1> QED
    BY <1>4, <1>5

\* The recursion of the search counts the segments down.
SearchRow(g, path, n) ==
    [t \in Tokens |->
        IF n = 0 THEN t
        ELSE LET seg == path[Len(path) + 1 - n]
                 below == g[n - 1]
                 tried == Tried(t, seg)
                 kids == Kids(t)
             IN  IF n = 1 /\ seg.kind = "any" THEN Nil
                 ELSE FirstFound(tried, [k \in tried |-> below[kids[k]]])]

\* The rows of the search, as a function of the segments to go.
LEMMA Search ==
    ASSUME NEW path, Len(path) \in Nat
    PROVE  \E f : /\ \A n \in 0 .. Len(path) : f[n] = SearchRow(f, path, n)
                  /\ \A from : Find(from, path) = f[Len(path)][from]
<1> DEFINE N == Len(path)
           Row(g, n) == SearchRow(g, path, n)
           Upto(m) == \E g : \A n \in 0 .. m : g[n] = Row(g, n)
           Bad == {m \in Nat : ~Upto(m)}
<1>0. N \in Nat
    OBVIOUS
<1>1. Bad = {}
    <2> SUFFICES ASSUME Bad # {} PROVE FALSE
        OBVIOUS
    <2>1. PICK m \in Bad : \A x \in Bad : m <= x
        <3> HIDE DEF Bad
        <3>1. Bad \in SUBSET Nat
            BY DEF Bad
        <3> QED
            BY <3>1, Least
    <2>2. CASE m = 0
        <3> DEFINE g == [n \in {0} |-> [t \in Tokens |-> t]]
        <3>1. g[0] = Row(g, 0)
            BY DEF SearchRow
        <3> HIDE DEF g, Row
        <3>2. \A n \in 0 .. 0 : g[n] = Row(g, n)
            BY <3>1
        <3>3. Upto(0)
            BY <3>2
        <3> QED
            BY <2>1, <2>2, <3>3
    <2>3. CASE m # 0
        <3>1. Upto(m - 1) /\ m \in Nat
            <4> HIDE DEF Upto
            <4> QED
                BY <2>1, <2>3
        <3>2. PICK g : \A n \in 0 .. m - 1 : g[n] = Row(g, n)
            BY <3>1
        <3> DEFINE h == [n \in 0 .. m |-> IF n = m THEN Row(g, m) ELSE g[n]]
        <3> HIDE DEF Row
        <3>3. \A n \in 0 .. m : h[n] = IF n = m THEN Row(g, m) ELSE g[n]
            OBVIOUS
        <3> HIDE DEF h
        <3>4. \A n \in 0 .. m : Row(h, n) = Row(g, n)
            <4> SUFFICES ASSUME NEW n \in 0 .. m PROVE Row(h, n) = Row(g, n)
                OBVIOUS
            <4>1. CASE n = 0
                BY <4>1 DEF Row, SearchRow
            <4>2. CASE n # 0
                <5>1. h[n - 1] = g[n - 1]
                    BY <3>1, <3>3, <4>2
                <5> QED
                    BY <5>1 DEF Row, SearchRow
            <4> QED
                BY <4>1, <4>2
        <3>5. \A n \in 0 .. m : h[n] = Row(h, n)
            BY <3>1, <3>2, <3>3, <3>4
        <3>6. Upto(m)
            BY <3>5
        <3> QED
            BY <2>1, <3>6
    <2> QED
        BY <2>2, <2>3
<1>2. Upto(N)
    <2> HIDE DEF Upto
    <2> QED
        BY <1>0, <1>1
<1>3. PICK g : \A n \in 0 .. N : g[n] = Row(g, n)
    BY <1>2
<1> DEFINE f == [n \in 0 .. N |-> g[n]]
<1>4. \A n \in 0 .. N : Row(f, n) = Row(g, n)
    <2> SUFFICES ASSUME NEW n \in 0 .. N PROVE Row(f, n) = Row(g, n)
        OBVIOUS
    <2>1. CASE n = 0
        BY <2>1 DEF SearchRow
    <2>2. CASE n # 0
        <3>1. f[n - 1] = g[n - 1]
            BY <1>0, <2>2
        <3> HIDE DEF f
        <3> QED
            BY <3>1 DEF SearchRow
    <2> QED
        BY <2>1, <2>2
<1>5. f = [n \in 0 .. N |-> Row(f, n)]
    <2> HIDE DEF Row
    <2> QED
        BY <1>3, <1>4
<1> HIDE DEF f
<1> DEFINE h == CHOOSE h : h = [n \in 0 .. N |-> Row(h, n)]
<1>6. h = [n \in 0 .. N |-> Row(h, n)]
    BY <1>5
<1>7. \A from : Find(from, path) = h[N][from]
    BY DEF Find, SearchRow
<1> HIDE DEF h
<1>8. \A n \in 0 .. N : h[n] = SearchRow(h, path, n)
    BY <1>6
<1> QED
    BY <1>7, <1>8

\* What a path leads to from a token; a path that ends in "#" leads nowhere.
Sought(up, pos, path, n, t) ==
    IF n # 0 /\ path[Len(path)].kind = "any" THEN {} ELSE Led(up, pos, path, n, t)

\* The search finds the first.
LEMMA FindsFirst ==
    ASSUME used \in 0 .. TokLen, NEW up, NEW pos, TextTree(up, pos),
           NEW path, Len(path) \in Nat, \A i \in 1 .. Len(path) : path[i] \in Segments,
           NEW from \in 0 .. used
    PROVE  IsFirst(Find(from, path), Sought(up, pos, path, Len(path), from))
<1> DEFINE L == Len(path)
           So(n, t) == Sought(up, pos, path, n, t)
<1>1. /\ used \in Nat /\ L \in Nat /\ 0 .. used \subseteq Tokens
      /\ \A m \in 1 .. used : up[m] \in 0 .. used /\ up[m] < m
    <2>1. used \in Nat /\ L \in Nat /\ 0 .. used \subseteq Tokens
        BY BoundsAssumption DEF Tokens, Root
    <2>2. \A m \in 1 .. used : up[m] \in 0 .. used /\ up[m] < m
        BY DEF TextTree
    <2> QED
        BY <2>1, <2>2
<1>2. PICK f : /\ \A n \in 0 .. L : f[n] = SearchRow(f, path, n)
               /\ \A t : Find(t, path) = f[L][t]
    BY Search
<1> DEFINE Finds(n) == \A t \in 0 .. used : IsFirst(f[n][t], So(n, t))
           Bad == {n \in 0 .. L : ~Finds(n)}
<1>3. ASSUME 0 \in 0 .. L PROVE Finds(0)
    <2> SUFFICES ASSUME NEW t \in 0 .. used PROVE IsFirst(f[0][t], So(0, t))
        OBVIOUS
    <2>1. f[0][t] = t
        BY <1>1, <1>2, <1>3, ZenonT(40) DEF SearchRow
    <2>2. So(0, t) = {t}
        <3>1. So(0, t) = Led(up, pos, path, 0, t)
            BY DEF Sought
        <3>2. Walk(up, pos, path, 0, t, [i \in 0 .. 0 |-> t])
            BY DEF Walk
        <3>3. \A w : Walk(up, pos, path, 0, t, w) => w[0] = t
            BY DEF Walk
        <3>4. [i \in 0 .. 0 |-> t][0] = t
            OBVIOUS
        <3> QED
            BY <3>1, <3>2, <3>3, <3>4 DEF Led
    <2> QED
        BY <1>1, <2>1, <2>2 DEF IsFirst
<1>4. ASSUME NEW n \in 1 .. L, Finds(n - 1) PROVE Finds(n)
    <2> SUFFICES ASSUME NEW t \in 0 .. used PROVE IsFirst(f[n][t], So(n, t))
        OBVIOUS
    <2> DEFINE seg == path[L + 1 - n]
               tried == Tried(t, seg)
               K == Kids(t)
               any == path[L].kind = "any"
    <2>1. L + 1 - n \in 1 .. L /\ n \in 0 .. L /\ n - 1 \in Nat /\ n # 0 /\ (n = 1 => L + 1 - n = L)
        BY <1>1
    <2>2. f[n][t] = IF n = 1 /\ seg.kind = "any" THEN Nil
                    ELSE FirstFound(tried, [k \in tried |-> f[n - 1][K[k]]])
        <3>1. f[n] = SearchRow(f, path, n) /\ t \in Tokens
            BY <1>1, <1>2, <2>1
        <3>2. f[n][t] = SearchRow(f, path, n)[t]
            BY <3>1
        <3> QED
            BY <2>1, <3>1, <3>2 DEF SearchRow
    <2>3. CASE n = 1 /\ any
        <3>1. f[n][t] = Nil
            BY <2>1, <2>2, <2>3
        <3>2. So(n, t) = {}
            BY <2>3 DEF Sought
        <3> QED
            BY <3>1, <3>2 DEF IsFirst
    <2>4. CASE ~(n = 1 /\ any)
        <3> DEFINE result == [k \in tried |-> f[n - 1][K[k]]]
                   S == [k \in tried |-> So(n - 1, K[k])]
        <3>1. f[n][t] = FirstFound(tried, result)
            BY <2>1, <2>2, <2>4
        <3>2. seg \in Segments
            BY <2>1
        <3>3. /\ tried \in SUBSET Nat
              /\ \A k \in tried : K[k] \in MembersIn(up, used, t) /\ Hit(pos, seg, K[k])
              /\ \A m \in MembersIn(up, used, t) :
                    Hit(pos, seg, m) => \E k \in tried : m = K[k]
              /\ \A j, k \in tried : j < k => K[j] < K[k]
            BY <1>1, <3>2, TriedRead
        <3>4. \A k \in tried : /\ result[k] = f[n - 1][K[k]] /\ S[k] = So(n - 1, K[k])
                               /\ K[k] \in 1 .. used /\ K[k] \in 0 .. used /\ up[K[k]] = t
            BY <1>1, <3>3 DEF MembersIn
        <3>5. \A c \in 0 .. used : /\ So(n - 1, c) \subseteq Nat
                                  /\ So(n - 1, c) \subseteq Led(up, pos, path, n - 1, c)
            BY <1>1 DEF Sought, Led
        <3>6. UNION {S[k] : k \in tried} = So(n, t)
            <4>1. CASE any
                <5>1. n - 1 # 0
                    BY <2>1, <2>4, <4>1
                <5>2. So(n, t) = {} /\ \A k \in tried : S[k] = {}
                    BY <2>1, <3>4, <4>1, <5>1 DEF Sought
                <5> QED
                    BY <5>2
            <4>2. CASE ~any
                <5>1. So(n, t) = Led(up, pos, path, n, t)
                      /\ \A k \in tried : S[k] = Led(up, pos, path, n - 1, K[k])
                    BY <3>4, <4>2 DEF Sought
                <5>2. \A y : y \in Led(up, pos, path, n, t) <=>
                                \E c \in MembersIn(up, used, t) :
                                    Hit(pos, seg, c) /\ y \in Led(up, pos, path, n - 1, c)
                    BY <1>1, LedNext
                <5> HIDE DEF S, tried, K, seg, So
                <5>3. ASSUME NEW y \in So(n, t) PROVE \E k \in tried : y \in S[k]
                    <6>1. PICK c \in MembersIn(up, used, t) :
                             Hit(pos, seg, c) /\ y \in Led(up, pos, path, n - 1, c)
                        BY <5>1, <5>2, <5>3
                    <6>2. PICK k \in tried : c = K[k]
                        BY <3>3, <6>1
                    <6> QED
                        BY <5>1, <6>1, <6>2
                <5>4. ASSUME NEW k \in tried, NEW y \in S[k] PROVE y \in So(n, t)
                    BY <3>3, <5>1, <5>2, <5>4
                <5> QED
                    BY <5>3, <5>4
            <4> QED
                BY <4>1, <4>2
        <3>7. ASSUME NEW j \in tried, NEW k \in tried, j < k, NEW x \in S[j], NEW y \in S[k]
              PROVE  x < y
            <4>1. x \in Led(up, pos, path, n - 1, K[j]) /\ y \in Led(up, pos, path, n - 1, K[k])
                BY <3>4, <3>5, <3>7
            <4>2. PICK v : Walk(up, pos, path, n - 1, K[j], v) /\ v[n - 1] = x
                BY <4>1 DEF Led
            <4>3. PICK w : Walk(up, pos, path, n - 1, K[k], w) /\ w[n - 1] = y
                BY <4>1 DEF Led
            <4>4. x \in Nat /\ y \in Nat
                BY <4>1 DEF Led
            <4>5. K[j] < K[k] /\ up[K[k]] < K[j]
                BY <1>1, <3>3, <3>4, <3>7
            <4> HIDE DEF K, tried, S, seg
            <4>6. x < K[k]
                <5>1. used \in Nat /\ n - 1 \in Nat /\ K[j] \in 0 .. used /\ K[k] \in 1 .. used
                    BY <1>1, <2>1, <3>4, <3>7
                <5>2. PICK c \in 0 .. used, z \in 1 .. used, i \in Nat :
                         c = K[j] /\ z = K[k] /\ i = n - 1
                    BY <5>1
                <5>3. Walk(up, pos, path, i, c, v) /\ c < z /\ up[z] < c
                    BY <4>2, <4>5, <5>2
                <5>4. v[i] < z
                    BY <5>1, <5>3, WalkBefore
                <5> QED
                    BY <4>2, <5>2, <5>4
            <4>7. K[k] <= y
                <5>1. used \in Nat /\ n - 1 \in Nat /\ K[k] \in 0 .. used
                    BY <1>1, <2>1, <3>4, <3>7
                <5>2. K[k] <= w[n - 1]
                    BY <4>3, <5>1, WalkStays
                <5> QED
                    BY <4>3, <5>2
            <4>8. K[k] \in Nat
                BY <3>4, <3>7
            <4> QED
                BY <4>4, <4>6, <4>7, <4>8
        <3>8. \A k \in tried : S[k] \subseteq Nat /\ IsFirst(result[k], S[k])
            BY <1>4, <3>4, <3>5
        <3> HIDE DEF result, S, tried
        <3>9. IsFirst(FirstFound(tried, result), UNION {S[k] : k \in tried})
            <4>1. PICK T, R, Q, U :
                     T = tried /\ R = result /\ Q = S /\ U = UNION {Q[k] : k \in T}
                OBVIOUS
            <4>2. T \in SUBSET Nat /\ \A k \in T : Q[k] \subseteq Nat /\ IsFirst(R[k], Q[k])
                BY <3>3, <3>8, <4>1
            <4>3. \A j, k \in T : j < k => \A x \in Q[j], y \in Q[k] : x < y
                BY <3>7, <4>1
            <4>4. IsFirst(FirstFound(T, R), U)
                <5>1. U = UNION {Q[k] : k \in T}
                    BY <4>1
                <5> QED
                    BY <4>2, <4>3, <5>1, FirstOfAll
            <4> QED
                BY <4>1, <4>4
        <3> QED
            BY <3>1, <3>6, <3>9
    <2> QED
        BY <2>3, <2>4
<1> HIDE DEF Finds
<1>5. Bad = {}
    <2> SUFFICES ASSUME Bad # {} PROVE FALSE
        OBVIOUS
    <2>1. PICK n \in Bad : \A x \in Bad : n <= x
        <3>1. Bad \in SUBSET Nat
            OBVIOUS
        <3> HIDE DEF Bad
        <3> QED
            BY <3>1, Least
    <2>2. CASE n = 0
        BY <1>3, <2>1, <2>2
    <2>3. CASE n # 0
        <3>1. n \in 1 .. L /\ n - 1 \in 0 .. L /\ n - 1 < n /\ ~(n <= n - 1)
            BY <1>1, <2>1, <2>3
        <3>2. Finds(n - 1)
            BY <2>1, <3>1
        <3> QED
            BY <1>4, <2>1, <3>1, <3>2
    <2> QED
        BY <2>2, <2>3
<1>6. Finds(L)
    <2>1. L \in 0 .. L
        BY <1>1
    <2> QED
        BY <1>5, <2>1
<1> QED
    BY <1>2, <1>6 DEF Finds

\* A path leads to the same values in the text.
LEMMA ReachedRead ==
    ASSUME used \in Nat, NEW up, NEW pos, TextTree(up, pos), NEW path, Len(path) \in Nat \ {0},
           NEW t \in 0 .. used, NEW led, led = Led(up, pos, path, Len(path), t), NEW at
    PROVE  at \in Reached(Parents, pos[t], path) <=> \E m \in led : at = pos[m]
<1> DEFINE L == Len(path)
           D == DOMAIN Parents
           Step(w, n) == /\ Parents[w[n]] = IF n = 1 THEN pos[t] ELSE w[n - 1]
                         /\ Matches(Parents, path[n], w[n])
           InWalks(w) == w \in [1 .. L -> D] /\ \A n \in 1 .. L : Step(w, n)
<1>1. /\ L \in Nat /\ L \in 1 .. L /\ L \in 0 .. L /\ D = {pos[x] : x \in 1 .. used}
      /\ \A x \in 1 .. used : Parents[pos[x]] = pos[up[x]] /\ up[x] \in 0 .. used /\ TokenOf(pos[x]) = x
      /\ \A x, y \in 0 .. used : pos[x] = pos[y] => x = y
    BY DEF TextTree
<1>2. Reached(Parents, pos[t], path) = {w[L] : w \in {w \in [1 .. L -> D] : \A n \in 1 .. L : Step(w, n)}}
    BY DEF Reached
<1>3. ASSUME NEW w, InWalks(w) PROVE \E m \in Led(up, pos, path, L, t) : w[L] = pos[m]
    <2> DEFINE v == [i \in 0 .. L |-> IF i = 0 THEN t ELSE TokenOf(w[i])]
    <2>1. /\ v[0] = t
          /\ \A i \in 1 .. L : v[i] = TokenOf(w[i])
        BY <1>1
    <2>2. \A i \in 1 .. L : TokenOf(w[i]) \in 1 .. used /\ w[i] = pos[TokenOf(w[i])]
        <3> SUFFICES ASSUME NEW i \in 1 .. L
                     PROVE  TokenOf(w[i]) \in 1 .. used /\ w[i] = pos[TokenOf(w[i])]
            OBVIOUS
        <3>1. w[i] \in D
            BY <1>3
        <3>2. PICK x \in 1 .. used : w[i] = pos[x]
            BY <1>1, <3>1
        <3>3. TokenOf(pos[x]) = x
            BY <1>1, <3>2
        <3> QED
            BY <3>2, <3>3
    <2>3. v \in [0 .. L -> 0 .. used]
        <3>1. \A i \in 1 .. L : TokenOf(w[i]) \in 0 .. used
            BY <2>2
        <3> QED
            BY <3>1
    <2> HIDE DEF v
    <2>4. ASSUME NEW i \in 1 .. L
          PROVE  v[i] \in MembersIn(up, used, v[i - 1]) /\ Hit(pos, path[L - L + i], v[i])
        <3>1. v[i] \in 1 .. used /\ w[i] = pos[v[i]] /\ L - L + i = i
            BY <1>1, <2>1, <2>2
        <3>2. Step(w, i)
            BY <1>3
        <3>3. Parents[w[i]] = pos[v[i - 1]] /\ v[i - 1] \in 0 .. used
            <4>1. CASE i = 1
                <5>1. i - 1 = 0
                    BY <4>1
                <5> QED
                    BY <2>1, <3>2, <4>1, <5>1
            <4>2. CASE i # 1
                <5>1. i - 1 \in 1 .. L
                    BY <1>1, <4>2
                <5>2. w[i - 1] = pos[v[i - 1]] /\ v[i - 1] \in 0 .. used
                    <6>1. v[i - 1] = TokenOf(w[i - 1])
                        BY <2>1, <5>1
                    <6>2. /\ TokenOf(w[i - 1]) \in 1 .. used
                          /\ w[i - 1] = pos[TokenOf(w[i - 1])]
                        BY <2>2, <5>1
                    <6> QED
                        BY <6>1, <6>2
                <5> QED
                    BY <3>2, <4>2, <5>2
            <4> QED
                BY <4>1, <4>2
        <3>4. up[v[i]] = v[i - 1]
            <4>1. Parents[pos[v[i]]] = pos[up[v[i]]] /\ up[v[i]] \in 0 .. used
                BY <1>1, <3>1
            <4>2. pos[up[v[i]]] = pos[v[i - 1]]
                BY <3>1, <3>3, <4>1
            <4>3. \A x, y \in 0 .. used : pos[x] = pos[y] => x = y
                BY <1>1
            <4> QED
                BY <3>3, <4>1, <4>2, <4>3
        <3> QED
            BY <3>1, <3>2, <3>4 DEF MembersIn, Hit
    <2>5. Walk(up, pos, path, L, t, v)
        BY <2>1, <2>3, <2>4 DEF Walk
    <2>6. v[L] \in 0 .. used /\ w[L] = pos[v[L]]
        BY <1>1, <2>1, <2>2, <2>3
    <2> QED
        BY <2>5, <2>6 DEF Led
<1>4. ASSUME NEW m \in Led(up, pos, path, L, t) PROVE \E w : InWalks(w) /\ w[L] = pos[m]
    <2>1. PICK v : Walk(up, pos, path, L, t, v) /\ v[L] = m
        BY <1>4 DEF Led
    <2> DEFINE w == [i \in 1 .. L |-> pos[v[i]]]
    <2>2. \A i \in 1 .. L : /\ w[i] = pos[v[i]] /\ v[i] \in 1 .. used /\ up[v[i]] = v[i - 1]
                            /\ Hit(pos, path[L - L + i], v[i]) /\ L - L + i = i
        BY <1>1, <2>1 DEF Walk, MembersIn
    <2>3. w \in [1 .. L -> D]
        BY <1>1, <2>2
    <2> HIDE DEF w
    <2>4. ASSUME NEW i \in 1 .. L PROVE Step(w, i)
        <3>1. Matches(Parents, path[i], w[i])
            BY <2>2 DEF Hit
        <3>2. Parents[w[i]] = pos[v[i - 1]]
            <4>1. w[i] = pos[v[i]] /\ v[i] \in 1 .. used /\ up[v[i]] = v[i - 1]
                BY <2>2
            <4>2. Parents[pos[v[i]]] = pos[up[v[i]]]
                BY <1>1, <4>1
            <4> QED
                BY <4>1, <4>2
        <3>3. CASE i = 1
            <4>1. v[i - 1] = t
                BY <2>1, <3>3 DEF Walk
            <4> QED
                BY <3>1, <3>2, <3>3, <4>1
        <3>4. CASE i # 1
            <4>1. i - 1 \in 1 .. L
                BY <1>1, <3>4
            <4> QED
                BY <2>2, <3>1, <3>2, <3>4, <4>1
        <3> QED
            BY <3>3, <3>4
    <2>5. w[L] = pos[m]
        BY <1>1, <2>1, <2>2
    <2> QED
        BY <2>3, <2>4, <2>5
<1>5. \A x : x \in Reached(Parents, pos[t], path) <=> \E w : InWalks(w) /\ w[L] = x
    BY <1>2
<1> HIDE DEF InWalks, L
<1> QED
    BY <1>3, <1>4, <1>5 DEF L

\* What FindsFirstMatch asks for: the values at the ends of the walks, and the
\* first of them.
Hits(from, path) ==
    IF path[Len(path)].kind = "any" THEN {} ELSE Reached(Parents, from, path)
FirstHit(from, path) ==
    CHOOSE i \in Hits(from, path) : \A j \in Hits(from, path) : i <= j

\* The search, seen from the text.
LEMMA FindsIt ==
    ASSUME used \in 0 .. TokLen, parsed, NEW up, NEW pos, TextTree(up, pos),
           NEW from \in Values, NEW path \in Paths
    PROVE  IF Hits(from, path) = {} THEN FindEx(TokenOf(from), path) = Nil
           ELSE \E p \in 0 .. used :
                   /\ FindEx(TokenOf(from), path) = p /\ TokenOf(pos[p]) = p
                   /\ tok[p].type = TypeOf(pos[p])
                   /\ pos[p] = FirstHit(from, path)
<1> DEFINE L == Len(path)
           hits == Hits(from, path)
<1>1. used \in Nat
    BY BoundsAssumption
<1>2. L \in Nat \ {0} /\ \A i \in 1 .. L : path[i] \in Segments
    <2>1. PICK n \in 1 .. MaxPath : path \in [1 .. n -> Segments]
        BY DEF Paths
    <2>2. n \in Nat \ {0}
        BY <2>1, BoundsAssumption
    <2>3. path \in Seq(Segments)
        BY <2>1, <2>2, SeqDef
    <2>4. L = n
        BY <2>1, <2>2, <2>3, LenProperties
    <2> QED
        BY <2>1, <2>2, <2>4
<1>3. /\ Values = {pos[x] : x \in 0 .. used} /\ pos \in [0 .. used -> Nat]
      /\ \A x, y \in 0 .. used : /\ pos[x] < pos[y] <=> x < y
                                 /\ pos[x] = pos[y] => x = y
      /\ \A x \in 0 .. used : TokenOf(pos[x]) = x /\ tok[x].type = TypeOf(pos[x])
      /\ \A x \in 1 .. used : Opens(pos[up[x]])
    BY DEF TextTree
<1>4. PICK t \in 0 .. used : t = TokenOf(from) /\ from = pos[t]
    BY <1>3
<1> DEFINE S == Sought(up, pos, path, L, t)
<1> HIDE DEF L
<1>5. hits = {pos[m] : m \in S}
    <2>1. CASE path[L].kind = "any"
        BY <1>2, <2>1 DEF Sought, L, Hits
    <2>2. CASE path[L].kind # "any"
        <3>1. Reached(Parents, pos[t], path) = {pos[m] : m \in Led(up, pos, path, L, t)}
            <4>1. Len(path) \in Nat \ {0}
                BY <1>2 DEF L
            <4>2. PICK led : led = Led(up, pos, path, Len(path), t)
                OBVIOUS
            <4>3. ASSUME NEW at
                  PROVE  at \in Reached(Parents, pos[t], path) <=> \E m \in led : at = pos[m]
                BY <1>1, <4>1, <4>2, ReachedRead, SMTT(40)
            <4> QED
                BY <4>2, <4>3 DEF L
        <3> QED
            BY <1>4, <2>2, <3>1 DEF Sought, L, Hits
    <2> QED
        BY <2>1, <2>2
<1>6. IsFirst(FindEx(t, path), S)
    <2>1. CASE tok[t].type \in {"object", "array"}
        BY <1>2, <1>4, <2>1, FindsFirst DEF FindEx, L
    <2>2. CASE tok[t].type \notin {"object", "array"}
        <3>1. MembersIn(up, used, t) = {}
            <4>1. ~Opens(pos[t])
                BY <1>3, <1>4, <2>2 DEF TypeOf, Opens
            <4> QED
                BY <1>3, <4>1 DEF MembersIn
        <3>2. L \in 1 .. L
            BY <1>2
        <3>3. Led(up, pos, path, L, t) = {}
            BY <1>1, <1>2, <1>4, <3>1, <3>2, LedNext DEF L
        <3>4. S = {} /\ FindEx(t, path) = Nil
            BY <2>2, <3>3 DEF Sought, FindEx
        <3> QED
            BY <3>4 DEF IsFirst
    <2> QED
        BY <2>1, <2>2
<1>7. S \subseteq 0 .. used
    BY DEF Sought, Led
<1> HIDE DEF S, hits
<1>8. CASE S = {}
    <2>1. hits = {}
        BY <1>5, <1>8
    <2>2. FindEx(TokenOf(from), path) = Nil
        BY <1>4, <1>6, <1>8 DEF IsFirst
    <2> QED
        BY <2>1, <2>2 DEF hits
<1>9. CASE S # {}
    <2>1. PICK p \in S : FindEx(t, path) = p /\ \A m \in S : p <= m
        BY <1>6, <1>9 DEF IsFirst
    <2>2. p \in 0 .. used /\ pos[p] \in hits
        BY <1>5, <1>7, <2>1
    <2>3. ASSUME NEW j \in hits PROVE pos[p] <= j
        <3>1. PICK m \in S : j = pos[m]
            BY <1>5
        <3>2. m \in 0 .. used /\ p <= m /\ pos[p] \in Nat /\ pos[m] \in Nat
            BY <1>3, <1>7, <2>1, <2>2
        <3>3. ~(pos[m] < pos[p])
            BY <1>3, <2>2, <3>2
        <3> QED
            BY <3>1, <3>2, <3>3
    <2>4. ASSUME NEW i \in hits, \A j \in hits : i <= j PROVE i = pos[p]
        <3>1. i <= pos[p] /\ pos[p] <= i
            BY <2>2, <2>3, <2>4
        <3>2. i \in Nat /\ pos[p] \in Nat
            BY <1>3, <1>5, <1>7, <2>2
        <3> QED
            BY <3>1, <3>2
    <2>5. pos[p] = CHOOSE i \in hits : \A j \in hits : i <= j
        BY <2>2, <2>3, <2>4
    <2>6. hits # {}
        BY <2>2
    <2>7. pos[p] = FirstHit(from, path)
        BY <2>5 DEF FirstHit, hits
    <2> QED
        BY <1>3, <1>4, <2>1, <2>2, <2>6, <2>7 DEF hits
<1> QED
    BY <1>8, <1>9

-----------------------------------------------------------------------------

\* The tokens stay what lwjson.h:94-122 declares, with at most TokLen of them
\* used (lwjson.c:474-481).
THEOREM TypeCorrect == Spec => []TypeOK
<1>1. IInv => TypeOK
    BY DEF IInv
<1> QED
    BY <1>1, Inductive, PTL

\* After a parse that succeeds the tokens are the tree of the text, whatever
\* was parsed with them before (lwjson.c:55-61, 532-549, 570-592).
THEOREM BuildsTree == Spec => []TreeOfText
<1>1. IInv => TreeOfText
    <2> SUFFICES ASSUME IInv, Accepted PROVE TreeOfText
        BY DEF TreeOfText
    <2> QED
        BY AtRest, TreeRead
<1> QED
    BY <1>1, Inductive, PTL

\* No text that is JSON is refused but for want of memory, whatever was parsed
\* before (lwjson.c:474-481).
THEOREM AcceptsJson == Spec => []JsonAccepted
<1>1. IInv => JsonAccepted
    BY DEF IInv
<1> QED
    BY <1>1, Inductive, PTL

\* The search finds the first value that a path leads to, in the text, and the
\* typed search the same by its type (lwjson.c:360-430, 737-749,
\* pk_lwjson.c:30-52).
THEOREM FindsInText == Spec => []FindsFirstMatch
<1>1. IInv => FindsFirstMatch
    <2> SUFFICES ASSUME IInv, Accepted PROVE FindsFirstMatch
        BY DEF FindsFirstMatch
    <2>1. PICK up, pos : TextTree(up, pos)
        BY AtRest
    <2>2. used \in 0 .. TokLen /\ used \in Nat /\ TokLen \in Nat
        BY UsedIsNat, BoundsAssumption DEF IInv, TypeOK
    <2> SUFFICES ASSUME NEW from \in Values, NEW path \in Paths
                 PROVE  LET hits == IF path[Len(path)].kind = "any" THEN {}
                                    ELSE Reached(Parents, from, path)
                            first == CHOOSE i \in hits : \A j \in hits : i <= j
                            t == TokenOf(from)
                        IN  /\ FindEx(t, path) = IF hits = {} THEN Nil ELSE TokenOf(first)
                            /\ \A nullable \in BOOLEAN :
                                  /\ Findt(t, path, "any", nullable) # Nil <=> hits # {}
                                  /\ Findt(t, path, "true", nullable) # Nil <=>
                                        /\ hits # {}
                                        /\ Kind(first) \in {"true", "false"}
                                              \cup (IF nullable THEN {"null"} ELSE {})
        BY DEF FindsFirstMatch
    <2> DEFINE hits == IF path[Len(path)].kind = "any" THEN {} ELSE Reached(Parents, from, path)
               first == CHOOSE i \in hits : \A j \in hits : i <= j
               t == TokenOf(from)
    <2>3. hits = Hits(from, path) /\ first = FirstHit(from, path)
        BY DEF Hits, FirstHit
    <2> HIDE DEF hits, first, t
    <2>0. parsed
        BY DEF Accepted
    <2>4. IF hits = {} THEN FindEx(t, path) = Nil
          ELSE \E p \in 0 .. used : /\ FindEx(t, path) = p /\ TokenOf(pos[p]) = p
                                    /\ tok[p].type = TypeOf(pos[p]) /\ pos[p] = first
        BY <2>0, <2>1, <2>2, <2>3, FindsIt DEF t
    <2>5. CASE hits = {}
        BY <2>4, <2>5 DEF Findt, hits, first, t
    <2>6. CASE hits # {}
        <3>1. PICK p \in 0 .. used : /\ FindEx(t, path) = p /\ TokenOf(first) = p
                                     /\ tok[p].type = TypeOf(first)
            BY <2>4, <2>6
        <3>2. p # Nil
            BY <2>2, <3>1 DEF Nil
        <3>3. FindEx(t, path) = TokenOf(first)
            BY <3>1
        <3>4. ASSUME NEW nullable \in BOOLEAN
              PROVE  /\ Findt(t, path, "any", nullable) # Nil
                     /\ Findt(t, path, "true", nullable) # Nil <=>
                        Kind(first) \in {"true", "false"} \cup (IF nullable THEN {"null"} ELSE {})
            <4>1. /\ tok[p].type = "true" <=> Kind(first) = "true"
                  /\ tok[p].type = "false" <=> Kind(first) = "false"
                  /\ tok[p].type = "null" <=> Kind(first) = "null"
                BY <3>1 DEF TypeOf
            <4>2. Findt(t, path, "true", nullable) # Nil <=>
                     tok[p].type = "true" \/ (nullable /\ tok[p].type = "null") \/ tok[p].type = "false"
                BY <3>1, <3>2 DEF Findt
            <4>3. Findt(t, path, "any", nullable) # Nil
                BY <3>1, <3>2 DEF Findt
            <4> QED
                BY <4>1, <4>2, <4>3
        <3> QED
            BY <2>6, <3>3, <3>4 DEF hits, first, t
    <2> QED
        BY <2>5, <2>6
<1> QED
    BY <1>1, Inductive, PTL

=============================================================================

---------------------------- MODULE SequenceFacts ---------------------------
(***************************************************************************)
(* Facts about FlattenSeq and about what is done with each member of a     *)
(* sequence, about the least and greatest of a set of numbers, and         *)
(* induction over numbers and sequences in the form the proofs use: of a   *)
(* set, not of a formula.                                                  *)
(***************************************************************************)
EXTENDS Naturals, SequencesExt, SequenceTheorems, WellFoundedInduction, TLAPS

\* A set that contains 0 and, with a number, its successor contains them all.
LEMMA InductionOverNat ==
  ASSUME NEW S, 0 \in S, \A n \in Nat : n \in S => n + 1 \in S
  PROVE  Nat \subseteq S
<1> DEFINE T == Nat \ S
<1> SUFFICES ASSUME T # {}
             PROVE  FALSE
  OBVIOUS
<1>1. PICK n \in T : \A m \in T : ~ (<<m, n>> \in OpToRel(<, Nat))
  <2>1. T \subseteq Nat
    OBVIOUS
  <2> HIDE DEF T
  <2> QED
    BY <2>1, NatLessThanWellFounded, WFMin
<1>2. \A m \in Nat : m < n => m \in S
  BY <1>1 DEF OpToRel
<1>3. n # 0 /\ n \in Nat /\ n \notin S
  OBVIOUS
<1>4. n - 1 \in S /\ n - 1 \in Nat
  BY <1>2, <1>3
<1>5. (n - 1) + 1 = n
  BY <1>3
<1> QED
  BY <1>3, <1>4, <1>5

-----------------------------------------------------------------------------
(* FlattenSeq takes the last value of a function that is defined by        *)
(* recursion over the sequence: f[i] is its first i members, concatenated. *)
Flattens(f, seqs, n) ==
  f = [i \in 1..n |-> IF i = 1 THEN seqs[i] ELSE f[i - 1] \o seqs[i]]

\* There is such a function for any number of members.
LEMMA FlatteningExists ==
  ASSUME NEW seqs, NEW m \in Nat
  PROVE  \E f : Flattens(f, seqs, m)
<1> DEFINE Done == {n \in Nat : \E f : Flattens(f, seqs, n)}
<1>1. 0 \in Done
  <2> DEFINE none == [i \in 1..0 |-> seqs[i]]
  <2>1. none = [i \in 1..0 |-> IF i = 1 THEN seqs[i] ELSE none[i - 1] \o seqs[i]]
    OBVIOUS
  <2>2. Flattens(none, seqs, 0)
    BY <2>1 DEF Flattens
  <2> QED
    BY <2>2
<1>2. ASSUME NEW n \in Nat, n \in Done
      PROVE  n + 1 \in Done
  <2>1. PICK f : Flattens(f, seqs, n)
    BY <1>2
  <2> DEFINE g == [i \in 1..n + 1 |->
                     IF i <= n THEN f[i]
                     ELSE IF i = 1 THEN seqs[i] ELSE f[i - 1] \o seqs[i]]
  <2>2. ASSUME NEW i \in 1..n + 1
        PROVE  g[i] = IF i = 1 THEN seqs[i] ELSE g[i - 1] \o seqs[i]
    <3>1. i # 1 => i - 1 \in 1..n + 1 /\ i - 1 <= n
      OBVIOUS
    <3>2. i # 1 => g[i - 1] = f[i - 1]
      BY <3>1
    <3>3. CASE i <= n
      <4>1. i \in 1..n
        BY <3>3
      <4>2. f[i] = IF i = 1 THEN seqs[i] ELSE f[i - 1] \o seqs[i]
        BY <4>1, <2>1 DEF Flattens
      <4> QED
        BY <3>2, <3>3, <4>2
    <3>4. CASE ~(i <= n)
      BY <3>2, <3>4
    <3> QED
      BY <3>3, <3>4
  <2>3. g = [i \in 1..n + 1 |-> g[i]]
    OBVIOUS
  <2>4. Flattens(g, seqs, n + 1)
    <3> HIDE DEF g
    <3> QED
      BY <2>2, <2>3 DEF Flattens
  <2> HIDE DEF g
  <2> QED
    BY <2>4
<1>3. Nat \subseteq Done
  <2> HIDE DEF Done
  <2> QED
    BY <1>1, <1>2, InductionOverNat
<1> QED
  BY <1>3

\* FlattenSeq is the last value of one.
LEMMA FlattenIsLast ==
  ASSUME NEW S, NEW seqs \in Seq(S), seqs # <<>>
  PROVE  \E f : Flattens(f, seqs, Len(seqs)) /\ FlattenSeq(seqs) = f[Len(seqs)]
<1>1. Len(seqs) \in Nat /\ Len(seqs) # 0
  BY EmptySeq
<1> DEFINE flat == CHOOSE f : Flattens(f, seqs, Len(seqs))
<1>2. Flattens(flat, seqs, Len(seqs))
  <2>1. \E f : Flattens(f, seqs, Len(seqs))
    BY <1>1, FlatteningExists
  <2> QED
    BY <2>1
<1>3. FlattenSeq(seqs) = flat[Len(seqs)]
  BY <1>1 DEF FlattenSeq, Flattens
<1> HIDE DEF flat
<1> QED
  BY <1>2, <1>3

\* Nothing flattens to nothing.
LEMMA FlattenEmpty == FlattenSeq(<<>>) = <<>>
BY DEF FlattenSeq

\* Sequences over S flatten to a sequence over S.
LEMMA FlattenType ==
  ASSUME NEW S, NEW seqs \in Seq(Seq(S))
  PROVE  FlattenSeq(seqs) \in Seq(S)
<1>1. CASE seqs = <<>>
  BY <1>1, FlattenEmpty, EmptySeq
<1>2. CASE seqs # <<>>
  <2>1. PICK f : Flattens(f, seqs, Len(seqs)) /\ FlattenSeq(seqs) = f[Len(seqs)]
    BY <1>2, FlattenIsLast
  <2> DEFINE Typed == {k \in Nat : k \in 1..Len(seqs) => f[k] \in Seq(S)}
  <2>2. 0 \in Typed
    OBVIOUS
  <2>3. ASSUME NEW k \in Nat, k \in Typed
        PROVE  k + 1 \in Typed
    <3> SUFFICES ASSUME k + 1 \in 1..Len(seqs)
                 PROVE  f[k + 1] \in Seq(S)
      OBVIOUS
    <3>1. f[k + 1] = IF k + 1 = 1 THEN seqs[k + 1] ELSE f[(k + 1) - 1] \o seqs[k + 1]
      BY <2>1 DEF Flattens
    <3>2. (k + 1) - 1 = k /\ seqs[k + 1] \in Seq(S)
      BY ElementOfSeq
    <3>3. k + 1 # 1 => f[k] \in Seq(S)
      BY <2>3
    <3> QED
      BY <3>1, <3>2, <3>3, ConcatProperties
  <2>4. Nat \subseteq Typed
    <3> HIDE DEF Typed
    <3> QED
      BY <2>2, <2>3, InductionOverNat
  <2>5. Len(seqs) \in Nat /\ Len(seqs) \in 1..Len(seqs)
    BY <1>2, EmptySeq
  <2> QED
    BY <2>1, <2>4, <2>5
<1> QED
  BY <1>1, <1>2

\* A member that is appended comes last.
LEMMA FlattenAppend ==
  ASSUME NEW S, NEW seqs \in Seq(Seq(S)), NEW s \in Seq(S)
  PROVE  FlattenSeq(Append(seqs, s)) = FlattenSeq(seqs) \o s
<1> DEFINE more == Append(seqs, s)
           n == Len(seqs)
<1>1. /\ more \in Seq(Seq(S)) /\ more # <<>> /\ Len(more) = n + 1
      /\ \A i \in 1..n : more[i] = seqs[i]
      /\ more[n + 1] = s /\ n \in Nat
  BY AppendProperties
<1> HIDE DEF more
<1>2. PICK g : Flattens(g, more, n + 1) /\ FlattenSeq(more) = g[n + 1]
  <2>1. \E g : Flattens(g, more, Len(more)) /\ FlattenSeq(more) = g[Len(more)]
    BY <1>1, FlattenIsLast
  <2> QED
    BY <1>1, <2>1
<1>3. g[n + 1] = IF n + 1 = 1 THEN more[n + 1] ELSE g[(n + 1) - 1] \o more[n + 1]
  <2>1. n + 1 \in 1..n + 1
    BY <1>1
  <2> QED
    BY <1>2, <2>1 DEF Flattens
<1>4. CASE seqs = <<>>
  <2>1. n = 0 /\ FlattenSeq(seqs) = <<>>
    BY <1>4, FlattenEmpty
  <2>2. <<>> \o s = s
    BY ConcatEmptySeq
  <2> QED
    BY <1>1, <1>2, <1>3, <2>1, <2>2 DEF more
<1>5. CASE seqs # <<>>
  <2>1. PICK f : Flattens(f, seqs, n) /\ FlattenSeq(seqs) = f[n]
    BY <1>5, FlattenIsLast
  <2>2. n \in 1..n /\ n + 1 # 1 /\ (n + 1) - 1 = n
    BY <1>5, EmptySeq
  <2>3. \A i \in 1..n : f[i] = g[i]
    <3> DEFINE Same == {k \in Nat : k \in 1..n => f[k] = g[k]}
    <3>1. 0 \in Same
      OBVIOUS
    <3>2. ASSUME NEW k \in Nat, k \in Same
          PROVE  k + 1 \in Same
      <4> SUFFICES ASSUME k + 1 \in 1..n
                   PROVE  f[k + 1] = g[k + 1]
        OBVIOUS
      <4>1. k + 1 \in 1..n + 1
        OBVIOUS
      <4>2. f[k + 1] = IF k + 1 = 1 THEN seqs[k + 1] ELSE f[(k + 1) - 1] \o seqs[k + 1]
        BY <2>1 DEF Flattens
      <4>3. g[k + 1] = IF k + 1 = 1 THEN more[k + 1] ELSE g[(k + 1) - 1] \o more[k + 1]
        BY <1>2, <4>1 DEF Flattens
      <4>4. (k + 1) - 1 = k /\ seqs[k + 1] = more[k + 1]
        BY <1>1
      <4>5. k + 1 # 1 => k \in 1..n
        OBVIOUS
      <4>6. k + 1 # 1 => f[k] = g[k]
        BY <3>2, <4>5
      <4> QED
        BY <4>2, <4>3, <4>4, <4>6
    <3>3. Nat \subseteq Same
      <4> HIDE DEF Same
      <4> QED
        BY <3>1, <3>2, InductionOverNat
    <3> QED
      BY <3>3
  <2> QED
    BY <1>1, <1>2, <1>3, <2>1, <2>2, <2>3 DEF more
<1> QED
  BY <1>4, <1>5

LEMMA FlattenOne ==
  ASSUME NEW S, NEW s \in Seq(S)
  PROVE  FlattenSeq(<<s>>) = s
<1>1. <<s>> = Append(<<>>, s) /\ <<>> \in Seq(Seq(S))
  OBVIOUS
<1>2. FlattenSeq(Append(<<>>, s)) = FlattenSeq(<<>>) \o s
  BY <1>1, FlattenAppend
<1>3. <<>> \o s = s
  BY ConcatEmptySeq
<1> QED
  BY <1>1, <1>2, <1>3, FlattenEmpty

\* The case the WebSocket tunnel needs.
Five(a, b, c, d, e) == FlattenSeq(<<a, b, c, d, e>>) = (((a \o b) \o c) \o d) \o e

LEMMA FlattenFive ==
  ASSUME NEW S, NEW a \in Seq(S), NEW b \in Seq(S), NEW c \in Seq(S),
         NEW d \in Seq(S), NEW e \in Seq(S)
  PROVE  Five(a, b, c, d, e)
<1>1. <<a>> = Append(<<>>, a) /\ <<>> \in Seq(Seq(S)) /\ <<a>> \in Seq(Seq(S))
  OBVIOUS
<1>2. <<a, b>> = Append(<<a>>, b) /\ <<a, b>> \in Seq(Seq(S))
  <2>1. Append(<<a>>, b) \in Seq(Seq(S)) /\ <<a, b>> \in Seq(Seq(S))
    OBVIOUS
  <2>2. \A i \in 1..2 : Append(<<a>>, b)[i] = <<a, b>>[i]
    OBVIOUS
  <2>3. Len(Append(<<a>>, b)) = 2 /\ Len(<<a, b>>) = 2
    OBVIOUS
  <2> QED
    BY <2>1, <2>2, <2>3, SeqEqual
<1>3. <<a, b, c>> = Append(<<a, b>>, c) /\ <<a, b, c>> \in Seq(Seq(S))
  <2>1. Append(<<a, b>>, c) \in Seq(Seq(S)) /\ <<a, b, c>> \in Seq(Seq(S))
    OBVIOUS
  <2>2. \A i \in 1..3 : Append(<<a, b>>, c)[i] = <<a, b, c>>[i]
    OBVIOUS
  <2>3. Len(Append(<<a, b>>, c)) = 3 /\ Len(<<a, b, c>>) = 3
    OBVIOUS
  <2> QED
    BY <2>1, <2>2, <2>3, SeqEqual
<1>4. <<a, b, c, d>> = Append(<<a, b, c>>, d) /\ <<a, b, c, d>> \in Seq(Seq(S))
  <2>1. Append(<<a, b, c>>, d) \in Seq(Seq(S)) /\ <<a, b, c, d>> \in Seq(Seq(S))
    OBVIOUS
  <2>2. \A i \in 1..4 : Append(<<a, b, c>>, d)[i] = <<a, b, c, d>>[i]
    OBVIOUS
  <2>3. Len(Append(<<a, b, c>>, d)) = 4 /\ Len(<<a, b, c, d>>) = 4
    OBVIOUS
  <2> QED
    BY <2>1, <2>2, <2>3, SeqEqual
<1>5. <<a, b, c, d, e>> = Append(<<a, b, c, d>>, e)
  <2>1. Append(<<a, b, c, d>>, e) \in Seq(Seq(S)) /\ <<a, b, c, d, e>> \in Seq(Seq(S))
    OBVIOUS
  <2>2. \A i \in 1..5 : Append(<<a, b, c, d>>, e)[i] = <<a, b, c, d, e>>[i]
    OBVIOUS
  <2>3. Len(Append(<<a, b, c, d>>, e)) = 5 /\ Len(<<a, b, c, d, e>>) = 5
    OBVIOUS
  <2> QED
    BY <2>1, <2>2, <2>3, SeqEqual
<1>6. FlattenSeq(<<a>>) = a
  <2>1. FlattenSeq(Append(<<>>, a)) = FlattenSeq(<<>>) \o a
    BY <1>1, FlattenAppend
  <2>2. <<>> \o a = a
    BY ConcatEmptySeq
  <2> QED
    BY <1>1, <2>1, <2>2, FlattenEmpty
<1>7. FlattenSeq(<<a, b>>) = a \o b
  <2>1. FlattenSeq(Append(<<a>>, b)) = FlattenSeq(<<a>>) \o b
    BY <1>1, FlattenAppend
  <2> QED
    BY <1>2, <1>6, <2>1
<1>8. FlattenSeq(<<a, b, c>>) = (a \o b) \o c
  <2>1. FlattenSeq(Append(<<a, b>>, c)) = FlattenSeq(<<a, b>>) \o c
    BY <1>2, FlattenAppend
  <2> QED
    BY <1>3, <1>7, <2>1
<1>9. FlattenSeq(<<a, b, c, d>>) = ((a \o b) \o c) \o d
  <2>1. FlattenSeq(Append(<<a, b, c>>, d)) = FlattenSeq(<<a, b, c>>) \o d
    BY <1>3, FlattenAppend
  <2> QED
    BY <1>4, <1>8, <2>1
<1>10. FlattenSeq(Append(<<a, b, c, d>>, e)) = FlattenSeq(<<a, b, c, d>>) \o e
  BY <1>4, FlattenAppend
<1> QED
  BY <1>5, <1>9, <1>10 DEF Five

-----------------------------------------------------------------------------
(* Sequences, member by member.                                            *)

\* Concatenation does not mind how it is grouped.
Regroups(s, t, u) == (s \o t) \o u = s \o (t \o u)

LEMMA Regrouped ==
  ASSUME NEW S, NEW s \in Seq(S), NEW t \in Seq(S), NEW u \in Seq(S)
  PROVE  Regroups(s, t, u)
BY ConcatAssociative DEF Regroups

\* A set that contains the empty sequence and, with a sequence, each one that
\* is longer by a member contains them all.
LEMMA InductionOverSeq ==
  ASSUME NEW S, NEW P, <<>> \in P,
         \A s \in Seq(S), x \in S : s \in P => Append(s, x) \in P
  PROVE  Seq(S) \subseteq P
<1> DEFINE Done == {n \in Nat : \A s \in Seq(S) : Len(s) = n => s \in P}
<1>1. 0 \in Done
  BY EmptySeq
<1>2. ASSUME NEW n \in Nat, n \in Done
      PROVE  n + 1 \in Done
  <2> SUFFICES ASSUME NEW s \in Seq(S), Len(s) = n + 1
               PROVE  s \in P
    OBVIOUS
  <2>1. s # <<>>
    BY EmptySeq
  <2>2. PICK front \in Seq(S), x \in S : s = Append(front, x)
    BY <2>1, SequenceEmptyOrAppend
  <2>3. Len(front) = n
    BY <2>2, AppendProperties, LenProperties
  <2> QED
    BY <1>2, <2>2, <2>3
<1>3. Nat \subseteq Done
  <2> HIDE DEF Done
  <2> QED
    BY <1>1, <1>2, InductionOverNat
<1> QED
  BY <1>3, LenProperties

\* What is appended is added to the members.
LEMMA ToSetAppend ==
  ASSUME NEW S, NEW s \in Seq(S), NEW x \in S
  PROVE  ToSet(Append(s, x)) = ToSet(s) \union {x}
<1> DEFINE t == Append(s, x)
<1>1. /\ Len(s) \in Nat /\ DOMAIN s = 1..Len(s) /\ DOMAIN t = 1..Len(s) + 1
      /\ \A i \in 1..Len(s) : t[i] = s[i]
      /\ t[Len(s) + 1] = x
  BY LenProperties, AppendProperties
<1> HIDE DEF t
<1>2. ASSUME NEW y \in ToSet(t)
      PROVE  y \in ToSet(s) \union {x}
  <2>1. PICK i \in 1..Len(s) + 1 : y = t[i]
    BY <1>1 DEF ToSet
  <2>2. CASE i = Len(s) + 1
    BY <1>1, <2>1, <2>2
  <2>3. CASE i \in 1..Len(s)
    BY <1>1, <2>1, <2>3 DEF ToSet
  <2> QED
    BY <1>1, <2>1, <2>2, <2>3
<1>3. ASSUME NEW y \in ToSet(s)
      PROVE  y \in ToSet(t)
  <2>1. PICK i \in 1..Len(s) : y = s[i]
    BY <1>1 DEF ToSet
  <2>2. i \in DOMAIN t /\ y = t[i]
    BY <1>1, <2>1
  <2> QED
    BY <2>2 DEF ToSet
<1>4. x \in ToSet(t)
  <2>1. Len(s) + 1 \in DOMAIN t /\ x = t[Len(s) + 1]
    BY <1>1
  <2> QED
    BY <2>1 DEF ToSet
<1> QED
  BY <1>2, <1>3, <1>4 DEF t

\* The sequences that f makes of the members, one behind the other.
Each(f, s) == FlattenSeq([i \in DOMAIN s |-> f[s[i]]])

\* The members become sequences.
LEMMA EachPiece ==
  ASSUME NEW S, NEW T, NEW f \in [S -> Seq(T)], NEW s \in Seq(S)
  PROVE  [i \in DOMAIN s |-> f[s[i]]] \in Seq(Seq(T))
<1>1. Len(s) \in Nat /\ DOMAIN s = 1..Len(s) /\ \A i \in 1..Len(s) : s[i] \in S
  BY LenProperties, ElementOfSeq
<1> QED
  BY <1>1

LEMMA EachType ==
  ASSUME NEW S, NEW T, NEW f \in [S -> Seq(T)], NEW s \in Seq(S)
  PROVE  Each(f, s) \in Seq(T)
<1> DEFINE pieces == [i \in DOMAIN s |-> f[s[i]]]
<1>1. pieces \in Seq(Seq(T))
  BY EachPiece
<1>2. Each(f, s) = FlattenSeq(pieces)
  BY DEF Each
<1> HIDE DEF pieces
<1> QED
  BY <1>1, <1>2, FlattenType

\* Sequences that are what the members become, one by one.
LEMMA EachOf ==
  ASSUME NEW S, NEW T, NEW f \in [S -> Seq(T)], NEW s \in Seq(S),
         NEW p \in Seq(Seq(T)), Len(p) = Len(s), \A i \in 1..Len(s) : p[i] = f[s[i]]
  PROVE  FlattenSeq(p) = Each(f, s)
<1> DEFINE pieces == [i \in DOMAIN s |-> f[s[i]]]
<1>1. Len(s) \in Nat /\ DOMAIN s = 1..Len(s)
  BY LenProperties
<1>2. pieces \in Seq(Seq(T))
  BY EachPiece
<1>3. Len(pieces) = Len(s) /\ \A i \in 1..Len(s) : pieces[i] = f[s[i]]
  BY <1>1
<1>4. Each(f, s) = FlattenSeq(pieces)
  BY DEF Each
<1> HIDE DEF pieces
<1>5. p = pieces
  BY <1>2, <1>3, SeqEqual
<1> QED
  BY <1>4, <1>5

LEMMA EachEmpty ==
  ASSUME NEW f
  PROVE  Each(f, <<>>) = <<>>
<1>1. [i \in DOMAIN <<>> |-> f[<<>>[i]]] = <<>>
  OBVIOUS
<1> QED
  BY <1>1, FlattenEmpty DEF Each

LEMMA EachAppend ==
  ASSUME NEW S, NEW T, NEW f \in [S -> Seq(T)], NEW s \in Seq(S), NEW x \in S
  PROVE  Each(f, Append(s, x)) = Each(f, s) \o f[x]
<1> DEFINE more == [i \in DOMAIN Append(s, x) |-> f[Append(s, x)[i]]]
           pieces == [i \in DOMAIN s |-> f[s[i]]]
<1>1. /\ Len(s) \in Nat /\ DOMAIN s = 1..Len(s)
      /\ Append(s, x) \in Seq(S) /\ Len(Append(s, x)) = Len(s) + 1
      /\ DOMAIN Append(s, x) = 1..Len(s) + 1
      /\ \A i \in 1..Len(s) : Append(s, x)[i] = s[i]
      /\ Append(s, x)[Len(s) + 1] = x
  BY LenProperties, AppendProperties
<1>2. pieces \in Seq(Seq(T)) /\ more \in Seq(Seq(T)) /\ f[x] \in Seq(T)
  BY <1>1, EachPiece
<1>3. Len(pieces) = Len(s) /\ Len(more) = Len(s) + 1
  BY <1>1
<1>4. /\ \A i \in 1..Len(s) : more[i] = pieces[i]
      /\ more[Len(s) + 1] = f[x]
  BY <1>1
<1>5. Each(f, Append(s, x)) = FlattenSeq(more) /\ Each(f, s) = FlattenSeq(pieces)
  BY DEF Each
<1> HIDE DEF more, pieces
<1>6. more = Append(pieces, f[x])
  <2>1. /\ Append(pieces, f[x]) \in Seq(Seq(T)) /\ Len(Append(pieces, f[x])) = Len(s) + 1
        /\ \A i \in 1..Len(s) : Append(pieces, f[x])[i] = pieces[i]
        /\ Append(pieces, f[x])[Len(s) + 1] = f[x]
    <3> DEFINE last == f[x]
    <3>1. last \in Seq(T)
      BY <1>2
    <3> HIDE DEF last
    <3>2. /\ Append(pieces, last) \in Seq(Seq(T)) /\ Len(Append(pieces, last)) = Len(pieces) + 1
          /\ \A i \in 1..Len(pieces) : Append(pieces, last)[i] = pieces[i]
          /\ Append(pieces, last)[Len(pieces) + 1] = last
      BY <1>2, <3>1, AppendProperties
    <3> QED
      BY <1>3, <3>2 DEF last
  <2>2. \A i \in 1..Len(s) + 1 : more[i] = Append(pieces, f[x])[i]
    BY <1>1, <1>4, <2>1
  <2> QED
    BY <1>2, <1>3, <2>1, <2>2, SeqEqual
<1>7. FlattenSeq(Append(pieces, f[x])) = FlattenSeq(pieces) \o f[x]
  BY <1>2, FlattenAppend
<1> QED
  BY <1>5, <1>6, <1>7

GrowsBy(f, S) ==
  \A s \in Seq(S), x \in S : Each(f, Append(s, x)) = Each(f, s) \o f[x]

LEMMA EachGrows ==
  ASSUME NEW S, NEW T, NEW f \in [S -> Seq(T)]
  PROVE  GrowsBy(f, S)
BY EachAppend DEF GrowsBy

\* A sequence of one member.
LEMMA EachOne ==
  ASSUME NEW S, NEW T, NEW f \in [S -> Seq(T)], NEW x \in S
  PROVE  Each(f, <<x>>) = f[x]
<1>1. <<x>> = Append(<<>>, x) /\ <<>> \in Seq(S)
  OBVIOUS
<1>2. Each(f, Append(<<>>, x)) = Each(f, <<>>) \o f[x]
  BY <1>1, EachAppend
<1>3. <<>> \o f[x] = f[x]
  BY ConcatEmptySeq
<1> QED
  BY <1>1, <1>2, <1>3, EachEmpty

\* Of two sequences: what comes of the first, then what comes of the second.
Joins(f, s, t) == Each(f, s \o t) = Each(f, s) \o Each(f, t)

LEMMA EachConcat ==
  ASSUME NEW S, NEW T, NEW f \in [S -> Seq(T)], NEW s \in Seq(S), NEW t \in Seq(S)
  PROVE  Joins(f, s, t)
<1> DEFINE P == {u \in Seq(S) : Each(f, s \o u) = Each(f, s) \o Each(f, u)}
<1>1. <<>> \in P
  <2>1. s \o <<>> = s /\ <<>> \in Seq(S)
    BY ConcatEmptySeq, EmptySeq
  <2>2. Each(f, s) \o <<>> = Each(f, s)
    BY EachType, ConcatEmptySeq
  <2> QED
    BY <2>1, <2>2, EachEmpty
<1>2. ASSUME NEW u \in Seq(S), NEW x \in S, u \in P
      PROVE  Append(u, x) \in P
  <2>1. Append(u, x) \in Seq(S) /\ s \o u \in Seq(S)
    BY AppendProperties, ConcatProperties
  <2>2. s \o Append(u, x) = Append(s \o u, x)
    <3>1. <<x>> \in Seq(S) /\ Append(u, x) = u \o <<x>>
      BY AppendIsConcat
    <3>2. Append(s \o u, x) = (s \o u) \o <<x>>
      BY <2>1, AppendIsConcat
    <3>3. (s \o u) \o <<x>> = s \o (u \o <<x>>)
      BY <3>1, ConcatAssociative
    <3> QED
      BY <3>1, <3>2, <3>3
  <2>3. Each(f, Append(s \o u, x)) = Each(f, s \o u) \o f[x]
    BY <2>1, EachAppend
  <2>4. Each(f, Append(u, x)) = Each(f, u) \o f[x]
    BY EachAppend
  <2>5. (Each(f, s) \o Each(f, u)) \o f[x] = Each(f, s) \o (Each(f, u) \o f[x])
    <3>1. Each(f, s) \in Seq(T) /\ Each(f, u) \in Seq(T) /\ f[x] \in Seq(T)
      BY EachType
    <3>2. Regroups(Each(f, s), Each(f, u), f[x])
      BY <3>1, Regrouped
    <3> QED
      BY <3>2 DEF Regroups
  <2>6. Each(f, s \o u) = Each(f, s) \o Each(f, u)
    BY <1>2
  <2> QED
    BY <2>1, <2>2, <2>3, <2>4, <2>5, <2>6
<1>3. Seq(S) \subseteq P
  <2> HIDE DEF P
  <2> QED
    BY <1>1, <1>2, InductionOverSeq
<1> QED
  BY <1>3 DEF Joins

\* What g makes of what f makes, it makes of the members one by one.
Composes(g, f, h, s) == Each(g, Each(f, s)) = Each(h, s)

LEMMA EachOfEach ==
  ASSUME NEW S, NEW T, NEW U, NEW f \in [S -> Seq(T)], NEW g \in [T -> Seq(U)],
         NEW h \in [S -> Seq(U)], \A x \in S : h[x] = Each(g, f[x]),
         NEW s \in Seq(S)
  PROVE  Composes(g, f, h, s)
<1> DEFINE P == {t \in Seq(S) : Each(g, Each(f, t)) = Each(h, t)}
<1>1. <<>> \in P
  BY EachEmpty, EmptySeq
<1>4. GrowsBy(f, S) /\ GrowsBy(h, S)
  BY EachGrows
<1>2. ASSUME NEW t \in Seq(S), NEW x \in S, t \in P
      PROVE  Append(t, x) \in P
  <2>1. Append(t, x) \in Seq(S)
    BY AppendProperties
  <2>2. Each(f, t) \in Seq(T) /\ f[x] \in Seq(T)
    BY EachType
  <2>3. Each(f, Append(t, x)) = Each(f, t) \o f[x]
    BY <1>4 DEF GrowsBy
  <2>4. Joins(g, Each(f, t), f[x])
    BY <2>2, EachConcat
  <2>5. Each(h, Append(t, x)) = Each(h, t) \o h[x]
    BY <1>4 DEF GrowsBy
  <2>6. Each(g, Each(f, t)) = Each(h, t) /\ h[x] = Each(g, f[x])
    BY <1>2
  <2> QED
    BY <2>1, <2>3, <2>4, <2>5, <2>6 DEF Joins
<1>3. Seq(S) \subseteq P
  <2> HIDE DEF P
  <2> QED
    BY <1>1, <1>2, InductionOverSeq
<1> QED
  BY <1>3 DEF Composes

\* Something is made of a sequence if something is made of one of its members.
HasPart(f, s) == Each(f, s) # <<>> <=> \E i \in DOMAIN s : f[s[i]] # <<>>

LEMMA EachNonempty ==
  ASSUME NEW S, NEW T, NEW f \in [S -> Seq(T)], NEW s \in Seq(S)
  PROVE  HasPart(f, s)
<1> DEFINE P == {t \in Seq(S) :
                   Each(f, t) # <<>> <=> \E i \in DOMAIN t : f[t[i]] # <<>>}
<1>1. <<>> \in P
  BY EachEmpty, EmptySeq
<1>2. ASSUME NEW t \in Seq(S), NEW x \in S, t \in P
      PROVE  Append(t, x) \in P
  <2>1. /\ Len(t) \in Nat /\ DOMAIN t = 1..Len(t)
        /\ Append(t, x) \in Seq(S) /\ DOMAIN Append(t, x) = 1..Len(t) + 1
        /\ \A i \in 1..Len(t) : Append(t, x)[i] = t[i]
        /\ Append(t, x)[Len(t) + 1] = x
    BY LenProperties, AppendProperties
  <2>2. Each(f, Append(t, x)) = Each(f, t) \o f[x]
    BY EachAppend
  <2>3. Each(f, t) \in Seq(T) /\ f[x] \in Seq(T)
    BY EachType
  <2>4. Each(f, t) \o f[x] = <<>> <=> Each(f, t) = <<>> /\ f[x] = <<>>
    BY <2>3, ConcatEqualIffEmpty
  <2>5. (\E i \in 1..Len(t) + 1 : f[Append(t, x)[i]] # <<>>)
          <=> (\E i \in 1..Len(t) : f[t[i]] # <<>>) \/ f[x] # <<>>
    <3>1. ASSUME NEW i \in 1..Len(t) + 1, f[Append(t, x)[i]] # <<>>
          PROVE  (\E j \in 1..Len(t) : f[t[j]] # <<>>) \/ f[x] # <<>>
      <4>1. i \in 1..Len(t) \/ i = Len(t) + 1
        BY <2>1
      <4> QED
        BY <2>1, <3>1, <4>1
    <3>2. Len(t) + 1 \in 1..Len(t) + 1 /\ 1..Len(t) \subseteq 1..Len(t) + 1
      BY <2>1
    <3> QED
      BY <2>1, <3>1, <3>2
  <2>6. Each(f, t) # <<>> <=> \E i \in 1..Len(t) : f[t[i]] # <<>>
    BY <1>2, <2>1
  <2>7. Each(f, Append(t, x)) # <<>> <=> \E i \in DOMAIN Append(t, x) : f[Append(t, x)[i]] # <<>>
    BY <2>1, <2>2, <2>4, <2>5, <2>6
  <2> QED
    BY <2>1, <2>7
<1>3. Seq(S) \subseteq P
  <2> HIDE DEF P
  <2> QED
    BY <1>1, <1>2, InductionOverSeq
<1> QED
  BY <1>3 DEF HasPart

\* A sequence of sequences flattens part by part, and to nothing if it is made
\* of nothing.
LEMMA FlattenIsEach ==
  ASSUME NEW S, NEW p \in Seq(Seq(S))
  PROVE  FlattenSeq(p) = Each([x \in Seq(S) |-> x], p)
<1>1. \A i \in DOMAIN p : p[i] \in Seq(S)
  BY LenProperties, ElementOfSeq
<1>2. [i \in DOMAIN p |-> [x \in Seq(S) |-> x][p[i]]] = p
  BY <1>1
<1> QED
  BY <1>2 DEF Each

FlattensApart(p, q) == FlattenSeq(p \o q) = FlattenSeq(p) \o FlattenSeq(q)

LEMMA FlattenConcat ==
  ASSUME NEW S, NEW p \in Seq(Seq(S)), NEW q \in Seq(Seq(S))
  PROVE  FlattensApart(p, q)
<1> DEFINE T == Seq(S)
           f == [x \in T |-> x]
<1>1. f \in [T -> Seq(S)] /\ p \in Seq(T) /\ q \in Seq(T)
  OBVIOUS
<1>2. p \o q \in Seq(T)
  BY <1>1, ConcatProperties
<1>3. /\ FlattenSeq(p) = Each(f, p) /\ FlattenSeq(q) = Each(f, q)
      /\ FlattenSeq(p \o q) = Each(f, p \o q)
  BY <1>1, <1>2, FlattenIsEach
<1> HIDE DEF f, T
<1>4. Joins(f, p, q)
  BY <1>1, EachConcat
<1> QED
  BY <1>3, <1>4 DEF Joins, FlattensApart

LEMMA FlattenNothing ==
  ASSUME NEW S, NEW p \in Seq(Seq(S)), \A i \in 1..Len(p) : p[i] = <<>>
  PROVE  FlattenSeq(p) = <<>>
<1> DEFINE T == Seq(S)
           f == [x \in T |-> x]
<1>1. f \in [T -> Seq(S)] /\ p \in Seq(T)
  OBVIOUS
<1>2. FlattenSeq(p) = Each(f, p)
  BY FlattenIsEach
<1>3. DOMAIN p = 1..Len(p) /\ <<>> \in T /\ f[<<>>] = <<>>
  BY EmptySeq
<1> HIDE DEF f, T
<1>4. HasPart(f, p)
  BY <1>1, EachNonempty
<1> QED
  BY <1>2, <1>3, <1>4 DEF HasPart

\* Of the part from m to n: what is in it up to k, and what is behind k.
FlattensAt(p, m, k, n) ==
  FlattenSeq(SubSeq(p, m, n)) = FlattenSeq(SubSeq(p, m, k)) \o FlattenSeq(SubSeq(p, k + 1, n))

LEMMA FlattenSplit ==
  ASSUME NEW S, NEW p \in Seq(Seq(S)),
         NEW m \in 1..Len(p) + 1, NEW k \in m - 1..Len(p), NEW n \in k..Len(p)
  PROVE  FlattensAt(p, m, k, n)
<1> DEFINE a == SubSeq(p, m, k)
           b == SubSeq(p, k + 1, n)
<1>1. a \o b = SubSeq(p, m, n)
  BY ConcatAdjacentSubSeq
<1>2. a \in Seq(Seq(S)) /\ b \in Seq(Seq(S))
  <2>1. Len(p) \in Nat /\ m \in Int /\ k \in Int /\ n \in Int
    BY LenProperties
  <2>2. \A i \in m..k : p[i] \in Seq(S)
    BY <2>1, ElementOfSeq
  <2>3. \A i \in k + 1..n : p[i] \in Seq(S)
    BY <2>1, ElementOfSeq
  <2>4. a \in Seq(Seq(S))
    BY <2>1, <2>2, SubSeqProperties
  <2>5. b \in Seq(Seq(S))
    BY <2>1, <2>3, SubSeqProperties
  <2> QED
    BY <2>4, <2>5
<1> HIDE DEF a, b
<1>3. FlattensApart(a, b)
  BY <1>2, FlattenConcat
<1> QED
  BY <1>1, <1>3 DEF FlattensApart, FlattensAt, a, b

-----------------------------------------------------------------------------
(* The least and the greatest number of a set.                             *)

LEMMA LeastMember ==
  ASSUME NEW S, S # {}, S \subseteq Nat
  PROVE  Min(S) \in S /\ \A x \in S : Min(S) <= x
<1>1. PICK n \in S : \A m \in S : n <= m
  <2>1. PICK n \in S : \A m \in S : ~ (<<m, n>> \in OpToRel(<, Nat))
    BY NatLessThanWellFounded, WFMin
  <2>2. \A m \in S : ~(m < n)
    BY <2>1 DEF OpToRel
  <2> QED
    BY <2>2
<1> QED
  BY <1>1 DEF Min

LEMMA GreatestMember ==
  ASSUME NEW n \in Nat, NEW S, S # {}, S \subseteq 0..n
  PROVE  Max(S) \in S /\ \A x \in S : x <= Max(S)
<1> DEFINE T == {n - x : x \in S}
<1>1. T # {} /\ T \subseteq Nat
  <2>1. \A x \in S : n - x \in Nat
    OBVIOUS
  <2>2. T # {}
    OBVIOUS
  <2> QED
    BY <2>1, <2>2
<1> HIDE DEF T
<1>2. Min(T) \in T /\ \A y \in T : Min(T) <= y
  BY <1>1, LeastMember
<1>3. PICK m \in S : n - m = Min(T)
  BY <1>2 DEF T
<1>4. \A x \in S : x <= m
  <2> SUFFICES ASSUME NEW x \in S
               PROVE  x <= m
    OBVIOUS
  <2>1. n - x \in T
    BY DEF T
  <2>2. n - m <= n - x
    BY <1>2, <1>3, <2>1
  <2> QED
    BY <2>2
<1> QED
  BY <1>4 DEF Max

=============================================================================

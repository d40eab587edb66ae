------------------------------ MODULE ListLemmas ------------------------------
(***************************************************************************)
(* What the list operations of the memory do to the members of a list      *)
(* without duplicates, that a finite set under a strict order has a least  *)
(* element and can be sorted, and that folds run: facts about data only,   *)
(* used by the proofs.                                                     *)
(***************************************************************************)
EXTENDS Integers, SequencesExt, SequenceTheorems, FiniteSetTheorems, TLAPS

\* vector::push_back adds one member and keeps a list free of duplicates.
LEMMA AppendMember ==
    ASSUME NEW S, NEW s \in Seq(S), NEW e \in S
    PROVE  /\ Append(s, e) \in Seq(S)
           /\ ToSet(Append(s, e)) = ToSet(s) \cup {e}
           /\ IsInjective(s) /\ e \notin ToSet(s) => IsInjective(Append(s, e))
<1>1. /\ Append(s, e) \in Seq(S)
      /\ DOMAIN Append(s, e) = 1 .. Len(s) + 1
      /\ Append(s, e)[Len(s) + 1] = e
      /\ \A i \in 1 .. Len(s) : Append(s, e)[i] = s[i]
      /\ DOMAIN s = 1 .. Len(s)
      /\ Len(s) \in Nat
  OBVIOUS
<1>2. ToSet(Append(s, e)) = ToSet(s) \cup {e}
  <2>1. \A x \in ToSet(Append(s, e)) : x \in ToSet(s) \cup {e}
    BY <1>1 DEF ToSet
  <2>2. \A x \in ToSet(s) : x \in ToSet(Append(s, e))
    BY <1>1 DEF ToSet
  <2>3. e \in ToSet(Append(s, e))
    BY <1>1 DEF ToSet
  <2>. QED BY <2>1, <2>2, <2>3
<1>3. IsInjective(s) /\ e \notin ToSet(s) => IsInjective(Append(s, e))
  BY <1>1 DEF IsInjective, ToSet
<1>. QED BY <1>1, <1>2, <1>3

\* list::push_front likewise.
LEMMA ConsMember ==
    ASSUME NEW S, NEW s \in Seq(S), NEW e \in S
    PROVE  /\ Cons(e, s) \in Seq(S)
           /\ ToSet(Cons(e, s)) = ToSet(s) \cup {e}
           /\ IsInjective(s) /\ e \notin ToSet(s) => IsInjective(Cons(e, s))
<1>1. /\ <<e>> \in Seq(S)
      /\ Len(<<e>>) = 1
      /\ <<e>>[1] = e
  OBVIOUS
<1>2. /\ Cons(e, s) \in Seq(S)
      /\ Len(Cons(e, s)) = Len(s) + 1
      /\ \A i \in 1 .. 1 + Len(s) :
             Cons(e, s)[i] = IF i <= 1 THEN <<e>>[i] ELSE s[i - 1]
  BY <1>1, ConcatProperties DEF Cons
<1>3. /\ DOMAIN Cons(e, s) = 1 .. Len(s) + 1
      /\ Cons(e, s)[1] = e
      /\ \A i \in 1 .. Len(s) : Cons(e, s)[i + 1] = s[i]
      /\ \A i \in 2 .. Len(s) + 1 : Cons(e, s)[i] = s[i - 1]
      /\ DOMAIN s = 1 .. Len(s)
      /\ Len(s) \in Nat
  BY <1>1, <1>2
<1>4. ToSet(Cons(e, s)) = ToSet(s) \cup {e}
  <2>1. \A x \in ToSet(Cons(e, s)) : x \in ToSet(s) \cup {e}
    <3>1. TAKE x \in ToSet(Cons(e, s))
    <3>2. PICK i \in 1 .. Len(s) + 1 : x = Cons(e, s)[i]
      BY <1>3 DEF ToSet
    <3>3. CASE i = 1
      BY <1>3, <3>2, <3>3
    <3>4. CASE i # 1
      <4>1. i - 1 \in DOMAIN s /\ x = s[i - 1]
        BY <1>3, <3>2, <3>4
      <4>. QED BY <4>1 DEF ToSet
    <3>. QED BY <3>3, <3>4
  <2>2. \A x \in ToSet(s) : x \in ToSet(Cons(e, s))
    <3>1. TAKE x \in ToSet(s)
    <3>2. PICK i \in 1 .. Len(s) : x = s[i]
      BY <1>3 DEF ToSet
    <3>3. i + 1 \in DOMAIN Cons(e, s) /\ x = Cons(e, s)[i + 1]
      BY <1>3, <3>2
    <3>. QED BY <3>3 DEF ToSet
  <2>3. e \in ToSet(Cons(e, s))
    BY <1>3 DEF ToSet
  <2>. QED BY <2>1, <2>2, <2>3
<1>5. IsInjective(s) /\ e \notin ToSet(s) => IsInjective(Cons(e, s))
  <2>1. SUFFICES ASSUME IsInjective(s), e \notin ToSet(s),
                        NEW i \in 1 .. Len(s) + 1, NEW j \in 1 .. Len(s) + 1,
                        Cons(e, s)[i] = Cons(e, s)[j]
                 PROVE  i = j
    BY <1>3 DEF IsInjective
  <2>2. \A k \in 2 .. Len(s) + 1 : Cons(e, s)[k] \in ToSet(s)
    BY <1>3 DEF ToSet
  <2>3. CASE i = 1 \/ j = 1
    BY <1>3, <2>1, <2>2, <2>3
  <2>4. CASE i # 1 /\ j # 1
    <3>1. /\ i - 1 \in DOMAIN s /\ j - 1 \in DOMAIN s
          /\ s[i - 1] = s[j - 1]
      BY <1>3, <2>1, <2>4
    <3>2. i - 1 = j - 1
      BY <2>1, <3>1 DEF IsInjective
    <3>. QED BY <3>2
  <2>. QED BY <2>3, <2>4
<1>. QED BY <1>2, <1>4, <1>5

\* list::erase and pop_back: the erased member, and no other, is gone.
LEMMA RemoveMember ==
    ASSUME NEW S, NEW s \in Seq(S), NEW i \in 1 .. Len(s)
    PROVE  /\ RemoveAt(s, i) \in Seq(S)
           /\ IsInjective(s) => /\ IsInjective(RemoveAt(s, i))
                                /\ ToSet(RemoveAt(s, i)) = ToSet(s) \ {s[i]}
<1>. DEFINE r == RemoveAt(s, i)
<1>1. Len(s) \in Nat /\ DOMAIN s = 1 .. Len(s)
  OBVIOUS
<1>2. /\ SubSeq(s, 1, i - 1) \in Seq(S)
      /\ Len(SubSeq(s, 1, i - 1)) = i - 1
      /\ \A k \in 1 .. i - 1 : SubSeq(s, 1, i - 1)[k] = s[k]
  BY <1>1
<1>3. /\ SubSeq(s, i + 1, Len(s)) \in Seq(S)
      /\ Len(SubSeq(s, i + 1, Len(s))) = Len(s) - i
      /\ \A k \in 1 .. Len(s) - i : SubSeq(s, i + 1, Len(s))[k] = s[k + i]
  <2>1. \A k \in i + 1 .. Len(s) : s[k] \in S
    BY <1>1
  <2>2. /\ SubSeq(s, i + 1, Len(s)) \in Seq(S)
        /\ Len(SubSeq(s, i + 1, Len(s))) =
               IF i + 1 <= Len(s) THEN Len(s) - (i + 1) + 1 ELSE 0
        /\ \A k \in 1 .. Len(s) - (i + 1) + 1 :
               SubSeq(s, i + 1, Len(s))[k] = s[(i + 1) + k - 1]
    BY <1>1, <2>1, SubSeqProperties
  <2>3. /\ Len(s) - (i + 1) + 1 = Len(s) - i
        /\ ~(i + 1 <= Len(s)) => Len(s) - i = 0
        /\ \A k \in 1 .. Len(s) - i : (i + 1) + k - 1 = k + i
    <3>. DEFINE n == Len(s)
    <3>1. n \in Nat /\ i \in Int /\ 1 <= i /\ i <= n
      BY <1>1
    <3>. HIDE DEF n
    <3>2. n - (i + 1) + 1 = n - i /\ (~(i + 1 <= n) => n - i = 0)
      BY <3>1
    <3>3. \A k \in 1 .. n - i : (i + 1) + k - 1 = k + i
      BY <3>1
    <3>. QED BY <3>2, <3>3 DEF n
  <2>4. \A k \in 1 .. Len(s) - i : SubSeq(s, i + 1, Len(s))[k] = s[k + i]
    <3>1. TAKE k \in 1 .. Len(s) - i
    <3>2. SubSeq(s, i + 1, Len(s))[k] = s[(i + 1) + k - 1]
      BY <2>2, <2>3
    <3>. QED BY <2>3, <3>2
  <2>. QED BY <2>2, <2>3, <2>4
<1>4. /\ r \in Seq(S)
      /\ Len(r) = Len(s) - 1
      /\ \A k \in 1 .. Len(s) - 1 :
             r[k] = IF k <= i - 1 THEN SubSeq(s, 1, i - 1)[k]
                    ELSE SubSeq(s, i + 1, Len(s))[k - (i - 1)]
  <2>. DEFINE u == SubSeq(s, 1, i - 1)
              v == SubSeq(s, i + 1, Len(s))
  <2>1. /\ u \in Seq(S) /\ v \in Seq(S)
        /\ Len(u) = i - 1 /\ Len(v) = Len(s) - i
    BY <1>2, <1>3
  <2>. HIDE DEF u, v
  <2>2. /\ u \o v \in Seq(S)
        /\ Len(u \o v) = Len(u) + Len(v)
        /\ \A k \in 1 .. Len(u) + Len(v) :
               (u \o v)[k] = IF k <= Len(u) THEN u[k] ELSE v[k - Len(u)]
    BY <2>1, ConcatProperties
  <2>3. Len(u) + Len(v) = Len(s) - 1
    BY <1>1, <2>1
  <2>4. /\ u \o v \in Seq(S)
        /\ Len(u \o v) = Len(s) - 1
        /\ \A k \in 1 .. Len(s) - 1 :
               (u \o v)[k] = IF k <= i - 1 THEN u[k] ELSE v[k - (i - 1)]
    BY <2>1, <2>2, <2>3
  <2>. QED BY <2>4 DEF u, v, RemoveAt
<1>. HIDE DEF r
<1>5. \A k \in 1 .. Len(s) - 1 : r[k] = IF k < i THEN s[k] ELSE s[k + 1]
  <2>1. TAKE k \in 1 .. Len(s) - 1
  <2>2. CASE k < i
    BY <1>1, <1>2, <1>4, <2>2
  <2>3. CASE ~(k < i)
    <3>1. k - (i - 1) \in 1 .. Len(s) - i
      BY <1>1, <2>3
    <3>2. SubSeq(s, i + 1, Len(s))[k - (i - 1)] = s[(k - (i - 1)) + i]
      BY <1>3, <3>1
    <3>3. (k - (i - 1)) + i = k + 1 /\ ~(k <= i - 1)
      BY <2>3
    <3>. QED BY <1>4, <2>3, <3>2, <3>3
  <2>. QED BY <2>2, <2>3
<1>6. DOMAIN r = 1 .. Len(s) - 1
  BY <1>1, <1>4
<1>7. ASSUME IsInjective(s) PROVE IsInjective(r)
  <2>1. SUFFICES ASSUME NEW k \in 1 .. Len(s) - 1, NEW l \in 1 .. Len(s) - 1,
                        r[k] = r[l]
                 PROVE  k = l
    BY <1>6 DEF IsInjective
  <2>2. \A x, y \in 1 .. Len(s) : s[x] = s[y] => x = y
    BY <1>1, <1>7 DEF IsInjective
  <2>3. /\ k \in 1 .. Len(s) /\ k + 1 \in 1 .. Len(s)
        /\ l \in 1 .. Len(s) /\ l + 1 \in 1 .. Len(s)
    BY <1>1
  <2>4. CASE k < i /\ l < i
    BY <1>5, <2>1, <2>2, <2>3, <2>4
  <2>5. CASE k < i /\ ~(l < i)
    BY <1>5, <2>1, <2>2, <2>3, <2>5
  <2>6. CASE ~(k < i) /\ l < i
    BY <1>5, <2>1, <2>2, <2>3, <2>6
  <2>7. CASE ~(k < i) /\ ~(l < i)
    <3>1. k + 1 = l + 1
      BY <1>5, <2>1, <2>2, <2>3, <2>7
    <3>. QED BY <3>1
  <2>. QED BY <2>4, <2>5, <2>6, <2>7
<1>8. ASSUME IsInjective(s) PROVE ToSet(r) = ToSet(s) \ {s[i]}
  <2>1. \A x \in ToSet(r) : x \in ToSet(s) \ {s[i]}
    <3>1. TAKE x \in ToSet(r)
    <3>2. PICK k \in 1 .. Len(s) - 1 : x = r[k]
      BY <1>6 DEF ToSet
    <3>3. PICK l \in 1 .. Len(s) : l # i /\ x = s[l]
      BY <1>1, <1>5, <3>2
    <3>. QED BY <1>1, <1>8, <3>3 DEF ToSet, IsInjective
  <2>2. \A x \in ToSet(s) \ {s[i]} : x \in ToSet(r)
    <3>1. TAKE x \in ToSet(s) \ {s[i]}
    <3>2. PICK l \in 1 .. Len(s) : x = s[l] /\ l # i
      BY <1>1 DEF ToSet
    <3>3. CASE l < i
      <4>1. l \in 1 .. Len(s) - 1 /\ r[l] = x
        BY <1>1, <1>5, <3>2, <3>3
      <4>. QED BY <1>6, <4>1 DEF ToSet
    <3>4. CASE l > i
      <4>1. l - 1 \in 1 .. Len(s) - 1 /\ r[l - 1] = x
        <5>1. l - 1 \in 1 .. Len(s) - 1 /\ ~(l - 1 < i) /\ (l - 1) + 1 = l
          BY <1>1, <3>4
        <5>. QED BY <1>5, <3>2, <5>1
      <4>. QED BY <1>6, <4>1 DEF ToSet
    <3>. QED BY <1>1, <3>2, <3>3, <3>4
  <2>. QED BY <2>1, <2>2
<1>. QED BY <1>4, <1>7, <1>8 DEF r

\* vector::pop_back and list::pop_back: only the last member is gone.
LEMMA FrontMember ==
    ASSUME NEW S, NEW s \in Seq(S), s # <<>>
    PROVE  /\ Front(s) \in Seq(S)
           /\ Last(s) \in S
           /\ Last(s) \in ToSet(s)
           /\ IsInjective(s) => /\ IsInjective(Front(s))
                                /\ ToSet(Front(s)) = ToSet(s) \ {Last(s)}
<1>1. Len(s) \in Nat \ {0} /\ DOMAIN s = 1 .. Len(s)
  BY EmptySeq
<1>2. /\ SubSeq(s, 1, Len(s) - 1) \in Seq(S)
      /\ SubSeq(s, Len(s) + 1, Len(s)) = <<>>
  BY <1>1, SubSeqEmpty
<1>3. Front(s) = RemoveAt(s, Len(s))
  BY <1>2, ConcatEmptySeq DEF Front, RemoveAt
<1>4. Len(s) \in 1 .. Len(s)
  BY <1>1
<1>5. /\ Front(s) \in Seq(S)
      /\ IsInjective(s) => /\ IsInjective(Front(s))
                           /\ ToSet(Front(s)) = ToSet(s) \ {s[Len(s)]}
  BY <1>3, <1>4, RemoveMember
<1>6. Last(s) = s[Len(s)] /\ s[Len(s)] \in S /\ s[Len(s)] \in ToSet(s)
  BY <1>1, <1>4 DEF Last, ToSet
<1>. QED BY <1>5, <1>6

\* What is left of a list once its first member is taken off.
LEMMA TailMember ==
    ASSUME NEW S, NEW s \in Seq(S), s # <<>>
    PROVE  /\ s[1] \in S
           /\ Tail(s) \in Seq(S)
           /\ \A i \in DOMAIN Tail(s) : i + 1 \in DOMAIN s /\ Tail(s)[i] = s[i + 1]
<1>1. Len(s) \in Nat \ {0} /\ DOMAIN s = 1 .. Len(s)
  BY EmptySeq
<1>2. /\ Tail(s) \in Seq(S)
      /\ Len(Tail(s)) = Len(s) - 1
      /\ \A i \in 1 .. Len(Tail(s)) : Tail(s)[i] = s[i + 1]
  BY HeadTailProperties
<1>3. DOMAIN Tail(s) = 1 .. Len(s) - 1
  BY <1>2
<1>4. 1 \in 1 .. Len(s) /\ s[1] \in S
  BY <1>1, ElementOfSeq
<1>. QED BY <1>1, <1>2, <1>3, <1>4

\* Taking the first member off a list without repetitions takes it off for good.
LEMMA TailApart ==
    ASSUME NEW S, NEW s \in Seq(S), s # <<>>, IsInjective(s)
    PROVE  IsInjective(Tail(s)) /\ ToSet(Tail(s)) = ToSet(s) \ {Head(s)}
<1>1. /\ Len(s) \in Nat \ {0} /\ DOMAIN s = 1 .. Len(s)
      /\ Head(s) = s[1] /\ Len(Tail(s)) = Len(s) - 1
      /\ DOMAIN Tail(s) = 1 .. Len(s) - 1
      /\ \A i \in 1 .. Len(s) - 1 : Tail(s)[i] = s[i + 1]
  <2>1. Len(s) \in Nat \ {0} /\ DOMAIN s = 1 .. Len(s)
    BY EmptySeq
  <2>2. /\ Tail(s) \in Seq(S) /\ Head(s) = s[1] /\ Len(Tail(s)) = Len(s) - 1
        /\ \A i \in 1 .. Len(Tail(s)) : Tail(s)[i] = s[i + 1]
    BY HeadTailProperties
  <2>. QED BY <2>1, <2>2
<1>2. PICK n \in Nat : n = Len(s)
  BY <1>1
<1>3. IsInjective(Tail(s))
  <2>1. \A i \in 1 .. n - 1 : i + 1 \in 1 .. n
    BY <1>2
  <2>2. \A i, j \in 1 .. n - 1 : i + 1 = j + 1 => i = j
    BY <1>2
  <2>. QED BY <1>1, <1>2, <2>1, <2>2 DEF IsInjective
<1>4. ASSUME NEW x \in ToSet(Tail(s)) PROVE x \in ToSet(s) \ {Head(s)}
  <2>1. PICK i \in 1 .. n - 1 : x = Tail(s)[i]
    BY <1>1, <1>2, <1>4 DEF ToSet
  <2>2. i + 1 \in 1 .. n /\ 1 \in 1 .. n /\ i + 1 # 1
    BY <1>1, <1>2, <2>1
  <2>. QED BY <1>1, <1>2, <2>1, <2>2 DEF ToSet, IsInjective
<1>5. ASSUME NEW x \in ToSet(s), x # Head(s) PROVE x \in ToSet(Tail(s))
  <2>1. PICK i \in 1 .. n : x = s[i]
    BY <1>1, <1>2, <1>5 DEF ToSet
  <2>2. i # 1
    BY <1>1, <1>5, <2>1
  <2>3. i - 1 \in 1 .. n - 1 /\ (i - 1) + 1 = i
    BY <1>2, <2>2
  <2>. QED BY <1>1, <1>2, <2>1, <2>3 DEF ToSet
<1>. QED BY <1>3, <1>4, <1>5

(* An order, given as a set of pairs <<smaller, larger>>, has a least      *)
(* element in every finite set that is not empty.                          *)
LEMMA LeastExists ==
    ASSUME NEW S, IsFiniteSet(S), S # {}, NEW R,
           \A a \in S : <<a, a>> \notin R,
           \A a, b, c \in S : <<a, b>> \in R /\ <<b, c>> \in R => <<a, c>> \in R
    PROVE  \E a \in S : \A b \in S : <<b, a>> \notin R
<1>. DEFINE Below(a) == {b \in S : <<b, a>> \in R}
            T == {Below(a) : a \in S}
            SO == StrictSubsetOrdering(S)
<1>1. FiniteSubsetsOf(S) = SUBSET S
  BY FS_FiniteSubsetsOfFinite
<1>2. T \subseteq FiniteSubsetsOf(S) /\ T # {}
  <2>1. T \subseteq SUBSET S
    OBVIOUS
  <2>2. PICK a \in S : TRUE
    OBVIOUS
  <2>3. Below(a) \in T
    BY <2>2
  <2>. HIDE DEF T
  <2>. QED BY <1>1, <2>1, <2>3
<1>3. IsWellFoundedOn(SO, FiniteSubsetsOf(S))
  BY FS_StrictSubsetOrderingWellFounded
<1>4. \E X \in T : \A Y \in T : ~ (<<Y, X>> \in SO)
  <2>. HIDE DEF T, SO
  <2>. QED BY <1>2, <1>3, WFMin
<1>5. PICK a \in S : \A Y \in T : ~ (<<Y, Below(a)>> \in SO)
  BY <1>4
<1>6. ASSUME NEW b \in S, <<b, a>> \in R PROVE FALSE
  <2>1. Below(b) \subseteq Below(a) /\ b \in Below(a) /\ b \notin Below(b)
    BY <1>6
  <2>2. <<Below(b), Below(a)>> \in SO
    BY <2>1 DEF StrictSubsetOrdering
  <2>. QED BY <1>5, <1>6, <2>2
<1>. QED BY <1>6

(* Induction over the numbers, for a set in place of a predicate.          *)
LEMMA SetInduction ==
    ASSUME NEW T, 0 \in T, \A n \in Nat : n \in T => n + 1 \in T
    PROVE  Nat \subseteq T
<1>. SUFFICES ASSUME NEW n \in Nat, n \notin T PROVE FALSE
  OBVIOUS
<1>. DEFINE B == {k \in 0 .. n : k \notin T}
            R == {p \in B \X B : p[1] < p[2]}
<1>1. IsFiniteSet(B) /\ n \in B
  <2>1. IsFiniteSet(0 .. n) /\ B \subseteq 0 .. n
    BY FS_Interval
  <2>2. n \in B
    OBVIOUS
  <2>. HIDE DEF B
  <2>. QED BY <2>1, <2>2, FS_Subset
<1>2. /\ \A a \in B : <<a, a>> \notin R
      /\ \A a, b, c \in B : <<a, b>> \in R /\ <<b, c>> \in R => <<a, c>> \in R
  OBVIOUS
<1>3. PICK a \in B : \A b \in B : <<b, a>> \notin R
  <2>. HIDE DEF B, R
  <2>. QED BY <1>1, <1>2, LeastExists
<1>4. a \in Nat /\ a # 0 /\ a \notin T /\ a \in 0 .. n
  OBVIOUS
<1>5. a - 1 \in Nat /\ a - 1 \in 0 .. n /\ (a - 1) + 1 = a /\ a - 1 < a
  BY <1>4
<1>6. a - 1 \notin T
  BY <1>4, <1>5
<1>7. a - 1 \in B
  BY <1>5, <1>6
<1>. QED BY <1>3, <1>5, <1>7

(* A finite set can be sorted by any strict and total order on it.         *)
LEMMA SortExists ==
    ASSUME NEW U, NEW less,
           \A a \in U : <<a, a>> \notin less,
           \A a, b, c \in U : <<a, b>> \in less /\ <<b, c>> \in less => <<a, c>> \in less,
           \A a, b \in U : a # b => <<a, b>> \in less \/ <<b, a>> \in less,
           IsFiniteSet(U)
    PROVE  \E s \in [1 .. Cardinality(U) -> U] :
               \A i, j \in 1 .. Cardinality(U) : i < j => <<s[i], s[j]>> \in less
<1>. DEFINE Sorts(s, n) == \A i, j \in 1 .. n : i < j => <<s[i], s[j]>> \in less
            T == {n \in Nat : \A S \in SUBSET U : Cardinality(S) = n =>
                                  \E s \in [1 .. n -> S] : Sorts(s, n)}
<1>1. \A S \in SUBSET U : IsFiniteSet(S) /\ Cardinality(S) \in Nat
  BY FS_Subset, FS_CardinalityType
<1>2. 0 \in T
  <2>1. ASSUME NEW S PROVE \E s \in [1 .. 0 -> S] : Sorts(s, 0)
    <3>1. [i \in 1 .. 0 |-> 0] \in [1 .. 0 -> S] /\ Sorts([i \in 1 .. 0 |-> 0], 0)
      OBVIOUS
    <3>. QED BY <3>1
  <2>. QED BY <2>1
<1>3. ASSUME NEW n \in T PROVE n + 1 \in T
  <2>. SUFFICES ASSUME NEW S \in SUBSET U, Cardinality(S) = n + 1
                PROVE  \E s \in [1 .. n + 1 -> S] : Sorts(s, n + 1)
    OBVIOUS
  <2>. DEFINE R == {e \in S \X S : <<e[2], e[1]>> \in less}
  <2>1. n \in Nat /\ IsFiniteSet(S) /\ S # {}
    BY <1>1, FS_EmptySet
  <2>2. /\ \A a \in S : <<a, a>> \notin R
        /\ \A a, b, c \in S : <<a, b>> \in R /\ <<b, c>> \in R => <<a, c>> \in R
    OBVIOUS
  <2>3. PICK m \in S : \A b \in S : <<b, m>> \notin R
    <3>. HIDE DEF R, T
    <3>. QED BY <2>1, <2>2, LeastExists
  <2>4. \A b \in S \ {m} : <<b, m>> \in less
    BY <2>3
  <2>5. Cardinality(S \ {m}) = n
    <3>1. Cardinality(S \ {m}) = Cardinality(S) - 1
      BY <2>1, FS_RemoveElement
    <3>. QED BY <2>1, <3>1
  <2>6. PICK s \in [1 .. n -> S \ {m}] : Sorts(s, n)
    BY <2>5
  <2>. DEFINE r == [i \in 1 .. n + 1 |-> IF i = n + 1 THEN m ELSE s[i]]
  <2>7. \A i \in 1 .. n + 1 : i # n + 1 => i \in 1 .. n
    BY <2>1
  <2>8. r \in [1 .. n + 1 -> S]
    BY <2>6, <2>7
  <2>9. ASSUME NEW i \in 1 .. n + 1, NEW j \in 1 .. n + 1, i < j
        PROVE  <<r[i], r[j]>> \in less
    <3>1. i \in 1 .. n /\ r[i] = s[i]
      BY <2>1, <2>9
    <3>2. CASE j = n + 1
      BY <2>4, <2>6, <3>1, <3>2
    <3>3. CASE j # n + 1
      BY <2>6, <2>7, <2>9, <3>1, <3>3
    <3>. QED BY <3>2, <3>3
  <2>. HIDE DEF r
  <2>. QED BY <2>8, <2>9
<1>4. Nat \subseteq T
  <2>. HIDE DEF T
  <2>. QED BY <1>2, <1>3, SetInduction
<1>5. Cardinality(U) \in T
  <2>. HIDE DEF T
  <2>. QED BY <1>1, <1>4
<1>. QED BY <1>5

(* The library's fold takes the elements of a sequence by their positions, *)
(* the last one first; a table of its results exists for all sets of       *)
(* positions.                                                              *)
FoldSteps(m, A) == [(1 .. m) \X A -> A]

Tabled(A, base, m, F) ==
    \E g \in [SUBSET (1 .. m) -> A] :
        \A s \in SUBSET (1 .. m) :
            g[s] = IF s = {} THEN base ELSE F[<<Max(s), g[s \ {Max(s)}]>>]

LEMMA FoldTable ==
    ASSUME NEW A, NEW base \in A, NEW m \in Nat, NEW F \in FoldSteps(m, A)
    PROVE  Tabled(A, base, m, F)
<1>0. F \in [(1 .. m) \X A -> A]
  BY DEF FoldSteps
<1>. DEFINE Turn(g, s) == IF s = {} THEN base ELSE F[<<Max(s), g[s \ {Max(s)}]>>]
            Table(n) == \E g \in [SUBSET (1 .. n) -> A] :
                            \A s \in SUBSET (1 .. n) : g[s] = Turn(g, s)
            T == {n \in Nat : n <= m => Table(n)}
<1>1. 0 \in T
  <2>1. SUBSET (1 .. 0) = {{}}
    OBVIOUS
  <2>. DEFINE g == [s \in SUBSET (1 .. 0) |-> base]
  <2>2. g \in [SUBSET (1 .. 0) -> A] /\ \A s \in SUBSET (1 .. 0) : g[s] = Turn(g, s)
    BY <2>1
  <2>. HIDE DEF g, Turn
  <2>. QED BY <2>2
<1>2. ASSUME NEW n \in T PROVE n + 1 \in T
  <2>. SUFFICES ASSUME n + 1 <= m PROVE Table(n + 1)
    <3>. HIDE DEF Table
    <3>. QED OBVIOUS
  <2>1. n \in Nat /\ n <= m /\ Table(n)
    <3>. HIDE DEF Table
    <3>1. n \in Nat
      OBVIOUS
    <3>. QED BY <3>1
  <2>2. PICK g \in [SUBSET (1 .. n) -> A] : \A s \in SUBSET (1 .. n) : g[s] = Turn(g, s)
    BY <2>1
  <2>. DEFINE h == [s \in SUBSET (1 .. n + 1) |->
                        IF n + 1 \in s THEN F[<<n + 1, g[s \ {n + 1}]>>] ELSE g[s]]
  <2>3. ASSUME NEW s \in SUBSET (1 .. n + 1)
        PROVE  /\ s \ {n + 1} \in SUBSET (1 .. n)
               /\ n + 1 \in s => Max(s) = n + 1
               /\ n + 1 \notin s => s \in SUBSET (1 .. n)
    <3>1. \A i \in 1 .. n + 1 : i # n + 1 => i \in 1 .. n
      BY <2>1
    <3>2. ASSUME n + 1 \in s PROVE Max(s) = n + 1
      <4>1. \A y \in s : n + 1 >= y
        BY <2>1
      <4>2. \A x \in s : (\A y \in s : x >= y) => x = n + 1
        BY <2>1, <3>2
      <4>. QED BY <3>2, <4>1, <4>2 DEF Max
    <3>. QED BY <3>1, <3>2
  <2>4. h \in [SUBSET (1 .. n + 1) -> A]
    <3>1. n + 1 \in 1 .. m
      BY <2>1
    <3>. QED BY <1>0, <2>2, <2>3, <3>1
  <2>5. ASSUME NEW s \in SUBSET (1 .. n + 1) PROVE h[s] = Turn(h, s)
    <3>1. CASE n + 1 \in s
      <4>1. s \ {n + 1} \in SUBSET (1 .. n + 1) /\ n + 1 \notin s \ {n + 1}
        OBVIOUS
      <4>2. h[s \ {n + 1}] = g[s \ {n + 1}]
        BY <4>1
      <4>. QED BY <2>3, <3>1, <4>2
    <3>2. CASE n + 1 \notin s /\ s # {}
      <4>1. s \in SUBSET (1 .. n) /\ h[s] = g[s]
        BY <2>3, <3>2
      <4>2. s \ {Max(s)} \in SUBSET (1 .. n + 1) /\ n + 1 \notin s \ {Max(s)}
        BY <3>2
      <4>3. h[s \ {Max(s)}] = g[s \ {Max(s)}]
        BY <4>2
      <4>4. g[s] = Turn(g, s)
        BY <2>2, <4>1
      <4>. HIDE DEF h
      <4>. QED BY <3>2, <4>1, <4>3, <4>4
    <3>3. CASE s = {}
      BY <2>2, <3>3
    <3>. QED BY <3>1, <3>2, <3>3
  <2>. HIDE DEF h, Turn
  <2>. QED BY <2>4, <2>5
<1>3. Nat \subseteq T
  <2>. HIDE DEF T
  <2>. QED BY <1>1, <1>2, SetInduction
<1>4. m \in T
  <2>. HIDE DEF T
  <2>. QED BY <1>3
<1>5. Table(m)
  <2>. HIDE DEF Table
  <2>. QED BY <1>4
<1>. QED BY <1>5 DEF Tabled

(* Two lists that share no member make a list without repetitions, and so  *)
(* does every part of it that starts at its first member.                  *)
LEMMA ConcatApart ==
    ASSUME NEW S, NEW a \in Seq(S), NEW b \in Seq(S),
           IsInjective(a), IsInjective(b), ToSet(a) \cap ToSet(b) = {}
    PROVE  /\ a \o b \in Seq(S) /\ IsInjective(a \o b)
           /\ ToSet(a \o b) = ToSet(a) \cup ToSet(b)
<1>1. PICK m \in Nat, n \in Nat : m = Len(a) /\ n = Len(b)
  OBVIOUS
<1>2. PICK ab : ab = a \o b
  OBVIOUS
<1>3. /\ ab \in Seq(S) /\ Len(ab) = m + n
      /\ \A i \in 1 .. m + n : ab[i] = IF i <= m THEN a[i] ELSE b[i - m]
  BY <1>1, <1>2, ConcatProperties
<1>4. DOMAIN a = 1 .. m /\ DOMAIN b = 1 .. n /\ DOMAIN ab = 1 .. m + n
  BY <1>1, <1>3
<1>5. \A i \in 1 .. m + n : \/ i \in 1 .. m /\ ab[i] = a[i] /\ ab[i] \in ToSet(a)
                           \/ /\ i - m \in 1 .. n /\ ab[i] = b[i - m]
                              /\ ab[i] \in ToSet(b)
  <2>. TAKE i \in 1 .. m + n
  <2>1. i <= m => i \in 1 .. m
    OBVIOUS
  <2>2. ~(i <= m) => i - m \in 1 .. n
    OBVIOUS
  <2>. QED BY <1>3, <1>4, <2>1, <2>2 DEF ToSet
<1>6. IsInjective(ab)
  <2>. SUFFICES ASSUME NEW i \in 1 .. m + n, NEW j \in 1 .. m + n, ab[i] = ab[j]
                PROVE  i = j
    BY <1>4 DEF IsInjective
  <2>1. CASE ab[i] \in ToSet(a)
    <3>1. ab[i] \notin ToSet(b)
      BY <2>1
    <3>2. i \in 1 .. m /\ j \in 1 .. m /\ a[i] = a[j]
      BY <1>5, <3>1
    <3>. QED BY <1>4, <3>2 DEF IsInjective
  <2>2. CASE ab[i] \notin ToSet(a)
    <3>1. i - m \in 1 .. n /\ j - m \in 1 .. n /\ b[i - m] = b[j - m]
      BY <1>5, <2>2
    <3>2. i - m = j - m
      BY <1>4, <3>1 DEF IsInjective
    <3>. QED BY <3>2
  <2>. QED BY <2>1, <2>2
<1>7. ToSet(ab) = ToSet(a) \cup ToSet(b)
  <2>1. \A x \in ToSet(ab) : x \in ToSet(a) \cup ToSet(b)
    BY <1>4, <1>5 DEF ToSet
  <2>2. ASSUME NEW x \in ToSet(a) PROVE x \in ToSet(ab)
    <3>1. PICK i \in 1 .. m : x = a[i]
      BY <1>4, <2>2 DEF ToSet
    <3>2. i \in 1 .. m + n /\ ab[i] = x
      BY <1>3, <3>1
    <3>. QED BY <1>4, <3>2 DEF ToSet
  <2>3. ASSUME NEW x \in ToSet(b) PROVE x \in ToSet(ab)
    <3>1. PICK i \in 1 .. n : x = b[i]
      BY <1>4, <2>3 DEF ToSet
    <3>2. i + m \in 1 .. m + n /\ ~(i + m <= m) /\ (i + m) - m = i
      OBVIOUS
    <3>3. ab[i + m] = x
      BY <1>3, <3>1, <3>2
    <3>. QED BY <1>4, <3>2, <3>3 DEF ToSet
  <2>. QED BY <2>1, <2>2, <2>3
<1>. QED BY <1>2, <1>3, <1>6, <1>7

LEMMA StartApart ==
    ASSUME NEW S, NEW s \in Seq(S), IsInjective(s), NEW n \in 0 .. Len(s)
    PROVE  /\ SubSeq(s, 1, n) \in Seq(ToSet(s)) /\ Len(SubSeq(s, 1, n)) = n
           /\ IsInjective(SubSeq(s, 1, n))
<1>1. PICK r : r = SubSeq(s, 1, n)
  OBVIOUS
<1>2. DOMAIN s = 1 .. Len(s) /\ Len(s) \in Nat
  OBVIOUS
<1>3. r \in Seq(S) /\ Len(r) = n /\ DOMAIN r = 1 .. n /\ \A i \in 1 .. n : r[i] = s[i]
  BY <1>1, <1>2
<1>4. \A i \in 1 .. n : i \in 1 .. Len(s)
  BY <1>2
<1>5. IsInjective(r)
  BY <1>2, <1>3, <1>4 DEF IsInjective
<1>6. r \in Seq(ToSet(s))
  <2>1. \A i \in 1 .. n : r[i] \in ToSet(s)
    BY <1>2, <1>3, <1>4 DEF ToSet
  <2>2. Len(r) \in Nat
    BY <1>3
  <2>. QED BY <1>3, <2>1, <2>2
<1>. QED BY <1>1, <1>3, <1>5, <1>6

(* The last position of a part of a list, and of its first members.        *)
LEMMA MaxIsMember ==
    ASSUME NEW m \in Nat, NEW S \in SUBSET (1 .. m), S # {}
    PROVE  Max(S) \in 1 .. m
<1>1. IsFiniteSet(S)
  <2>1. IsFiniteSet(1 .. m)
    BY FS_Interval
  <2>. QED BY <2>1, FS_Subset
<1>. DEFINE R == {e \in S \X S : e[2] < e[1]}
<1>2. /\ \A a \in S : <<a, a>> \notin R
      /\ \A a, b, c \in S : <<a, b>> \in R /\ <<b, c>> \in R => <<a, c>> \in R
  OBVIOUS
<1>3. PICK x \in S : \A y \in S : <<y, x>> \notin R
  <2>. HIDE DEF R
  <2>. QED BY <1>1, <1>2, LeastExists
<1>4. \A y \in S : x >= y
  <2>1. x \in Int /\ \A y \in S : y \in Int /\ (<<y, x>> \in R <=> x < y)
    OBVIOUS
  <2>2. \A y \in S : ~(x < y)
    <3>. HIDE DEF R
    <3>. QED BY <1>3, <2>1
  <2>. QED BY ONLY <2>1, <2>2
<1>. QED BY <1>4 DEF Max

LEMMA MaxOfFirst ==
    ASSUME NEW m \in Nat, NEW i \in 1 .. m
    PROVE  /\ 1 .. i \in SUBSET (1 .. m) /\ 1 .. i # {}
           /\ Max(1 .. i) = i /\ (1 .. i) \ {i} = 1 .. i - 1
<1>1. i \in 1 .. i /\ \A y \in 1 .. i : i >= y
  OBVIOUS
<1>2. \A x \in 1 .. i : (\A y \in 1 .. i : x >= y) => x = i
  BY <1>1
<1>3. Max(1 .. i) = i
  BY <1>1, <1>2 DEF Max
<1>4. (1 .. i) \ {i} = 1 .. i - 1 /\ 1 .. i \in SUBSET (1 .. m)
  OBVIOUS
<1>. QED BY <1>1, <1>3, <1>4

(* No minimum is above one of the numbers it is taken of.                  *)
LEMMA MinOfThree ==
    ASSUME NEW a \in Int, NEW b \in Int, NEW c \in Int
    PROVE  Min({a, b, c}) \in {a, b, c} /\ Min({a, b, c}) <= c
<1>1. \E x \in {a, b, c} : \A y \in {a, b, c} : x <= y
  <2>1. \/ a <= b /\ a <= c
        \/ b <= a /\ b <= c
        \/ c <= a /\ c <= b
    OBVIOUS
  <2>. QED BY <2>1
<1>. QED BY <1>1 DEF Min
=============================================================================

--------------------------- MODULE NFResourcesLemmas ---------------------------
(***************************************************************************)
(* What the list helpers of InterfaceConfigs and NFResources return, for   *)
(* lists of any length. The functions that run over a list are recursive   *)
(* on its prefixes; what they compute is shown by induction on sets of     *)
(* numbers, since the natural numbers are well-founded.                    *)
(***************************************************************************)
EXTENDS NFResources, WellFoundedInduction, FiniteSetTheorems, SequenceTheorems, TLAPS

-----------------------------------------------------------------------------
(* Induction and recursion along a list *)

LEMMA LeastNumber ==
  ASSUME NEW S \in SUBSET Nat, S # {}
  PROVE  \E x \in S : \A y \in S : x <= y
<1> DEFINE R == OpToRel(<, Nat)
<1>1. PICK x \in S : \A y \in S : <<y, x>> \notin R
  <2> HIDE DEF R
  <2>1. IsWellFoundedOn(R, Nat)
    BY NatLessThanWellFounded DEF R
  <2> QED BY <2>1, WFMin
<1>2. \A y \in S : ~ (y < x)
  BY <1>1 DEF OpToRel
<1> QED BY <1>2

LEMMA ListInduction ==
  ASSUME NEW N \in Nat, NEW S, 0 \in S, \A n \in 1 .. N : n - 1 \in S => n \in S
  PROVE  \A n \in 0 .. N : n \in S
<1> DEFINE T == (0 .. N) \ S
<1> SUFFICES ASSUME T # {} PROVE FALSE
  OBVIOUS
<1>1. PICK x \in T : \A y \in T : x <= y
  <2>1. T \in SUBSET Nat
    OBVIOUS
  <2> HIDE DEF T
  <2> QED BY <2>1, LeastNumber
<1>2. x # 0 /\ x \in 1 .. N /\ x - 1 \in 0 .. N
  OBVIOUS
<1>3. x - 1 \in S
  BY <1>1, <1>2
<1> QED BY <1>2, <1>3

(* A function that is given at 0 and from each number to the next exists. *)
RunOf(f, N, base, step) == f[0] = base /\ \A n \in 1 .. N : f[n] = step[<<n, f[n - 1]>>]
HasRun(N, A, base, step) == \E f \in [0 .. N -> A] : RunOf(f, N, base, step)

LEMMA ListRecursion ==
  ASSUME NEW N \in Nat, NEW A, NEW base \in A, NEW step \in [(1 .. N) \X A -> A]
  PROVE  HasRun(N, A, base, step)
<1> USE DEF RunOf
<1> DEFINE S == {m \in 0 .. N : \E f \in [0 .. m -> A] : RunOf(f, m, base, step)}
<1>1. 0 \in S
  <2> DEFINE f == [n \in 0 .. 0 |-> base]
  <2>1. f \in [0 .. 0 -> A] /\ f[0] = base
    OBVIOUS
  <2> HIDE DEF f
  <2> QED BY <2>1
<1>2. ASSUME NEW m \in 1 .. N, m - 1 \in S PROVE m \in S
  <2>1. PICK f \in [0 .. m - 1 -> A] : RunOf(f, m - 1, base, step)
    BY <1>2
  <2> DEFINE g == [n \in 0 .. m |-> IF n = m THEN step[<<m, f[m - 1]>>] ELSE f[n]]
  <2>2. step[<<m, f[m - 1]>>] \in A
    OBVIOUS
  <2>3. g \in [0 .. m -> A]
    BY <2>2
  <2>4. ASSUME NEW n \in 1 .. m PROVE g[n] = step[<<n, g[n - 1]>>]
    <3>1. g[n - 1] = f[n - 1]
      OBVIOUS
    <3>2. CASE n = m
      <4>1. g[m] = step[<<m, f[m - 1]>>]
        OBVIOUS
      <4> HIDE DEF g
      <4> QED BY <3>1, <3>2, <4>1
    <3>3. CASE n # m
      <4>1. n \in 1 .. m - 1 /\ g[n] = f[n]
        BY <3>3
      <4> QED BY <2>1, <3>1, <4>1
    <3> QED BY <3>2, <3>3
  <2>5. g[0] = base
    BY <2>1
  <2> HIDE DEF g
  <2> QED BY <2>3, <2>4, <2>5
<1>3. N \in S
  <2> HIDE DEF S
  <2> QED BY <1>1, <1>2, ListInduction
<1> QED BY <1>3 DEF HasRun

-----------------------------------------------------------------------------
(* Selecting from a list *)

SelectionRun(f, list, set) ==
  /\ f[0] = <<>>
  /\ \A n \in 1 .. Len(list) :
       f[n] = IF list[n] \in set THEN Append(f[n - 1], list[n]) ELSE f[n - 1]
  /\ Those(list, set) = f[Len(list)]
HasSelectionRun(list, set, X) ==
  \E f \in [0 .. Len(list) -> Seq(X)] : SelectionRun(f, list, set)

LEMMA ThoseRun ==
  ASSUME NEW X, NEW list \in Seq(X), NEW set
  PROVE  HasSelectionRun(list, set, X)
<1> DEFINE N == Len(list)
           A == Seq(X)
           Next1(n, r) == IF list[n] \in set THEN Append(r, list[n]) ELSE r
           step == [p \in (1 .. N) \X A |-> Next1(p[1], p[2])]
           Run(f) == [n \in 0 .. N |->
                        IF n = 0 THEN <<>>
                        ELSE IF list[n] \in set THEN Append(f[n - 1], list[n]) ELSE f[n - 1]]
           upTo == CHOOSE f : f = Run(f)
           base == <<>>
<1>1. N \in Nat /\ base \in A
  OBVIOUS
<1>2. \A n \in 1 .. N, r \in A : Next1(n, r) \in A
  <2>1. ASSUME NEW n \in 1 .. N, NEW r \in Seq(X) PROVE Append(r, list[n]) \in Seq(X)
    <3>1. list[n] \in X
      OBVIOUS
    <3> QED BY <3>1
  <2> QED BY <2>1
<1>3. step \in [(1 .. N) \X A -> A]
  <2> HIDE DEF N, A, Next1
  <2> QED BY <1>2
<1>4. \A n \in 1 .. N, r \in A : step[<<n, r>>] = Next1(n, r)
  <2> HIDE DEF N, A, Next1
  <2> QED OBVIOUS
<1>5. HasRun(N, A, base, step)
  <2> HIDE DEF N, A, step, base
  <2> QED BY <1>1, <1>3, ListRecursion
<1>6. PICK f \in [0 .. N -> A] : RunOf(f, N, base, step)
  BY <1>5 DEF HasRun
<1>7. ASSUME NEW n \in 1 .. N PROVE n - 1 \in 0 .. N /\ n # 0 /\ f[n] = Next1(n, f[n - 1])
  <2>1. n - 1 \in 0 .. N /\ n # 0
    <3> HIDE DEF N
    <3> QED BY <1>1
  <2>2. f[n - 1] \in A
    <3> HIDE DEF A, N
    <3> QED BY <2>1
  <2> HIDE DEF A, N, Next1, step
  <2> QED BY <1>4, <1>6, <2>1, <2>2 DEF RunOf
<1>8. f = Run(f)
  <2>1. ASSUME NEW n \in 0 .. N PROVE f[n] = Run(f)[n]
    <3>1. Run(f)[n] = IF n = 0 THEN base ELSE Next1(n, f[n - 1])
      OBVIOUS
    <3>2. n = 0 \/ n \in 1 .. N
      <4> HIDE DEF N
      <4> QED BY <1>1
    <3> HIDE DEF A, step, Run, Next1, base, N
    <3> QED BY <1>6, <1>7, <3>1, <3>2 DEF RunOf
  <2>2. f = [n \in 0 .. N |-> f[n]] /\ Run(f) = [n \in 0 .. N |-> Run(f)[n]]
    <3> HIDE DEF step, A
    <3> QED OBVIOUS
  <2> HIDE DEF Run
  <2> QED BY <2>1, <2>2
<1>9. upTo = Run(upTo)
  <2> HIDE DEF Run
  <2> QED BY <1>8
<1>10. Those(list, set) = upTo[N]
  BY DEF Those
<1>11. upTo[0] = base /\ \A n \in 1 .. N : upTo[n] = Next1(n, upTo[n - 1])
  <2>1. \A g : Run(g)[0] = base /\ \A n \in 1 .. N : Run(g)[n] = Next1(n, g[n - 1])
    <3> TAKE g
    <3> HIDE DEF upTo
    <3>1. 0 \in 0 .. N /\ \A n \in 1 .. N : n \in 0 .. N /\ n # 0
      <4> HIDE DEF N
      <4> QED BY <1>1
    <3> HIDE DEF N
    <3> QED BY <3>1
  <2> HIDE DEF upTo, Run, Next1, base, N
  <2> QED BY <1>9, <2>1
<1>12. \A n \in 0 .. N : upTo[n] \in A
  <2> DEFINE S == {m \in 0 .. N : upTo[m] \in A}
  <2>1. 0 \in S
    <3> HIDE DEF A, N, upTo, base
    <3> QED BY <1>1, <1>11
  <2>2. ASSUME NEW n \in 1 .. N, n - 1 \in S PROVE n \in S
    <3> HIDE DEF A, upTo, Next1
    <3> QED BY <1>2, <1>11, <2>2
  <2>3. \A n \in 0 .. N : n \in S
    <3> HIDE DEF S, N
    <3> QED BY <1>1, <2>1, <2>2, ListInduction
  <2> QED BY <2>3
<1>13. upTo \in [0 .. N -> A]
  <2>1. upTo = [n \in 0 .. N |-> Run(upTo)[n]]
    <3> HIDE DEF upTo
    <3> QED BY <1>9
  <2> HIDE DEF upTo, A, Run, N
  <2> QED BY <1>9, <1>12, <2>1
<1> HIDE DEF upTo
<1> QED BY <1>10, <1>11, <1>13 DEF HasSelectionRun, SelectionRun

LEMMA AppendToSet ==
  ASSUME NEW X, NEW s \in Seq(X), NEW x \in X
  PROVE  ToSet(Append(s, x)) = ToSet(s) \cup {x} /\ Append(s, x) # <<>>
<1>1. DOMAIN Append(s, x) = 1 .. Len(s) + 1 /\ DOMAIN s = 1 .. Len(s) /\ Len(s) \in Nat
  OBVIOUS
<1>2. Append(s, x)[Len(s) + 1] = x /\ \A i \in 1 .. Len(s) : Append(s, x)[i] = s[i]
  OBVIOUS
<1>3. Append(s, x) # <<>>
  BY <1>1
<1>4. 1 .. Len(s) + 1 = (1 .. Len(s)) \cup {Len(s) + 1}
  BY <1>1
<1> HIDE DEF ToSet
<1>5. \A y : y \in ToSet(Append(s, x)) <=> y \in ToSet(s) \/ y = x
  BY <1>1, <1>2, <1>4 DEF ToSet
<1> QED BY <1>3, <1>5

LEMMA ConcatToSet ==
  ASSUME NEW X, NEW s \in Seq(X), NEW t \in Seq(X)
  PROVE  ToSet(s \o t) = ToSet(s) \cup ToSet(t)
<1>1. /\ DOMAIN (s \o t) = 1 .. Len(s) + Len(t) /\ DOMAIN s = 1 .. Len(s)
      /\ DOMAIN t = 1 .. Len(t) /\ Len(s) \in Nat /\ Len(t) \in Nat
  OBVIOUS
<1>2. /\ \A i \in 1 .. Len(s) : i \in 1 .. Len(s) + Len(t) /\ (s \o t)[i] = s[i]
      /\ \A i \in 1 .. Len(t) :
           Len(s) + i \in 1 .. Len(s) + Len(t) /\ (s \o t)[Len(s) + i] = t[i]
  OBVIOUS
<1>3. \A k \in 1 .. Len(s) + Len(t) :
        k \in 1 .. Len(s) \/ \E i \in 1 .. Len(t) : k = Len(s) + i
  <2> TAKE k \in 1 .. Len(s) + Len(t)
  <2>1. CASE k > Len(s)
    <3>1. k - Len(s) \in 1 .. Len(t) /\ k = Len(s) + (k - Len(s))
      BY <1>1, <2>1
    <3> QED BY <3>1
  <2> QED BY <1>1, <2>1
<1>4. ASSUME NEW y \in ToSet(s \o t) PROVE y \in ToSet(s) \cup ToSet(t)
  <2>1. PICK k \in 1 .. Len(s) + Len(t) : y = (s \o t)[k]
    BY <1>1 DEF ToSet
  <2>2. CASE k \in 1 .. Len(s)
    BY <1>1, <1>2, <2>1, <2>2 DEF ToSet
  <2>3. ASSUME NEW i \in 1 .. Len(t), k = Len(s) + i PROVE y \in ToSet(t)
    <3>1. y = t[i]
      BY <1>2, <2>1, <2>3
    <3> QED BY <1>1, <3>1 DEF ToSet
  <2> QED BY <1>3, <2>2, <2>3
<1>5. ASSUME NEW y \in ToSet(s) PROVE y \in ToSet(s \o t)
  BY <1>1, <1>2 DEF ToSet
<1>6. ASSUME NEW y \in ToSet(t) PROVE y \in ToSet(s \o t)
  <2>1. PICK i \in 1 .. Len(t) : y = t[i]
    BY <1>1 DEF ToSet
  <2> QED BY <1>1, <1>2, <2>1 DEF ToSet
<1> QED BY <1>4, <1>5, <1>6

(* The selection has the elements of the list that are in the set. *)
LEMMA ThoseSelects ==
  ASSUME NEW X, NEW list \in Seq(X), NEW set
  PROVE  Those(list, set) \in Seq(X) /\ ToSet(Those(list, set)) = ToSet(list) \cap set
<1> DEFINE N == Len(list)
           First(n) == {list[i] : i \in 1 .. n}
<1>1. PICK f \in [0 .. N -> Seq(X)] : SelectionRun(f, list, set)
  <2>1. HasSelectionRun(list, set, X)
    BY ThoseRun
  <2> QED BY <2>1 DEF HasSelectionRun
<1> DEFINE S == {n \in 0 .. N : ToSet(f[n]) = First(n) \cap set}
<1>2. N \in Nat /\ \A n \in 1 .. N : list[n] \in X
  OBVIOUS
<1>3. 0 \in S
  <2>1. ToSet(<<>>) = {} /\ First(0) = {}
    BY DEF ToSet
  <2>2. f[0] = <<>> /\ 0 \in 0 .. N
    BY <1>1, <1>2 DEF SelectionRun
  <2> HIDE DEF N, First
  <2> QED BY <2>1, <2>2
<1>4. ASSUME NEW n \in 1 .. N, n - 1 \in S PROVE n \in S
  <2>1. First(n) = First(n - 1) \cup {list[n]}
    <3>1. 1 .. n = (1 .. n - 1) \cup {n}
      BY <1>2
    <3> QED BY <3>1
  <2>2. n - 1 \in 0 .. N /\ n \in 0 .. N /\ f[n - 1] \in Seq(X)
    <3> HIDE DEF N
    <3> QED BY <1>2
  <2>3. ToSet(Append(f[n - 1], list[n])) = ToSet(f[n - 1]) \cup {list[n]}
    <3> HIDE DEF N
    <3> QED BY <1>2, <2>2, AppendToSet
  <2>4. f[n] = IF list[n] \in set THEN Append(f[n - 1], list[n]) ELSE f[n - 1]
    BY <1>1 DEF SelectionRun
  <2> HIDE DEF N, First
  <2> QED BY <1>4, <2>1, <2>2, <2>3, <2>4
<1>5. N \in S
  <2> HIDE DEF N, S
  <2>1. \A n \in 0 .. N : n \in S
    BY <1>2, <1>3, <1>4, ListInduction
  <2> QED BY <1>2, <2>1
<1>6. ToSet(list) = First(N) /\ f[N] \in Seq(X)
  BY DEF ToSet
<1>7. Those(list, set) = f[N]
  BY <1>1 DEF SelectionRun
<1> QED BY <1>5, <1>6, <1>7

(* When all of it is in the set, the list is left as it was. *)
LEMMA ThoseAll ==
  ASSUME NEW X, NEW list \in Seq(X), NEW set, ToSet(list) \subseteq set
  PROVE  Those(list, set) = list
<1> DEFINE N == Len(list)
<1>1. PICK f \in [0 .. N -> Seq(X)] : SelectionRun(f, list, set)
  <2>1. HasSelectionRun(list, set, X)
    BY ThoseRun
  <2> QED BY <2>1 DEF HasSelectionRun
<1> DEFINE Good(n) == Len(f[n]) = n /\ \A i \in 1 .. n : f[n][i] = list[i]
           S == {n \in 0 .. N : Good(n)}
<1>2. N \in Nat /\ \A n \in 1 .. N : list[n] \in X /\ list[n] \in set
  BY DEF ToSet
<1>3. 0 \in S
  <2>1. f[0] = <<>> /\ 0 \in 0 .. N
    BY <1>1, <1>2 DEF SelectionRun
  <2> HIDE DEF N
  <2> QED BY <2>1
<1>4. ASSUME NEW n \in 1 .. N, n - 1 \in S PROVE n \in S
  <2> DEFINE g == f[n - 1]
  <2>1. n - 1 \in 0 .. N /\ n \in 0 .. N /\ g \in Seq(X) /\ list[n] \in X /\ list[n] \in set
    <3> HIDE DEF N
    <3> QED BY <1>2
  <2>2. f[n] = Append(g, list[n])
    <3>1. f[n] = IF list[n] \in set THEN Append(f[n - 1], list[n]) ELSE f[n - 1]
      BY <1>1 DEF SelectionRun
    <3> QED BY <2>1, <3>1
  <2>3. Len(g) = n - 1 /\ \A i \in 1 .. n - 1 : g[i] = list[i]
    <3> HIDE DEF N
    <3> QED BY <1>4
  <2> HIDE DEF N, g
  <2>4. /\ Len(Append(g, list[n])) = n /\ Append(g, list[n])[n] = list[n]
        /\ \A i \in 1 .. n - 1 : Append(g, list[n])[i] = g[i]
    BY <2>1, <2>3
  <2>5. \A i \in 1 .. n : i \in 1 .. n - 1 \/ i = n
    OBVIOUS
  <2> QED BY <2>1, <2>2, <2>3, <2>4, <2>5
<1>5. N \in S
  <2> HIDE DEF N, S
  <2>1. \A n \in 0 .. N : n \in S
    BY <1>2, <1>3, <1>4, ListInduction
  <2> QED BY <1>2, <2>1
<1>6. f[N] \in Seq(X) /\ Len(f[N]) = Len(list) /\ \A i \in 1 .. Len(f[N]) : f[N][i] = list[i]
  BY <1>2, <1>5
<1>7. f[N] = list
  <2> HIDE DEF N
  <2> QED BY <1>6, SeqEqual
<1> QED BY <1>1, <1>7 DEF SelectionRun

-----------------------------------------------------------------------------
(* Joining lists *)

JoinRun(f, seqs) ==
  /\ f[1] = seqs[1]
  /\ \A n \in 2 .. Len(seqs) : f[n] = f[n - 1] \o seqs[n]
  /\ FlattenSeq(seqs) = f[Len(seqs)]
HasJoinRun(seqs) == \E f : JoinRun(f, seqs)

LEMMA JoinRunExists ==
  ASSUME NEW X, NEW seqs \in Seq(Seq(X)), seqs # <<>>
  PROVE  HasJoinRun(seqs)
<1> DEFINE N == Len(seqs)
           A == Seq(X)
           step == [p \in (1 .. N) \X A |-> p[2] \o seqs[p[1]]]
           base == <<>>
           Run(f) == [i \in 1 .. N |-> IF i = 1 THEN seqs[i] ELSE f[i - 1] \o seqs[i]]
           upTo == CHOOSE f : f = Run(f)
<1>1. N \in Nat /\ N # 0 /\ base \in A /\ \A n \in 1 .. N : seqs[n] \in A
  OBVIOUS
<1>2. \A n \in 1 .. N, r \in A : r \o seqs[n] \in A
  <2> HIDE DEF N
  <2> QED BY <1>1
<1>3. step \in [(1 .. N) \X A -> A] /\ \A n \in 1 .. N, r \in A : step[<<n, r>>] = r \o seqs[n]
  <2> HIDE DEF N, A
  <2> QED BY <1>2
<1>4. HasRun(N, A, base, step)
  <2> HIDE DEF N, A, step, base
  <2> QED BY <1>1, <1>3, ListRecursion
<1>5. PICK g \in [0 .. N -> A] : RunOf(g, N, base, step)
  BY <1>4 DEF HasRun
<1>6. ASSUME NEW n \in 1 .. N PROVE n - 1 \in 0 .. N /\ g[n] = g[n - 1] \o seqs[n]
  <2>1. n - 1 \in 0 .. N
    <3> HIDE DEF N
    <3> QED BY <1>1
  <2>2. g[n - 1] \in A
    <3> HIDE DEF A, N
    <3> QED BY <2>1
  <2> HIDE DEF A, N, step
  <2> QED BY <1>3, <1>5, <2>1, <2>2 DEF RunOf
<1>7. g[0] = <<>> /\ g[1] = seqs[1]
  <2>1. g[0] = <<>>
    BY <1>5 DEF RunOf
  <2>2. 1 \in 1 .. N /\ g[1] = g[0] \o seqs[1]
    <3>1. 1 \in 1 .. N /\ 1 - 1 = 0
      <4> HIDE DEF N
      <4> QED BY <1>1
    <3>2. g[1] = g[1 - 1] \o seqs[1]
      <4> HIDE DEF N
      <4> QED BY <1>6, <3>1
    <3> QED BY <3>1, <3>2
  <2>3. seqs[1] \in Seq(X)
    BY <1>1, <2>2
  <2> QED BY <2>1, <2>2, <2>3
<1> DEFINE f == [i \in 1 .. N |-> g[i]]
<1>8. f = Run(f)
  <2>1. ASSUME NEW i \in 1 .. N PROVE f[i] = Run(f)[i]
    <3>1. CASE i = 1
      BY <1>7, <3>1
    <3>2. CASE i # 1
      <4>1. i - 1 \in 1 .. N
        <5> HIDE DEF N
        <5> QED BY <1>1, <3>2
      <4>2. f[i] = g[i] /\ f[i - 1] = g[i - 1]
        BY <4>1
      <4>3. Run(f)[i] = f[i - 1] \o seqs[i]
        <5> HIDE DEF f
        <5> QED BY <3>2
      <4> HIDE DEF f, Run, N
      <4> QED BY <1>6, <4>2, <4>3
    <3> QED BY <3>1, <3>2
  <2>2. f = [i \in 1 .. N |-> f[i]] /\ Run(f) = [i \in 1 .. N |-> Run(f)[i]]
    OBVIOUS
  <2> HIDE DEF Run, f
  <2> QED BY <2>1, <2>2
<1>9. upTo = Run(upTo)
  <2> HIDE DEF Run, f
  <2> QED BY <1>8
<1>10. FlattenSeq(seqs) = upTo[N]
  BY <1>1 DEF FlattenSeq
<1>11. upTo[1] = seqs[1] /\ \A n \in 2 .. N : upTo[n] = upTo[n - 1] \o seqs[n]
  <2>1. 1 \in 1 .. N /\ \A n \in 2 .. N : n \in 1 .. N /\ n # 1
    <3> HIDE DEF N
    <3> QED BY <1>1
  <2>2. \A h : Run(h)[1] = seqs[1] /\ \A n \in 2 .. N : Run(h)[n] = h[n - 1] \o seqs[n]
    <3> TAKE h
    <3> HIDE DEF N, upTo
    <3> QED BY <2>1
  <2> HIDE DEF upTo, Run, N
  <2> QED BY <1>9, <2>2
<1> HIDE DEF upTo
<1> QED BY <1>10, <1>11 DEF HasJoinRun, JoinRun

(* The list of all elements of the lists. *)
LEMMA FlattenSeqJoins ==
  ASSUME NEW X, NEW seqs \in Seq(Seq(X))
  PROVE  /\ FlattenSeq(seqs) \in Seq(X)
         /\ ToSet(FlattenSeq(seqs)) = UNION {ToSet(seqs[i]) : i \in DOMAIN seqs}
<1> DEFINE N == Len(seqs)
<1>1. N \in Nat /\ DOMAIN seqs = 1 .. N /\ \A n \in 1 .. N : seqs[n] \in Seq(X)
  OBVIOUS
<1>2. CASE seqs = <<>>
  <2>1. FlattenSeq(seqs) = <<>> /\ DOMAIN seqs = {}
    BY <1>2 DEF FlattenSeq
  <2>2. ToSet(<<>>) = {}
    BY DEF ToSet
  <2>3. <<>> \in Seq(X)
    OBVIOUS
  <2> QED BY <2>1, <2>2, <2>3
<1>3. CASE seqs # <<>>
  <2>1. PICK f : JoinRun(f, seqs)
    <3>1. HasJoinRun(seqs)
      BY <1>3, JoinRunExists
    <3> QED BY <3>1 DEF HasJoinRun
  <2> DEFINE All(n) == UNION {ToSet(seqs[i]) : i \in 1 .. n}
             Good(n) == f[n] \in Seq(X) /\ ToSet(f[n]) = All(n)
             S == {0} \cup {n \in 1 .. N : Good(n)}
  <2>2. N # 0
    BY <1>3
  <2>3. ASSUME NEW n \in 1 .. N, n - 1 \in S PROVE n \in S
    <3>1. CASE n = 1
      <4>1. f[1] = seqs[1] /\ 1 \in 1 .. N
        BY <2>1, <3>1 DEF JoinRun
      <4>2. All(1) = ToSet(seqs[1])
        <5>1. 1 .. 1 = {1}
          OBVIOUS
        <5> QED BY <5>1
      <4>3. Good(1)
        BY <1>1, <4>1, <4>2
      <4> QED BY <3>1, <4>1, <4>3
    <3>2. CASE n # 1
      <4>1. n \in 2 .. N /\ n - 1 # 0 /\ 1 .. n = (1 .. n - 1) \cup {n}
        <5> HIDE DEF N
        <5> QED BY <1>1, <3>2
      <4>2. Good(n - 1)
        BY <2>3, <4>1
      <4>3. f[n] = f[n - 1] \o seqs[n]
        BY <2>1, <4>1 DEF JoinRun
      <4>4. All(n) = All(n - 1) \cup ToSet(seqs[n])
        <5> HIDE DEF ToSet
        <5> QED BY <4>1
      <4>5. seqs[n] \in Seq(X) /\ f[n - 1] \in Seq(X)
        BY <1>1, <4>2
      <4>6. f[n] \in Seq(X)
        BY <4>3, <4>5
      <4>7. ToSet(f[n]) = ToSet(f[n - 1]) \cup ToSet(seqs[n])
        BY <4>3, <4>5, ConcatToSet
      <4>8. Good(n)
        <5> HIDE DEF All
        <5> QED BY <4>2, <4>4, <4>6, <4>7
      <4> HIDE DEF Good
      <4> QED BY <4>8
    <3> QED BY <3>1, <3>2
  <2>4. N \in S
    <3> HIDE DEF N, S
    <3>1. 0 \in S
      BY DEF S
    <3>2. \A n \in 0 .. N : n \in S
      BY <1>1, <2>3, <3>1, ListInduction
    <3> QED BY <1>1, <3>2
  <2>5. Good(N)
    <3> HIDE DEF N, Good
    <3> QED BY <2>2, <2>4
  <2>6. FlattenSeq(seqs) = f[N]
    BY <2>1 DEF JoinRun
  <2> QED BY <1>1, <2>5, <2>6
<1> QED BY <1>2, <1>3

-----------------------------------------------------------------------------
(* The first element of a kind *)

LEMMA MinIsLeast ==
  ASSUME NEW S \in SUBSET Nat, S # {}
  PROVE  Min(S) \in S /\ \A y \in S : Min(S) <= y
<1>1. \E x \in S : \A y \in S : x <= y
  BY LeastNumber
<1>2. Min(S) = CHOOSE x \in S : \A y \in S : x <= y
  BY DEF Min
<1> QED BY <1>1, <1>2

NamedIn(list, name) == {i \in 1 .. Len(list) : list[i].name = name}

(* GetFirstInterfaceConfig finds the first interface of the name. *)
LEMMA FirstInterface ==
  ASSUME NEW X, NEW list \in Seq(X), NEW name
  PROVE  /\ NamedIn(list, name) = {} => GetFirstInterfaceConfig(list, name) = Failed
         /\ NamedIn(list, name) # {} =>
              \E i \in NamedIn(list, name) :
                /\ \A j \in NamedIn(list, name) : i <= j
                /\ GetFirstInterfaceConfig(list, name) = Ok(list[i])
<1> DEFINE named == NamedIn(list, name)
<1>1. SelectInSeq(list, LAMBDA i : i.name = name) = IF named # {} THEN Min(named) ELSE 0
  BY DEF SelectInSeq, NamedIn
<1>2. CASE named = {}
  BY <1>1, <1>2 DEF GetFirstInterfaceConfig
<1>3. CASE named # {}
  <2>1. Min(named) \in named /\ \A y \in named : Min(named) <= y
    <3>1. named \in SUBSET Nat
      BY DEF NamedIn
    <3> HIDE DEF named
    <3> QED BY <1>3, <3>1, MinIsLeast
  <2>2. Min(named) # 0
    BY <2>1 DEF NamedIn
  <2>3. GetFirstInterfaceConfig(list, name) = Ok(list[Min(named)])
    <3> HIDE DEF named
    <3> QED BY <1>1, <1>3, <2>2 DEF GetFirstInterfaceConfig
  <2> QED BY <1>3, <2>1, <2>3
<1> QED BY <1>2, <1>3

(* Its address is what counts, when it has one that is a CIDR. *)
HasAddress(config) == config.ipv4 # None /\ config.ipv4.address.ip # None

(* What is said of the outcome of GetFirstInterfaceConfigIPv4. *)
IsFirstAddress(first, list, name) ==
  /\ first.out = "ok" <=>
       \E i \in NamedIn(list, name) : (\A j \in NamedIn(list, name) : i <= j) /\ HasAddress(list[i])
  /\ first.out = "ok" =>
       \E i \in NamedIn(list, name) : HasAddress(list[i]) /\ first.val = list[i].ipv4.address.ip

LEMMA FirstAddress ==
  ASSUME NEW X, NEW list \in Seq(X), NEW name
  PROVE  IsFirstAddress(GetFirstInterfaceConfigIPv4(list, name), list, name)
<1> DEFINE named == NamedIn(list, name)
           config == GetFirstInterfaceConfig(list, name)
           first == GetFirstInterfaceConfigIPv4(list, name)
<1>1. first = Then(config, IF config.val.ipv4 = None
                           THEN Panicked
                           ELSE ParseCIDR(config.val.ipv4.address))
  BY DEF GetFirstInterfaceConfigIPv4
<1>2. CASE named = {}
  <2>1. config = Failed
    BY <1>2, FirstInterface
  <2> HIDE DEF config, first
  <2>2. first.out # "ok"
    BY <1>1, <2>1 DEF Then, Failed
  <2> QED BY <1>2, <2>2 DEF IsFirstAddress, first
<1>3. CASE named # {}
  <2>1. PICK i \in named : (\A j \in named : i <= j) /\ config = Ok(list[i])
    BY <1>3, FirstInterface
  <2>2. config.out = "ok" /\ config.val = list[i]
    <3> HIDE DEF config
    <3> QED BY <2>1 DEF Ok
  <2>3. first = IF list[i].ipv4 = None THEN Panicked
                ELSE IF list[i].ipv4.address.ip = None THEN Failed
                ELSE Ok(list[i].ipv4.address.ip)
    <3> HIDE DEF config, first, named
    <3> QED BY <1>1, <2>2 DEF Then, ParseCIDR
  <2>4. (first.out = "ok" <=> HasAddress(list[i]))
        /\ (first.out = "ok" => first.val = list[i].ipv4.address.ip)
    <3> HIDE DEF config, first, named
    <3> QED BY <2>3 DEF HasAddress, Ok, Failed, Panicked
  <2>5. \A k \in named : (\A j \in named : k <= j) => k = i
    BY <2>1 DEF NamedIn
  <2> HIDE DEF config, first, named
  <2>6. /\ first.out = "ok" <=> \E k \in named : (\A j \in named : k <= j) /\ HasAddress(list[k])
        /\ first.out = "ok" =>
             \E k \in named : HasAddress(list[k]) /\ first.val = list[k].ipv4.address.ip
    BY <2>1, <2>4, <2>5
  <2> QED BY <2>6 DEF IsFirstAddress, first, named
<1> QED BY <1>2, <1>3

-----------------------------------------------------------------------------
(* The network list of a pod *)

InterfaceNames == {"n2", "n3", "n4", "n6", "n9"}

LEMMA SortedNamesSet ==
  ASSUME NEW names
  PROVE  /\ SortedNames(names) \in Seq(InterfaceNames)
         /\ ToSet(SortedNames(names)) = InterfaceNames \cap names
<1>1. InterfaceOrder \in Seq(InterfaceNames)
  BY DEF InterfaceOrder, InterfaceNames
<1>2. ToSet(InterfaceOrder) = InterfaceNames
  <2>1. DOMAIN InterfaceOrder = {1, 2, 3, 4, 5}
    BY DEF InterfaceOrder
  <2> QED BY <2>1 DEF InterfaceOrder, InterfaceNames, ToSet
<1> QED BY <1>1, <1>2, ThoseSelects DEF SortedNames

LEMMA ConfigsOfName ==
  ASSUME NEW X, NEW list \in Seq(X), NEW name
  PROVE  /\ GetInterfaceConfigs(list, name) \in Seq(X)
         /\ ToSet(GetInterfaceConfigs(list, name)) = {c \in ToSet(list) : c.name = name}
<1> DEFINE set == {c \in ToSet(list) : c.name = name}
<1>1. Those(list, set) \in Seq(X) /\ ToSet(Those(list, set)) = ToSet(list) \cap set
  <2> HIDE DEF set
  <2> QED BY ThoseSelects
<1> QED BY <1>1 DEF GetInterfaceConfigs

(* There is a network for each interface chosen, unless one cannot have it. *)
Connected(config) == config.ipv4 # None /\ config.ipv4.gateway # None

Chosen(list, names) == {c \in ToSet(list) : c.name \in names}

AreNetworksOf(networks, chosen) ==
  /\ networks.out = "ok" <=> \A c \in chosen : Connected(c)
  /\ networks.out = "ok" => /\ ToSet(networks.val) = {Network(c) : c \in chosen}
                            /\ networks.val \in Seq({Network(c) : c \in chosen})

LEMMA NetworksOfChosen ==
  ASSUME NEW X, NEW list \in Seq(X), NEW names \in SUBSET InterfaceNames
  PROVE  AreNetworksOf(CreateNetworkAttachmentDefinitionNetworks(list, names), Chosen(list, names))
<1> DEFINE chosen   == {c \in ToSet(list) : c.name \in names}
           networks == CreateNetworkAttachmentDefinitionNetworks(list, names)
           sorted   == SortedNames(names)
           lists    == [i \in DOMAIN sorted |-> GetInterfaceConfigs(list, sorted[i])]
           configs  == FlattenSeq(lists)
           bad      == {i \in 1 .. Len(configs) : configs[i].ipv4 = None \/ configs[i].ipv4.gateway = None}
           built    == [i \in DOMAIN configs |-> Network(configs[i])]
<1>1. sorted \in Seq(InterfaceNames) /\ ToSet(sorted) = names
  <2> HIDE DEF sorted
  <2>1. sorted \in Seq(InterfaceNames) /\ ToSet(sorted) = InterfaceNames \cap names
    BY SortedNamesSet DEF sorted
  <2> QED BY <2>1
<1>2. lists \in Seq(Seq(X))
  <2> HIDE DEF sorted
  <2>1. DOMAIN sorted = 1 .. Len(sorted) /\ Len(sorted) \in Nat
    BY <1>1
  <2>2. \A i \in DOMAIN sorted : GetInterfaceConfigs(list, sorted[i]) \in Seq(X)
    BY ConfigsOfName
  <2> QED BY <2>1, <2>2
<1>3. configs \in Seq(X) /\ ToSet(configs) = UNION {ToSet(lists[i]) : i \in DOMAIN lists}
  <2> HIDE DEF lists
  <2> QED BY <1>2, FlattenSeqJoins
<1>4. ToSet(configs) = chosen
  <2>1. \A i \in DOMAIN sorted : ToSet(lists[i]) = {c \in ToSet(list) : c.name = sorted[i]}
    <3> HIDE DEF sorted
    <3> QED BY ConfigsOfName
  <2>2. \A name : name \in names <=> \E i \in DOMAIN sorted : sorted[i] = name
    <3> HIDE DEF sorted
    <3> QED BY <1>1 DEF ToSet
  <2>3. DOMAIN lists = DOMAIN sorted
    OBVIOUS
  <2> HIDE DEF sorted, lists, configs, ToSet
  <2> QED BY <1>3, <2>1, <2>2, <2>3
<1>5. networks = IF (IF bad # {} THEN Min(bad) ELSE 0) # 0
                 THEN IF configs[IF bad # {} THEN Min(bad) ELSE 0].ipv4 = None THEN Panicked ELSE Failed
                 ELSE Ok(built)
  BY DEF CreateNetworkAttachmentDefinitionNetworks, SelectInSeq
<1>6. bad # {} => Min(bad) # 0
  <2>1. bad \in SUBSET Nat /\ 0 \notin bad
    <3> HIDE DEF configs
    <3> QED BY <1>3
  <2> HIDE DEF bad
  <2> QED BY <2>1, MinIsLeast
<1>7. bad = {} <=> \A c \in chosen : Connected(c)
  <2>1. DOMAIN configs = 1 .. Len(configs)
    <3> HIDE DEF configs
    <3> QED BY <1>3
  <2>2. \A c : c \in ToSet(configs) <=> \E i \in 1 .. Len(configs) : configs[i] = c
    <3> HIDE DEF configs
    <3> QED BY <2>1 DEF ToSet
  <2> HIDE DEF configs, chosen
  <2> QED BY <1>4, <2>2 DEF Connected
<1>8. ToSet(built) = {Network(c) : c \in chosen}
  <2>1. ToSet(built) = {Network(configs[i]) : i \in DOMAIN configs}
    <3> HIDE DEF configs
    <3> QED BY DEF ToSet
  <2>2. chosen = {configs[i] : i \in DOMAIN configs}
    <3> HIDE DEF configs, chosen
    <3> QED BY <1>4 DEF ToSet
  <2> HIDE DEF chosen, configs, built
  <2> QED BY <2>1, <2>2
<1>9. built \in Seq({Network(c) : c \in chosen})
  <2>1. DOMAIN configs = 1 .. Len(configs) /\ Len(configs) \in Nat
    <3> HIDE DEF configs
    <3> QED BY <1>3
  <2>2. \A i \in DOMAIN configs : configs[i] \in chosen
    <3> HIDE DEF configs, chosen
    <3> QED BY <1>4 DEF ToSet
  <2> HIDE DEF configs, chosen
  <2> QED BY <2>1, <2>2
<1>10. /\ networks.out = "ok" <=> bad = {}
       /\ networks.out = "ok" => networks.val = built
  <2> HIDE DEF networks, bad, built, configs
  <2> QED BY <1>5, <1>6 DEF Ok, Failed, Panicked
<1>11. AreNetworksOf(networks, chosen)
  <2> HIDE DEF networks, bad, built, chosen
  <2> QED BY <1>7, <1>8, <1>9, <1>10 DEF AreNetworksOf
<1> QED BY <1>11 DEF Chosen

-----------------------------------------------------------------------------
(* The Configs referred to *)

RefsRun(f, refs) ==
  /\ f[0] = <<>>
  /\ \A n \in 1 .. Len(refs) :
       f[n] = IF Contains(f[n - 1], refs[n]) THEN f[n - 1] ELSE Append(f[n - 1], refs[n])
  /\ DistinctRefs(refs) = f[Len(refs)]
HasRefsRun(refs, X) ==
  \E f \in [0 .. Len(refs) -> Seq(X)] : RefsRun(f, refs)

LEMMA DistinctRefsRun ==
  ASSUME NEW X, NEW refs \in Seq(X)
  PROVE  HasRefsRun(refs, X)
<1> DEFINE N == Len(refs)
           A == Seq(X)
           Next1(n, r) == IF Contains(r, refs[n]) THEN r ELSE Append(r, refs[n])
           step == [p \in (1 .. N) \X A |-> Next1(p[1], p[2])]
           Run(f) == [n \in 0 .. N |->
                        IF n = 0 THEN <<>>
                        ELSE IF Contains(f[n - 1], refs[n]) THEN f[n - 1] ELSE Append(f[n - 1], refs[n])]
           upTo == CHOOSE f : f = Run(f)
           base == <<>>
<1>1. N \in Nat /\ base \in A
  OBVIOUS
<1>2. \A n \in 1 .. N, r \in A : Next1(n, r) \in A
  <2>1. ASSUME NEW n \in 1 .. N, NEW r \in Seq(X) PROVE Append(r, refs[n]) \in Seq(X)
    <3>1. refs[n] \in X
      OBVIOUS
    <3> QED BY <3>1
  <2> QED BY <2>1
<1>3. step \in [(1 .. N) \X A -> A]
  <2> HIDE DEF N, A, Next1
  <2> QED BY <1>2
<1>4. \A n \in 1 .. N, r \in A : step[<<n, r>>] = Next1(n, r)
  <2> HIDE DEF N, A, Next1
  <2> QED OBVIOUS
<1>5. HasRun(N, A, base, step)
  <2> HIDE DEF N, A, step, base
  <2> QED BY <1>1, <1>3, ListRecursion
<1>6. PICK f \in [0 .. N -> A] : RunOf(f, N, base, step)
  BY <1>5 DEF HasRun
<1>7. ASSUME NEW n \in 1 .. N PROVE n - 1 \in 0 .. N /\ n # 0 /\ f[n] = Next1(n, f[n - 1])
  <2>1. n - 1 \in 0 .. N /\ n # 0
    <3> HIDE DEF N
    <3> QED BY <1>1
  <2>2. f[n - 1] \in A
    <3> HIDE DEF A, N
    <3> QED BY <2>1
  <2> HIDE DEF A, N, Next1, step
  <2> QED BY <1>4, <1>6, <2>1, <2>2 DEF RunOf
<1>8. f = Run(f)
  <2>1. ASSUME NEW n \in 0 .. N PROVE f[n] = Run(f)[n]
    <3>1. Run(f)[n] = IF n = 0 THEN base ELSE Next1(n, f[n - 1])
      OBVIOUS
    <3>2. n = 0 \/ n \in 1 .. N
      <4> HIDE DEF N
      <4> QED BY <1>1
    <3> HIDE DEF A, step, Run, Next1, base, N
    <3> QED BY <1>6, <1>7, <3>1, <3>2 DEF RunOf
  <2>2. f = [n \in 0 .. N |-> f[n]] /\ Run(f) = [n \in 0 .. N |-> Run(f)[n]]
    <3> HIDE DEF step, A
    <3> QED OBVIOUS
  <2> HIDE DEF Run
  <2> QED BY <2>1, <2>2
<1>9. upTo = Run(upTo)
  <2> HIDE DEF Run
  <2> QED BY <1>8
<1>10. DistinctRefs(refs) = upTo[N]
  BY DEF DistinctRefs
<1>11. upTo[0] = base /\ \A n \in 1 .. N : upTo[n] = Next1(n, upTo[n - 1])
  <2>1. \A g : Run(g)[0] = base /\ \A n \in 1 .. N : Run(g)[n] = Next1(n, g[n - 1])
    <3> TAKE g
    <3> HIDE DEF upTo
    <3>1. 0 \in 0 .. N /\ \A n \in 1 .. N : n \in 0 .. N /\ n # 0
      <4> HIDE DEF N
      <4> QED BY <1>1
    <3> HIDE DEF N
    <3> QED BY <3>1
  <2> HIDE DEF upTo, Run, Next1, base, N
  <2> QED BY <1>9, <2>1
<1>12. \A n \in 0 .. N : upTo[n] \in A
  <2> DEFINE S == {m \in 0 .. N : upTo[m] \in A}
  <2>1. 0 \in S
    <3> HIDE DEF A, N, upTo, base
    <3> QED BY <1>1, <1>11
  <2>2. ASSUME NEW n \in 1 .. N, n - 1 \in S PROVE n \in S
    <3> HIDE DEF A, upTo, Next1
    <3> QED BY <1>2, <1>11, <2>2
  <2>3. \A n \in 0 .. N : n \in S
    <3> HIDE DEF S, N
    <3> QED BY <1>1, <2>1, <2>2, ListInduction
  <2> QED BY <2>3
<1>13. upTo \in [0 .. N -> A]
  <2>1. upTo = [n \in 0 .. N |-> Run(upTo)[n]]
    <3> HIDE DEF upTo
    <3> QED BY <1>9
  <2> HIDE DEF upTo, A, Run, N
  <2> QED BY <1>9, <1>12, <2>1
<1> HIDE DEF upTo
<1> QED BY <1>10, <1>11, <1>13 DEF HasRefsRun, RefsRun

LEMMA ContainsIsMember ==
  ASSUME NEW X, NEW s \in Seq(X), NEW x
  PROVE  Contains(s, x) <=> x \in ToSet(s)
BY DEF Contains, ToSet

NoneTwice(s) == \A i, j \in DOMAIN s : s[i] = s[j] => i = j

LEMMA AppendNoneTwice ==
  ASSUME NEW X, NEW s \in Seq(X), NEW x \in X, NoneTwice(s), x \notin ToSet(s)
  PROVE  NoneTwice(Append(s, x))
<1>1. DOMAIN Append(s, x) = 1 .. Len(s) + 1 /\ DOMAIN s = 1 .. Len(s) /\ Len(s) \in Nat
  OBVIOUS
<1>2. Append(s, x)[Len(s) + 1] = x /\ \A i \in 1 .. Len(s) : Append(s, x)[i] = s[i]
  OBVIOUS
<1>3. \A i \in 1 .. Len(s) : s[i] # x
  BY <1>1 DEF ToSet
<1>4. \A i \in 1 .. Len(s) + 1 : i \in 1 .. Len(s) \/ i = Len(s) + 1
  BY <1>1
<1> QED BY <1>1, <1>2, <1>3, <1>4 DEF NoneTwice

(* A list without repetitions is as long as its set is large. *)
LEMMA CountedOnce ==
  ASSUME NEW X, NEW s \in Seq(X), NoneTwice(s)
  PROVE  Len(s) = Cardinality(ToSet(s))
<1>1. Len(s) \in Nat /\ DOMAIN s = 1 .. Len(s)
  OBVIOUS
<1>2. s \in Bijection(1 .. Len(s), ToSet(s))
  BY <1>1 DEF Bijection, Injection, Surjection, IsInjective, ToSet, NoneTwice
<1> QED BY <1>1, <1>2, FS_CountingElements DEF ExistsBijection

(* Every reference is kept, and none of them twice. *)
LEMMA DistinctRefsKept ==
  ASSUME NEW X, NEW refs \in Seq(X)
  PROVE  /\ DistinctRefs(refs) \in Seq(X)
         /\ ToSet(DistinctRefs(refs)) = ToSet(refs)
         /\ NoneTwice(DistinctRefs(refs))
<1> DEFINE N == Len(refs)
           First(n) == {refs[i] : i \in 1 .. n}
<1>1. PICK f \in [0 .. N -> Seq(X)] : RefsRun(f, refs)
  <2>1. HasRefsRun(refs, X)
    BY DistinctRefsRun
  <2> QED BY <2>1 DEF HasRefsRun
<1> DEFINE S == {n \in 0 .. N : ToSet(f[n]) = First(n) /\ NoneTwice(f[n])}
<1>2. N \in Nat /\ \A n \in 1 .. N : refs[n] \in X
  OBVIOUS
<1>3. 0 \in S
  <2>1. ToSet(<<>>) = {} /\ First(0) = {} /\ NoneTwice(<<>>)
    BY DEF ToSet, NoneTwice
  <2>2. f[0] = <<>> /\ 0 \in 0 .. N
    BY <1>1, <1>2 DEF RefsRun
  <2> HIDE DEF N, First
  <2> QED BY <2>1, <2>2
<1>4. ASSUME NEW n \in 1 .. N, n - 1 \in S PROVE n \in S
  <2>1. First(n) = First(n - 1) \cup {refs[n]}
    <3>1. 1 .. n = (1 .. n - 1) \cup {n}
      BY <1>2
    <3> QED BY <3>1
  <2>2. n - 1 \in 0 .. N /\ n \in 0 .. N /\ f[n - 1] \in Seq(X)
    <3> HIDE DEF N
    <3> QED BY <1>2
  <2>3. f[n] = IF Contains(f[n - 1], refs[n]) THEN f[n - 1] ELSE Append(f[n - 1], refs[n])
    BY <1>1 DEF RefsRun
  <2>4. CASE refs[n] \in ToSet(f[n - 1])
    <3>1. f[n] = f[n - 1]
      BY <2>2, <2>3, <2>4, ContainsIsMember
    <3> HIDE DEF N, First
    <3> QED BY <1>4, <2>1, <2>2, <2>4, <3>1
  <2>5. CASE refs[n] \notin ToSet(f[n - 1])
    <3> DEFINE r == f[n - 1]
    <3>1. f[n] = Append(r, refs[n])
      BY <2>2, <2>3, <2>5, ContainsIsMember
    <3>2. ToSet(Append(r, refs[n])) = ToSet(r) \cup {refs[n]}
      <4> HIDE DEF N
      <4> QED BY <1>2, <2>2, AppendToSet
    <3>3. NoneTwice(Append(r, refs[n]))
      <4>1. r \in Seq(X) /\ NoneTwice(r) /\ refs[n] \notin ToSet(r) /\ refs[n] \in X
        <5> HIDE DEF N
        <5> QED BY <1>2, <1>4, <2>2, <2>5
      <4> HIDE DEF r, N, First
      <4> QED BY <4>1, AppendNoneTwice
    <3> HIDE DEF N, First
    <3> QED BY <1>4, <2>1, <2>2, <3>1, <3>2, <3>3
  <2> QED BY <2>4, <2>5
<1>5. N \in S
  <2> HIDE DEF N, S
  <2>1. \A n \in 0 .. N : n \in S
    BY <1>2, <1>3, <1>4, ListInduction
  <2> QED BY <1>2, <2>1
<1>6. ToSet(refs) = First(N) /\ f[N] \in Seq(X)
  BY DEF ToSet
<1>7. DistinctRefs(refs) = f[N]
  BY <1>1 DEF RefsRun
<1> QED BY <1>5, <1>6, <1>7

-----------------------------------------------------------------------------
(* Network instances and their data networks *)

LEMMA InstancesOfInterface ==
  ASSUME NEW X, NEW spec, NEW name, spec.networkInstances \in Seq(X),
         \A n \in X : n.interfaces \in Seq(ToSet(n.interfaces))
  PROVE  /\ GetNetworkInstances(spec, name) \in Seq(X)
         /\ ToSet(GetNetworkInstances(spec, name)) =
              {n \in ToSet(spec.networkInstances) : Contains(n.interfaces, name)}
<1> DEFINE instances == spec.networkInstances
           Mentions(n) == Those(n.interfaces, {name})
           Copies(n) == [m \in DOMAIN Mentions(n) |-> n]
           lists == [i \in DOMAIN instances |-> Copies(instances[i])]
<1>1. DOMAIN instances = 1 .. Len(instances) /\ Len(instances) \in Nat
      /\ \A i \in DOMAIN instances : instances[i] \in X
  OBVIOUS
<1>2. ASSUME NEW n \in X
      PROVE  /\ Copies(n) \in Seq(X)
             /\ ToSet(Copies(n)) = IF Contains(n.interfaces, name) THEN {n} ELSE {}
  <2>1. /\ Mentions(n) \in Seq(ToSet(n.interfaces))
        /\ ToSet(Mentions(n)) = ToSet(n.interfaces) \cap {name}
    BY ThoseSelects
  <2>2. Contains(n.interfaces, name) <=> ToSet(Mentions(n)) # {}
    <3> HIDE DEF Mentions, ToSet
    <3>1. Contains(n.interfaces, name) <=> name \in ToSet(n.interfaces)
      BY ContainsIsMember
    <3> QED BY <2>1, <3>1
  <2> HIDE DEF Mentions
  <2>3. DOMAIN Mentions(n) = 1 .. Len(Mentions(n)) /\ Len(Mentions(n)) \in Nat
    BY <2>1
  <2>4. Copies(n) \in Seq(X)
    BY <2>3
  <2>5. ToSet(Mentions(n)) # {} <=> DOMAIN Mentions(n) # {}
    BY DEF ToSet
  <2>6. ToSet(Copies(n)) = IF DOMAIN Mentions(n) # {} THEN {n} ELSE {}
    BY DEF ToSet
  <2> QED BY <2>2, <2>4, <2>5, <2>6
<1>3. GetNetworkInstances(spec, name) = FlattenSeq(lists)
  BY DEF GetNetworkInstances
<1> HIDE DEF Copies
<1>4. lists \in Seq(Seq(X))
  BY <1>1, <1>2
<1>5. /\ FlattenSeq(lists) \in Seq(X)
      /\ ToSet(FlattenSeq(lists)) = UNION {ToSet(lists[i]) : i \in DOMAIN lists}
  <2> HIDE DEF lists
  <2> QED BY <1>4, FlattenSeqJoins
<1>6. \A n : n \in ToSet(instances) <=> \E i \in DOMAIN instances : n = instances[i]
  BY DEF ToSet
<1>7. \A n : n \in UNION {ToSet(lists[i]) : i \in DOMAIN lists}
              <=> n \in ToSet(instances) /\ Contains(n.interfaces, name)
  <2>1. \A i \in DOMAIN instances :
          ToSet(lists[i]) = IF Contains(instances[i].interfaces, name) THEN {instances[i]} ELSE {}
    BY <1>1, <1>2
  <2>2. DOMAIN lists = DOMAIN instances
    OBVIOUS
  <2> HIDE DEF lists, instances
  <2> QED BY <1>6, <2>1, <2>2
<1> HIDE DEF lists
<1> QED BY <1>3, <1>5, <1>7

LEMMA DataNetworksOfInstances ==
  ASSUME NEW X, NEW instances \in Seq(X),
         \A n \in X : n.dataNetworks \in Seq(ToSet(n.dataNetworks))
  PROVE  /\ DataNetworks(instances) \in Seq(UNION {ToSet(n.dataNetworks) : n \in X})
         /\ ToSet(DataNetworks(instances)) = UNION {ToSet(n.dataNetworks) : n \in ToSet(instances)}
<1> DEFINE D == UNION {ToSet(n.dataNetworks) : n \in X}
           lists == [i \in DOMAIN instances |-> instances[i].dataNetworks]
<1>1. DOMAIN instances = 1 .. Len(instances) /\ Len(instances) \in Nat
      /\ \A i \in DOMAIN instances : instances[i] \in X
  OBVIOUS
<1>2. ASSUME NEW n \in X PROVE n.dataNetworks \in Seq(D)
  <2>1. ToSet(n.dataNetworks) \subseteq D
    OBVIOUS
  <2>2. n.dataNetworks \in Seq(ToSet(n.dataNetworks))
    OBVIOUS
  <2> HIDE DEF D
  <2> QED BY <2>1, <2>2
<1>3. lists \in Seq(Seq(D))
  <2> HIDE DEF D
  <2> QED BY <1>1, <1>2
<1>4. /\ FlattenSeq(lists) \in Seq(D)
      /\ ToSet(FlattenSeq(lists)) = UNION {ToSet(lists[i]) : i \in DOMAIN lists}
  <2> HIDE DEF lists, D
  <2> QED BY <1>3, FlattenSeqJoins
<1>5. {ToSet(lists[i]) : i \in DOMAIN lists} = {ToSet(n.dataNetworks) : n \in ToSet(instances)}
  <2>1. ToSet(instances) = {instances[i] : i \in DOMAIN instances}
    BY DEF ToSet
  <2>2. \A i \in DOMAIN instances : lists[i] = instances[i].dataNetworks
    OBVIOUS
  <2>3. DOMAIN lists = DOMAIN instances
    OBVIOUS
  <2> HIDE DEF lists, ToSet
  <2> QED BY <2>1, <2>2, <2>3
<1> QED BY <1>4, <1>5 DEF DataNetworks

-----------------------------------------------------------------------------
(* When a ConfigMap is built, and what its files hold *)

LEMMA AmfConfigMapBuilt ==
  ASSUME NEW spec
  PROVE  LET n2 == GetFirstInterfaceConfigIPv4(spec.interfaces, "n2")
         IN  /\ AmfConfigMap(spec).out = "ok" <=> n2.out = "ok"
             /\ AmfConfigMap(spec).out = "ok" =>
                  AmfConfigMap(spec).val =
                    [file \in {"amfcfg.yaml"} |-> RenderAmfConfiguration(n2.val).val]
BY DEF AmfConfigMap, Then, Ok

UpfCanBuild(spec) ==
  LET n6 == GetFirstInterfaceConfig(spec.interfaces, "n6")
      n6Instances == GetNetworkInstances(spec, "n6")
  IN  /\ GetFirstInterfaceConfigIPv4(spec.interfaces, "n4").out = "ok"
      /\ GetFirstInterfaceConfigIPv4(spec.interfaces, "n3").out = "ok"
      /\ n6.out = "ok" /\ Connected(n6.val)
      /\ n6Instances # <<>> /\ HavePool(n6Instances, 1)

UpfFiles(spec) ==
  LET n6Instances == GetNetworkInstances(spec, "n6")
  IN  [file \in {"upfcfg.yaml", "wrapper.sh"} |->
         IF file = "upfcfg.yaml"
         THEN [nodeID  |-> GetFirstInterfaceConfigIPv4(spec.interfaces, "n4").val,
               gtpu    |-> GetFirstInterfaceConfigIPv4(spec.interfaces, "n3").val,
               dnnList |-> Pools(n6Instances, 1)]
         ELSE [masqueraded |-> {p.cidr : p \in ToSet(Pools(n6Instances, 1))},
               gateway     |-> GetFirstInterfaceConfig(spec.interfaces, "n6").val.ipv4.gateway]]

LEMMA UpfConfigMapBuilt ==
  ASSUME NEW spec
  PROVE  /\ UpfConfigMap(spec).out = "ok" <=> UpfCanBuild(spec)
         /\ UpfConfigMap(spec).out = "ok" => UpfConfigMap(spec).val = UpfFiles(spec)
<1> DEFINE n4 == GetFirstInterfaceConfigIPv4(spec.interfaces, "n4")
           n3 == GetFirstInterfaceConfigIPv4(spec.interfaces, "n3")
           n6 == GetFirstInterfaceConfig(spec.interfaces, "n6")
           n6Instances == GetNetworkInstances(spec, "n6")
           configuration == RenderUpfConfiguration(n4.val, n3.val, n6Instances)
           wrapperScript == RenderWrapperScript(n6.val.ipv4.gateway, n6Instances)
           files == [file \in {"upfcfg.yaml", "wrapper.sh"} |->
                       IF file = "upfcfg.yaml" THEN configuration.val ELSE wrapperScript.val]
<1>1. UpfConfigMap(spec) =
        Then(n4, Then(n3, Then(n6,
          IF n6.val.ipv4 = None \/ n6.val.ipv4.gateway = None THEN Panicked
          ELSE IF n6Instances = <<>> THEN Failed
          ELSE Then(configuration, Then(wrapperScript, Ok(files))))))
  BY DEF UpfConfigMap
<1>2. /\ configuration.out = "ok" <=> HavePool(n6Instances, 1)
      /\ wrapperScript.out = "ok" <=> HavePool(n6Instances, 1)
      /\ HavePool(n6Instances, 1) =>
           /\ configuration.val = [nodeID |-> n4.val, gtpu |-> n3.val, dnnList |-> Pools(n6Instances, 1)]
           /\ wrapperScript.val = [masqueraded |-> {p.cidr : p \in ToSet(Pools(n6Instances, 1))},
                                   gateway |-> n6.val.ipv4.gateway]
  <2> HIDE DEF n4, n3, n6, n6Instances
  <2> QED BY DEF RenderUpfConfiguration, RenderWrapperScript, Ok, Failed
<1>3. HavePool(n6Instances, 1) => files = UpfFiles(spec)
  <2> HIDE DEF configuration, wrapperScript
  <2> QED BY <1>2 DEF UpfFiles
<1>4. UpfCanBuild(spec) <=>
        /\ n4.out = "ok" /\ n3.out = "ok" /\ n6.out = "ok" /\ Connected(n6.val)
        /\ n6Instances # <<>> /\ HavePool(n6Instances, 1)
  BY DEF UpfCanBuild
<1> HIDE DEF n4, n3, n6, n6Instances, configuration, wrapperScript, files
<1>5. /\ UpfConfigMap(spec).out = "ok" <=> UpfCanBuild(spec)
      /\ UpfConfigMap(spec).out = "ok" => UpfConfigMap(spec).val = files
  BY <1>1, <1>2, <1>4 DEF Then, Ok, Failed, Panicked, Connected
<1> QED BY <1>3, <1>4, <1>5

(* Configs that hold NFDeployments, all of which decode. *)
AreUpfConfigs(X) == \A c \in X : c.object # "other" /\ c.decodes = TRUE

LEMMA UpfsExtracted ==
  ASSUME NEW X, AreUpfConfigs(X), NEW refd \in Seq(X)
  PROVE  ExtractConfigRefUPFDeployments(refd) = Ok([c \in DOMAIN refd |-> refd[c].upf])
<1> DEFINE kept == {c \in ToSet(refd) : c.object # "other"}
<1>1. ToSet(refd) \subseteq X
  BY DEF ToSet
<1>2. Those(refd, kept) = refd
  <2>1. ToSet(refd) \subseteq kept
    BY <1>1 DEF AreUpfConfigs
  <2> HIDE DEF kept
  <2> QED BY <2>1, ThoseAll
<1>3. ~ \E c \in ToSet(refd) : ~ c.decodes
  BY <1>1 DEF AreUpfConfigs
<1> QED BY <1>2, <1>3 DEF ExtractConfigRefUPFDeployments

PeerCanBuild(upf) == UpfPeer(upf).out = "ok" /\ MissingPools(UpfPeer(upf).val) = {}

SmfFiles(n4, refd) ==
  [file \in {"smfcfg.yaml", "uerouting.yaml"} |->
     IF file = "smfcfg.yaml"
     THEN [nodeID |-> n4, port |-> SbiPort, slices |-> ToSet(SmfSlices), dnns |-> {Internet},
           upNodes |-> [u \in DOMAIN refd |-> UpNode(UpfPeer(refd[u].upf).val)]]
     ELSE RenderUeRoutingConfiguration.val]

LEMMA SmfConfigMapBuilt ==
  ASSUME NEW X, AreUpfConfigs(X), NEW refd \in Seq(X), NEW spec
  PROVE  LET n4 == GetFirstInterfaceConfigIPv4(spec.interfaces, "n4")
             cm == SmfConfigMap(spec, refd)
         IN  /\ cm.out = "ok" <=> n4.out = "ok" /\ \A c \in ToSet(refd) : PeerCanBuild(c.upf)
             /\ cm.out = "ok" => cm.val = SmfFiles(n4.val, refd)
<1> DEFINE n4 == GetFirstInterfaceConfigIPv4(spec.interfaces, "n4")
           cm == SmfConfigMap(spec, refd)
           upfs == [c \in DOMAIN refd |-> refd[c].upf]
           bad == {i \in 1 .. Len(upfs) : UpfPeer(upfs[i]).out # "ok"}
           first == IF bad # {} THEN Min(bad) ELSE 0
           peers == [u \in DOMAIN upfs |-> UpfPeer(upfs[u]).val]
           nodes == [u \in DOMAIN peers |-> UpNode(peers[u])]
           configuration == RenderSmfConfiguration(n4.val, peers)
           files == [file \in {"smfcfg.yaml", "uerouting.yaml"} |->
                       IF file = "smfcfg.yaml" THEN configuration.val
                       ELSE RenderUeRoutingConfiguration.val]
<1>1. cm = Then(n4, Then(Ok(upfs),
             IF first # 0 THEN UpfPeer(upfs[first]) ELSE Then(configuration, Ok(files))))
  <2>1. ExtractConfigRefUPFDeployments(refd) = Ok(upfs) /\ Ok(upfs).val = upfs
    BY UpfsExtracted DEF Ok
  <2>2. ExtractConfigRefUPFDeployments(refd).val = upfs
    BY <2>1
  <2> QED BY <2>1, <2>2, ZenonT(40) DEF SmfConfigMap, SelectInSeq
<1>2. /\ DOMAIN refd = 1 .. Len(refd) /\ Len(refd) \in Nat
      /\ DOMAIN upfs = DOMAIN refd /\ Len(upfs) = Len(refd)
  OBVIOUS
<1>3. bad # {} => first \in bad /\ first # 0
  <2>1. bad \in SUBSET Nat /\ 0 \notin bad
    <3> HIDE DEF upfs
    <3> QED BY <1>2
  <2> HIDE DEF bad
  <2> QED BY <2>1, MinIsLeast
<1>4. bad = {} <=> \A c \in ToSet(refd) : UpfPeer(c.upf).out = "ok"
  <2>1. bad = {i \in DOMAIN refd : UpfPeer(refd[i].upf).out # "ok"}
    BY <1>2
  <2> HIDE DEF bad
  <2> QED BY <2>1 DEF ToSet
<1>5. ToSet(peers) = {UpfPeer(c.upf).val : c \in ToSet(refd)}
  BY <1>2 DEF ToSet
<1>6. nodes = [u \in DOMAIN refd |-> UpNode(UpfPeer(refd[u].upf).val)]
  BY <1>2
<1>7. /\ configuration.out = "ok" <=> \A c \in ToSet(refd) : MissingPools(UpfPeer(c.upf).val) = {}
      /\ configuration.out = "ok" =>
           configuration.val = [nodeID |-> n4.val, port |-> SbiPort, slices |-> ToSet(SmfSlices),
                                dnns |-> {Internet}, upNodes |-> nodes]
  <2>1. (\E peer \in ToSet(peers) : MissingPools(peer) # {})
          <=> \E c \in ToSet(refd) : MissingPools(UpfPeer(c.upf).val) # {}
    <3> HIDE DEF peers, ToSet
    <3> QED BY <1>5
  <2> HIDE DEF n4, peers, nodes
  <2> QED BY <2>1 DEF RenderSmfConfiguration, Ok, Failed, nodes
<1>8. configuration.out = "ok" => files = SmfFiles(n4.val, refd)
  <2> HIDE DEF configuration, n4, nodes
  <2> QED BY <1>6, <1>7 DEF SmfFiles
<1>9. /\ cm.out = "ok" <=> n4.out = "ok" /\ bad = {} /\ configuration.out = "ok"
      /\ cm.out = "ok" => cm.val = files
  <2>1. bad # {} => UpfPeer(upfs[first]).out # "ok"
    <3> HIDE DEF first
    <3> QED BY <1>3
  <2>2. bad = {} => first = 0
    OBVIOUS
  <2> HIDE DEF cm, n4, upfs, bad, first, configuration, files
  <2> QED BY <1>1, <1>3, <2>1, <2>2 DEF Then, Ok
<1>10. (\A c \in ToSet(refd) : PeerCanBuild(c.upf))
         <=> bad = {} /\ configuration.out = "ok"
  <2> HIDE DEF bad, configuration, ToSet
  <2> QED BY <1>4, <1>7 DEF PeerCanBuild
<1> HIDE DEF cm, n4, bad, configuration, files
<1>11. /\ cm.out = "ok" <=> n4.out = "ok" /\ \A c \in ToSet(refd) : PeerCanBuild(c.upf)
       /\ cm.out = "ok" => cm.val = SmfFiles(n4.val, refd)
  BY <1>8, <1>9, <1>10
<1> QED BY <1>11 DEF cm, n4

-----------------------------------------------------------------------------
(* When a Deployment is built, and what its pods are attached to *)

MountedFiles(nf) ==
  CASE nf = "amf" -> {"amfcfg.yaml"}
    [] nf = "smf" -> {"smfcfg.yaml", "uerouting.yaml"}
    [] nf = "upf" -> {"upfcfg.yaml", "wrapper.sh"}

IsDeploymentOf(dep, nf, spec) ==
  LET chosen == Chosen(spec.interfaces, AttachedInterfaces[nf])
  IN  /\ dep.out = "ok" <=> spec.capacity # None /\ \A c \in chosen : Connected(c)
      /\ dep.out = "ok" => /\ dep.val.files = MountedFiles(nf)
                           /\ ToSet(dep.val.networks) = {Network(c) : c \in chosen}
                           /\ dep.val.networks \in Seq({Network(c) : c \in chosen})

LEMMA DeploymentBuilt ==
  ASSUME NEW X, NEW spec, spec.interfaces \in Seq(X), NEW nf \in NFs
  PROVE  IsDeploymentOf(CreateDeployment(nf, spec), nf, spec)
<1> DEFINE dep == CreateDeployment(nf, spec)
           chosen == Chosen(spec.interfaces, AttachedInterfaces[nf])
           networks == CreateNetworkAttachmentDefinitionNetworks(spec.interfaces, AttachedInterfaces[nf])
<1>1. AreNetworksOf(networks, chosen)
  <2>1. AttachedInterfaces[nf] \in SUBSET InterfaceNames
    BY DEF AttachedInterfaces, InterfaceNames, NFs
  <2> QED BY <2>1, NetworksOfChosen
<1>2. PICK requirements :
        /\ requirements.out = "ok" <=> spec.capacity # None
        /\ dep = Then(requirements, Then(networks,
             Ok([resources |-> requirements.val, networks |-> networks.val, files |-> MountedFiles(nf)])))
  <2>1. /\ AmfResourceRequirements(spec.capacity).out = "ok" <=> spec.capacity # None
        /\ SmfResourceRequirements(spec.capacity).out = "ok" <=> spec.capacity # None
        /\ UpfResourceRequirements(spec.capacity).out = "ok" <=> spec.capacity # None
    BY DEF AmfResourceRequirements, SmfResourceRequirements, UpfResourceRequirements, Ok, Panicked
  <2>2. CASE nf = "amf"
    BY <2>1, <2>2 DEF CreateDeployment, AmfDeployment, PodTemplate, MountedFiles
  <2>3. CASE nf = "smf"
    BY <2>1, <2>3 DEF CreateDeployment, SmfDeployment, PodTemplate, MountedFiles
  <2>4. CASE nf = "upf"
    BY <2>1, <2>4 DEF CreateDeployment, UpfDeployment, PodTemplate, MountedFiles
  <2> QED BY <2>2, <2>3, <2>4 DEF NFs
<1> HIDE DEF dep, chosen, networks
<1>3. /\ dep.out = "ok" <=> spec.capacity # None /\ networks.out = "ok"
      /\ dep.out = "ok" => dep.val.files = MountedFiles(nf) /\ dep.val.networks = networks.val
  BY <1>2 DEF Then, Ok
<1>4. /\ dep.out = "ok" <=> spec.capacity # None /\ \A c \in chosen : Connected(c)
      /\ dep.out = "ok" => /\ dep.val.files = MountedFiles(nf)
                           /\ ToSet(dep.val.networks) = {Network(c) : c \in chosen}
                           /\ dep.val.networks \in Seq({Network(c) : c \in chosen})
  BY <1>1, <1>3 DEF AreNetworksOf
<1> QED BY <1>4 DEF IsDeploymentOf, dep, chosen

===============================================================================

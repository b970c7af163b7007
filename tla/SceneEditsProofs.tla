---------------------------- MODULE SceneEditsProofs ----------------------------
(***************************************************************************)
(* What the answers to the requests on a scene promise, for all columns,    *)
(* scenes, aliases and settings.                                           *)
(*                                                                         *)
(* A request of these parts is one section of the host or a section and    *)
(* the observation after it, so what is known before it is short: the      *)
(* column is of effects, the objects have places that exclude each other,  *)
(* and what waits for an observation was left by its section. The promises *)
(* are about what the code computes from what it finds. They rest on lemmas *)
(* about its operators: removing undoes adding, the move back that         *)
(* restore_target chooses exists and restores, the places found in a scene *)
(* are those of the new objects, moving one section start keeps the        *)
(* others in order, a setter tried is one of the first.                    *)
(*                                                                         *)
(* The value of an item goes to the host as one line and comes back as     *)
(* one. What is proved of it starts from the operators: escapes are undone, *)
(* parts that are joined are found again, a movement that is spelled is     *)
(* read. They are functions of the length of a line, so what holds of all  *)
(* lines is shown of the shortest for which it would fail. ItemInv then    *)
(* says what an item can hold, and that it has settled.                    *)
(*                                                                         *)
(* Last, the parts side by side: each keeps its invariant while it has a   *)
(* step, and what it has promised while it rests.                          *)
(***************************************************************************)
EXTENDS SceneEdits, FiniteSetTheorems, SequenceTheorems, TLAPS

-----------------------------------------------------------------------------
(* Minimal sets, and the least of some numbers.                            *)

\* Of some finite sets, one has none of the others within it.
LEMMA Smallest ==
  ASSUME NEW F, NEW S, F \subseteq FiniteSubsetsOf(S), F # {}
  PROVE  \E T \in F : \A U \in F : ~ (U \subseteq T /\ U # T)
<1>1. IsWellFoundedOn(StrictSubsetOrdering(S), FiniteSubsetsOf(S))
  BY FS_StrictSubsetOrderingWellFounded
<1>2. \E T \in F : \A U \in F : ~ (<<U, T>> \in StrictSubsetOrdering(S))
  BY <1>1, WFMin
<1>3. QED
  BY <1>2 DEF StrictSubsetOrdering, FiniteSubsetsOf

\* Of some numbers, one is the least.
LEMMA Least ==
  ASSUME NEW S \in SUBSET Nat, S # {}
  PROVE  \E n \in S : \A m \in S : n <= m
<1> DEFINE F == {0 .. n : n \in S}
<1>1. F \subseteq FiniteSubsetsOf(Nat)
  <2>1. ASSUME NEW n \in S PROVE 0 .. n \in SUBSET Nat /\ IsFiniteSet(0 .. n)
    BY FS_Interval
  <2>2. QED
    BY <2>1 DEF FiniteSubsetsOf
<1>2. F # {}
  OBVIOUS
<1>3. PICK T \in F : \A U \in F : ~ (U \subseteq T /\ U # T)
  <2> HIDE DEF F
  <2> QED BY <1>1, <1>2, Smallest
<1>4. PICK n \in S : T = 0 .. n
  OBVIOUS
<1>5. ASSUME NEW m \in S, ~(n <= m) PROVE FALSE
  <2>1. 0 .. m \subseteq 0 .. n /\ 0 .. m # 0 .. n
    <3>1. n \in 0 .. n /\ n \notin 0 .. m
      BY <1>5
    <3>2. QED
      BY <1>5, <3>1
  <2>2. QED
    BY <1>3, <1>4, <2>1
<1>6. QED
  BY <1>5

-----------------------------------------------------------------------------
(* Putting in, taking out, moving.                                         *)

\* What stands where after an element was put in.
LEMMA InsertAtIs ==
  ASSUME NEW S, NEW s \in Seq(S), NEW i \in 1 .. Len(s) + 1, NEW e \in S
  PROVE  /\ InsertAt(s, i, e) \in Seq(S) /\ Len(InsertAt(s, i, e)) = Len(s) + 1
         /\ \A k \in 1 .. Len(s) + 1 :
              InsertAt(s, i, e)[k] = IF k < i THEN s[k] ELSE IF k = i THEN e ELSE s[k - 1]
<1> DEFINE a == SubSeq(s, 1, i - 1)
           z == SubSeq(s, i, Len(s))
<1>1. Len(s) \in Nat /\ i \in Nat /\ \A k \in 1 .. Len(s) : s[k] \in S
  BY LenProperties
<1>2. /\ a \in Seq(S) /\ Len(a) = i - 1
      /\ \A k \in 1 .. i - 1 : a[k] = s[k]
  <2>1. \A k \in 1 .. i - 1 : s[k] \in S
    BY <1>1
  <2>2. /\ a \in Seq(S) /\ Len(a) = IF 1 <= i - 1 THEN i - 1 - 1 + 1 ELSE 0
        /\ \A k \in 1 .. i - 1 - 1 + 1 : a[k] = s[1 + k - 1]
    BY <1>1, <2>1, SubSeqProperties
  <2>3. QED
    BY <1>1, <2>2
<1>3. /\ z \in Seq(S) /\ Len(z) = Len(s) - i + 1
      /\ \A k \in 1 .. Len(s) - i + 1 : z[k] = s[i + k - 1]
  <2>1. \A k \in i .. Len(s) : s[k] \in S
    BY <1>1
  <2>2. /\ z \in Seq(S) /\ Len(z) = IF i <= Len(s) THEN Len(s) - i + 1 ELSE 0
        /\ \A k \in 1 .. Len(s) - i + 1 : z[k] = s[i + k - 1]
    BY <1>1, <2>1, SubSeqProperties
  <2>3. QED
    BY <1>1, <2>2
<1>4. InsertAt(s, i, e) = a \o <<e>> \o z
  BY DEF InsertAt
<1> HIDE DEF a, z
<1>5. <<e>> \in Seq(S) /\ Len(<<e>>) = 1 /\ <<e>>[1] = e
  OBVIOUS
<1>6. /\ a \o <<e>> \in Seq(S) /\ Len(a \o <<e>>) = i
      /\ \A k \in 1 .. i : (a \o <<e>>)[k] = IF k < i THEN s[k] ELSE e
  <2>1. /\ a \o <<e>> \in Seq(S) /\ Len(a \o <<e>>) = Len(a) + Len(<<e>>)
        /\ \A k \in 1 .. Len(a) + Len(<<e>>) :
             (a \o <<e>>)[k] = IF k <= Len(a) THEN a[k] ELSE <<e>>[k - Len(a)]
    BY <1>2, <1>5, ConcatProperties
  <2>2. Len(a) + Len(<<e>>) = i
    BY <1>1, <1>2, <1>5
  <2>3. ASSUME NEW k \in 1 .. i PROVE (a \o <<e>>)[k] = IF k < i THEN s[k] ELSE e
    <3>1. CASE k < i
      BY <1>1, <1>2, <2>1, <2>2, <3>1
    <3>2. CASE k = i
      <4>1. k - Len(a) = 1 /\ ~(k <= Len(a))
        BY <1>1, <1>2, <3>2
      <4>2. QED
        BY <1>5, <2>1, <2>2, <3>2, <4>1
    <3>3. k < i \/ k = i
      BY <1>1
    <3>4. QED
      BY <3>1, <3>2, <3>3
  <2>4. QED
    BY <2>1, <2>2, <2>3
<1>7. DEFINE b == a \o <<e>>
<1>8. b \in Seq(S) /\ Len(b) = i /\ \A k \in 1 .. i : b[k] = IF k < i THEN s[k] ELSE e
  BY <1>6
<1>9. InsertAt(s, i, e) = b \o z
  BY <1>4
<1> HIDE DEF b
<1>10. /\ b \o z \in Seq(S) /\ Len(b \o z) = Len(b) + Len(z)
       /\ \A k \in 1 .. Len(b) + Len(z) : (b \o z)[k] = IF k <= Len(b) THEN b[k] ELSE z[k - Len(b)]
  BY <1>3, <1>8, ConcatProperties
<1>11. Len(b) + Len(z) = Len(s) + 1
  BY <1>1, <1>3, <1>8
<1>12. ASSUME NEW k \in 1 .. Len(s) + 1
       PROVE  (b \o z)[k] = IF k < i THEN s[k] ELSE IF k = i THEN e ELSE s[k - 1]
  <2>1. CASE k <= i
    BY <1>1, <1>8, <1>10, <1>11, <2>1
  <2>2. CASE k > i
    <3>1. k - i \in 1 .. Len(s) - i + 1 /\ i + (k - i) - 1 = k - 1 /\ ~(k <= i)
      BY <1>1, <2>2
    <3>2. z[k - i] = s[k - 1]
      BY <1>3, <3>1
    <3>3. (b \o z)[k] = z[k - i]
      BY <1>8, <1>10, <1>11, <3>1
    <3>4. QED
      BY <1>1, <2>2, <3>2, <3>3
  <2>3. k <= i \/ k > i
    BY <1>1
  <2>4. QED
    BY <2>1, <2>2, <2>3
<1>13. QED
  BY <1>9, <1>10, <1>11, <1>12

\* What was put in stands there.
LEMMA InsertedStands ==
  ASSUME NEW S, NEW s \in Seq(S), NEW i \in 1 .. Len(s) + 1, NEW e \in S
  PROVE  InsertAt(s, i, e)[i] = e
<1>1. \A k \in 1 .. Len(s) + 1 :
        InsertAt(s, i, e)[k] = IF k < i THEN s[k] ELSE IF k = i THEN e ELSE s[k - 1]
  BY InsertAtIs
<1>2. ~(i < i)
  OBVIOUS
<1>3. QED
  BY <1>1, <1>2

\* What stands where after an element was taken out.
LEMMA RemoveAtIs ==
  ASSUME NEW S, NEW s \in Seq(S), NEW i \in 1 .. Len(s)
  PROVE  /\ RemoveAt(s, i) \in Seq(S) /\ Len(RemoveAt(s, i)) = Len(s) - 1
         /\ \A k \in 1 .. Len(s) - 1 : RemoveAt(s, i)[k] = IF k < i THEN s[k] ELSE s[k + 1]
<1> DEFINE a == SubSeq(s, 1, i - 1)
           z == SubSeq(s, i + 1, Len(s))
<1>1. Len(s) \in Nat /\ i \in Nat /\ \A k \in 1 .. Len(s) : s[k] \in S
  BY LenProperties
<1>2. /\ a \in Seq(S) /\ Len(a) = i - 1
      /\ \A k \in 1 .. i - 1 : a[k] = s[k]
  <2>1. \A k \in 1 .. i - 1 : s[k] \in S
    BY <1>1
  <2>2. /\ a \in Seq(S) /\ Len(a) = IF 1 <= i - 1 THEN i - 1 - 1 + 1 ELSE 0
        /\ \A k \in 1 .. i - 1 - 1 + 1 : a[k] = s[1 + k - 1]
    BY <1>1, <2>1, SubSeqProperties
  <2>3. QED
    BY <1>1, <2>2
<1>3. /\ z \in Seq(S) /\ Len(z) = Len(s) - i
      /\ \A k \in 1 .. Len(s) - i : z[k] = s[i + k]
  <2>1. \A k \in i + 1 .. Len(s) : s[k] \in S
    BY <1>1
  <2>2. /\ z \in Seq(S) /\ Len(z) = IF i + 1 <= Len(s) THEN Len(s) - (i + 1) + 1 ELSE 0
        /\ \A k \in 1 .. Len(s) - (i + 1) + 1 : z[k] = s[i + 1 + k - 1]
    BY <1>1, <2>1, SubSeqProperties
  <2>3. Len(z) = Len(s) - i
    BY <1>1, <2>2
  <2>4. ASSUME NEW k \in 1 .. Len(s) - i PROVE z[k] = s[i + k]
    <3>1. k \in 1 .. Len(s) - (i + 1) + 1 /\ i + 1 + k - 1 = i + k
      BY <1>1
    <3>2. z[k] = s[i + 1 + k - 1]
      BY <2>2, <3>1
    <3>3. QED
      BY <3>1, <3>2
  <2>5. QED
    BY <2>2, <2>3, <2>4
<1>4. RemoveAt(s, i) = a \o z
  BY DEF RemoveAt
<1> HIDE DEF a, z
<1>5. /\ a \o z \in Seq(S) /\ Len(a \o z) = Len(a) + Len(z)
      /\ \A k \in 1 .. Len(a) + Len(z) : (a \o z)[k] = IF k <= Len(a) THEN a[k] ELSE z[k - Len(a)]
  BY <1>2, <1>3, ConcatProperties
<1>6. Len(a) + Len(z) = Len(s) - 1
  BY <1>1, <1>2, <1>3
<1>7. ASSUME NEW k \in 1 .. Len(s) - 1 PROVE (a \o z)[k] = IF k < i THEN s[k] ELSE s[k + 1]
  <2>1. CASE k < i
    BY <1>1, <1>2, <1>5, <1>6, <2>1
  <2>2. CASE k >= i
    <3>1. k - (i - 1) \in 1 .. Len(s) - i /\ i + (k - (i - 1)) = k + 1 /\ ~(k <= i - 1)
      BY <1>1, <2>2
    <3>2. z[k - (i - 1)] = s[k + 1]
      BY <1>3, <3>1
    <3>3. (a \o z)[k] = z[k - (i - 1)]
      BY <1>2, <1>5, <1>6, <3>1
    <3>4. QED
      BY <1>1, <2>2, <3>2, <3>3
  <2>3. k < i \/ k >= i
    BY <1>1
  <2>4. QED
    BY <2>1, <2>2, <2>3
<1>8. QED
  BY <1>4, <1>5, <1>6, <1>7

\* Taking out what was put in gives the sequence as it was.
LEMMA RemoveUndoesInsert ==
  ASSUME NEW S, NEW s \in Seq(S), NEW i \in 1 .. Len(s) + 1, NEW e \in S
  PROVE  RemoveAt(InsertAt(s, i, e), i) = s
<1> DEFINE t == InsertAt(s, i, e)
<1>1. Len(s) \in Nat /\ i \in Nat
  BY LenProperties
<1>2. /\ t \in Seq(S) /\ Len(t) = Len(s) + 1
      /\ \A k \in 1 .. Len(s) + 1 : t[k] = IF k < i THEN s[k] ELSE IF k = i THEN e ELSE s[k - 1]
  BY InsertAtIs
<1> HIDE DEF t
<1>3. /\ RemoveAt(t, i) \in Seq(S) /\ Len(RemoveAt(t, i)) = Len(s)
      /\ \A k \in 1 .. Len(s) : RemoveAt(t, i)[k] = IF k < i THEN t[k] ELSE t[k + 1]
  <2>1. i \in 1 .. Len(t) /\ Len(t) - 1 = Len(s)
    BY <1>1, <1>2
  <2>2. QED
    BY <1>2, <2>1, RemoveAtIs
<1>4. ASSUME NEW k \in 1 .. Len(s) PROVE RemoveAt(t, i)[k] = s[k]
  <2>1. k \in 1 .. Len(s) + 1 /\ k + 1 \in 1 .. Len(s) + 1 /\ k + 1 - 1 = k
    BY <1>1
  <2>2. CASE k < i
    BY <1>2, <1>3, <2>1, <2>2
  <2>3. CASE ~(k < i)
    <3>1. t[k + 1] = s[k]
      BY <1>1, <1>2, <2>1, <2>3
    <3>2. QED
      BY <1>3, <2>3, <3>1
  <2>4. QED
    BY <2>2, <2>3
<1>5. RemoveAt(t, i) = s
  BY <1>3, <1>4, SeqEqual
<1>6. QED
  BY <1>5 DEF t

\* Where in the column it was the effect comes from that stands at k after a
\* move.
MovedFrom(from, to, k) ==
  IF k = to THEN from
  ELSE IF k < to THEN (IF k < from THEN k ELSE k + 1)
       ELSE IF k - 1 < from THEN k - 1 ELSE k

\* Where in the column that met the move an effect of the new one stood.
LEMMA MovedIs ==
  ASSUME NEW S, NEW s \in Seq(S), NEW from \in 1 .. Len(s), NEW to \in 1 .. Len(s)
  PROVE  /\ Moved(s, from, to) \in Seq(S) /\ Len(Moved(s, from, to)) = Len(s)
         /\ \A k \in 1 .. Len(s) : /\ MovedFrom(from, to, k) \in 1 .. Len(s)
                                   /\ Moved(s, from, to)[k] = s[MovedFrom(from, to, k)]
<1> DEFINE t == RemoveAt(s, from)
<1>1. Len(s) \in Nat /\ from \in Nat /\ to \in Nat /\ s[from] \in S
  BY LenProperties
<1>2. /\ t \in Seq(S) /\ Len(t) = Len(s) - 1
      /\ \A k \in 1 .. Len(s) - 1 : t[k] = IF k < from THEN s[k] ELSE s[k + 1]
  BY RemoveAtIs
<1>3. Moved(s, from, to) = InsertAt(t, to, s[from])
  BY DEF Moved
<1> HIDE DEF t
<1>4. PICK e \in S : e = s[from]
  BY <1>1
<1>5. /\ InsertAt(t, to, e) \in Seq(S) /\ Len(InsertAt(t, to, e)) = Len(s)
      /\ \A k \in 1 .. Len(s) :
           InsertAt(t, to, e)[k] = IF k < to THEN t[k] ELSE IF k = to THEN e ELSE t[k - 1]
  <2>1. to \in 1 .. Len(t) + 1 /\ Len(t) + 1 = Len(s)
    BY <1>1, <1>2
  <2>2. /\ InsertAt(t, to, e) \in Seq(S) /\ Len(InsertAt(t, to, e)) = Len(t) + 1
        /\ \A k \in 1 .. Len(t) + 1 :
             InsertAt(t, to, e)[k] = IF k < to THEN t[k] ELSE IF k = to THEN e ELSE t[k - 1]
    BY <1>2, <2>1, InsertAtIs
  <2>3. QED
    BY <2>1, <2>2
<1>6. ASSUME NEW k \in 1 .. Len(s)
      PROVE  /\ MovedFrom(from, to, k) \in 1 .. Len(s)
             /\ InsertAt(t, to, e)[k] = s[MovedFrom(from, to, k)]
  <2>1. CASE k = to
    BY <1>1, <1>4, <1>5, <2>1 DEF MovedFrom
  <2>2. CASE k < to
    <3>1. k \in 1 .. Len(s) - 1
      BY <1>1, <2>2
    <3>2. MovedFrom(from, to, k) = IF k < from THEN k ELSE k + 1
      BY <1>1, <2>2 DEF MovedFrom
    <3>3. QED
      BY <1>1, <1>2, <1>5, <2>2, <3>1, <3>2
  <2>3. CASE to < k
    <3>1. k - 1 \in 1 .. Len(s) - 1 /\ k - 1 + 1 = k
      BY <1>1, <2>3
    <3>2. MovedFrom(from, to, k) = IF k - 1 < from THEN k - 1 ELSE k
      BY <1>1, <2>3 DEF MovedFrom
    <3>3. InsertAt(t, to, e)[k] = t[k - 1]
      BY <1>1, <1>5, <2>3
    <3>4. t[k - 1] = IF k - 1 < from THEN s[k - 1] ELSE s[k]
      BY <1>2, <3>1
    <3>5. MovedFrom(from, to, k) \in 1 .. Len(s)
      BY <1>1, <3>1, <3>2
    <3>6. QED
      BY <3>2, <3>3, <3>4, <3>5
  <2>4. QED
    BY <1>1, <2>1, <2>2, <2>3
<1>7. QED
  BY <1>3, <1>4, <1>5, <1>6

\* The place before a move back is the place after the move.
LEMMA MovedBackFrom ==
  ASSUME NEW n \in Nat, NEW from \in 1 .. n, NEW to \in 1 .. n, NEW k \in 1 .. n
  PROVE  /\ MovedFrom(to, from, k) \in 1 .. n
         /\ MovedFrom(from, to, MovedFrom(to, from, k)) = k
  BY DEF MovedFrom

\* The move back gives the column as it was.
LEMMA MovedBack ==
  ASSUME NEW S, NEW s \in Seq(S), NEW from \in 1 .. Len(s), NEW to \in 1 .. Len(s)
  PROVE  Moved(Moved(s, from, to), to, from) = s
<1>1. PICK t : t = Moved(s, from, to)
  OBVIOUS
<1>2. /\ t \in Seq(S) /\ Len(t) = Len(s) /\ Len(s) \in Nat
      /\ \A k \in 1 .. Len(s) : t[k] = s[MovedFrom(from, to, k)]
  BY <1>1, MovedIs, LenProperties
<1>3. /\ Moved(t, to, from) \in Seq(S) /\ Len(Moved(t, to, from)) = Len(s)
      /\ \A k \in 1 .. Len(s) : Moved(t, to, from)[k] = t[MovedFrom(to, from, k)]
  BY <1>2, MovedIs
<1>4. \A k \in 1 .. Len(s) : Moved(t, to, from)[k] = s[k]
  BY <1>2, <1>3, MovedBackFrom
<1>5. Moved(t, to, from) = s
  BY <1>3, <1>4, SeqEqual
<1>6. QED
  BY <1>1, <1>5

\* A move loses nothing and makes nothing.
Standing(c, e) == Cardinality({p \in DOMAIN c : c[p] = e})

\* A move leaves as many effects of each kind as there were.
LEMMA MovedKeeps ==
  ASSUME NEW S, NEW s \in Seq(S), NEW from \in 1 .. Len(s), NEW to \in 1 .. Len(s), NEW e,
         NEW t, t = Moved(s, from, to)
  PROVE  Standing(t, e) = Standing(s, e)
<1>2. /\ t \in Seq(S) /\ Len(t) = Len(s) /\ Len(s) \in Nat
      /\ \A k \in 1 .. Len(s) : /\ MovedFrom(from, to, k) \in 1 .. Len(s)
                                /\ t[k] = s[MovedFrom(from, to, k)]
      /\ DOMAIN t = 1 .. Len(s) /\ DOMAIN s = 1 .. Len(s)
  BY MovedIs, LenProperties
<1> DEFINE A == {p \in 1 .. Len(s) : t[p] = e}
           B == {p \in 1 .. Len(s) : s[p] = e}
           f == [k \in A |-> MovedFrom(from, to, k)]
<1>3. IsFiniteSet(A)
  <2>1. IsFiniteSet(1 .. Len(s))
    BY <1>2, FS_Interval
  <2>2. A \in SUBSET (1 .. Len(s))
    OBVIOUS
  <2>3. QED
    BY <2>1, <2>2, FS_Subset
<1>4. f \in [A -> B]
  BY <1>2
<1>5. \A j, k \in A : f[j] = f[k] => j = k
  <2>1. ASSUME NEW j \in A, NEW k \in A, f[j] = f[k] PROVE j = k
    <3>1. MovedFrom(to, from, MovedFrom(from, to, j)) = j
      BY <1>2, MovedBackFrom
    <3>2. MovedFrom(to, from, MovedFrom(from, to, k)) = k
      BY <1>2, MovedBackFrom
    <3>3. QED
      BY <2>1, <3>1, <3>2
  <2>2. QED
    BY <2>1
<1>6. \A b \in B : \E k \in A : f[k] = b
  <2>1. ASSUME NEW b \in B PROVE \E k \in A : f[k] = b
    <3>1. MovedFrom(to, from, b) \in 1 .. Len(s) /\ MovedFrom(from, to, MovedFrom(to, from, b)) = b
      BY <1>2, MovedBackFrom
    <3>2. MovedFrom(to, from, b) \in A
      BY <1>2, <3>1
    <3>3. QED
      BY <3>1, <3>2
  <2>2. QED
    BY <2>1
<1>7. ExistsBijection(A, B)
  <2> HIDE DEF A, B, f
  <2>1. f \in Bijection(A, B)
    BY <1>4, <1>5, <1>6 DEF Bijection, Injection, Surjection, IsInjective
  <2>2. QED
    BY <2>1 DEF ExistsBijection
<1>8. Cardinality(B) = Cardinality(A)
  <2> HIDE DEF A, B, f
  <2> QED BY <1>3, <1>7, FS_Bijection
<1>9. QED
  BY <1>2, <1>8 DEF Standing

-----------------------------------------------------------------------------
(* The column of effects.                                                  *)

\* The answer is about what the request did to the column it met.
ColumnPromise ==
  /\ AddedIsNamed /\ OnlyTheReadEffectChanged /\ DoneMoveKeepsEffects
  /\ RestoredIsAsBefore /\ MoveIsUndone

ColumnInv ==
  /\ reply = NoReply => {column, seen} \subseteq Seq(Effects)
  /\ ColumnPromise

\* Without an answer nothing is promised.
LEMMA NoPromiseYet == ASSUME reply = NoReply PROVE ColumnPromise
BY DEF NoReply, ColumnPromise, AddedIsNamed, OnlyTheReadEffectChanged, DoneMoveKeepsEffects,
       RestoredIsAsBefore, MoveIsUndone, Done

\* What it takes for a request to end as promised.
LEMMA EndsAsPromised ==
  ASSUME NEW c, NEW kind, NEW p, NEW goal, NEW result, NEW restore,
         Ends(c, kind, p, goal, result, restore),
         kind # "none",
         kind = "add" /\ result = "done" => RemoveAt(c, p) = column /\ c[p].name = goal,
         kind \in {"delete", "enable", "set", "move"} => column[p] = seen[p],
         kind = "delete" /\ result = "done" => c = RemoveAt(column, p),
         kind = "enable" /\ result = "done" => c = [column EXCEPT ![p].on = goal],
         kind = "set" /\ result = "done" => c = [column EXCEPT ![p].value = goal],
         kind = "move" /\ result = "done" =>
           /\ c[goal] = column[p]
           /\ \A e \in Effects : Cardinality({q \in DOMAIN c : c[q] = e})
                                   = Cardinality({q \in DOMAIN column : column[q] = e}),
         restore = "restored" => c = column,
         obliging /\ kind = "move" /\ result = "failed" => c = column
  PROVE  ColumnInv'
<1>1. /\ column' = c /\ before' = column /\ seen' = seen /\ obliging' = obliging
      /\ reply' = [kind |-> kind, at |-> p, goal |-> goal, result |-> result, restore |-> restore]
  BY DEF Ends
<1>2. reply' # NoReply
  BY <1>1 DEF NoReply
<1>3. AddedIsNamed'
  BY <1>1 DEF AddedIsNamed, Done
<1>4. OnlyTheReadEffectChanged'
  BY <1>1 DEF OnlyTheReadEffectChanged, Done
<1>5. DoneMoveKeepsEffects'
  BY <1>1 DEF DoneMoveKeepsEffects, Done
<1>6. RestoredIsAsBefore' /\ MoveIsUndone'
  BY <1>1 DEF RestoredIsAsBefore, MoveIsUndone
<1>7. QED
  BY <1>2, <1>3, <1>4, <1>5, <1>6 DEF ColumnInv, ColumnPromise

\* A failure of which nothing is said.
LEMMA EndsUntold ==
  ASSUME NEW c, NEW kind, NEW p, NEW goal, NEW result \in {"refused", "failed"},
         NEW restore \in {"notAttempted", "failed"},
         Ends(c, kind, p, goal, result, restore), kind # "none",
         kind \in {"delete", "enable", "set", "move"} => column[p] = seen[p],
         ~(obliging /\ kind = "move" /\ result = "failed")
  PROVE  ColumnInv'
BY EndsAsPromised

\* An answer about a column that could not be read again.
LEMMA UnreadEnds ==
  ASSUME NEW columns, NEW kind, NEW p, NEW goal, Unread(columns, kind, p, goal), kind # "none",
         kind \in {"delete", "enable", "set", "move"} => column[p] = seen[p]
  PROVE  ColumnInv'
<1>1. PICK c : Ends(c, kind, p, goal, "failed", "notAttempted") /\ ~obliging
  BY DEF Unread
<1>2. QED
  BY <1>1, EndsUntold

\* The fingerprint of an effect is made of its place, too.
LEMMA ResolvesToIt ==
  ASSUME NEW p, NEW q, ResolvesTo(p, q)
  PROVE  q = p /\ column[q] = seen[p]
BY DEF ResolvesTo, EffectPrint

\* The names of the effects of a column.
LEMMA NamesAre ==
  ASSUME NEW c \in Seq(Effects)
  PROVE  /\ EffectNamesOf(c) \in Seq(EffectNames) /\ Len(EffectNamesOf(c)) = Len(c)
         /\ \A k \in 1 .. Len(c) : EffectNamesOf(c)[k] = c[k].name
         /\ DOMAIN EffectNamesOf(c) = 1 .. Len(c)
<1>1. Len(c) \in Nat /\ DOMAIN c = 1 .. Len(c) /\ \A k \in 1 .. Len(c) : c[k] \in Effects
  BY LenProperties
<1>2. EffectNamesOf(c) \in [1 .. Len(c) -> EffectNames]
  BY <1>1 DEF EffectNamesOf, Effects
<1>3. EffectNamesOf(c) \in Seq(EffectNames)
  BY <1>1, <1>2, SeqDef
<1>4. Len(EffectNamesOf(c)) = Len(c)
  BY <1>1, <1>2, <1>3, LenProperties
<1>5. QED
  BY <1>1, <1>3, <1>4 DEF EffectNamesOf

\* A column with an effect put in.
IsWithPutIn(now, was, r, e) ==
  /\ now \in Seq(Effects) /\ Len(now) = Len(was) + 1
  /\ \A k \in 1 .. Len(was) + 1 :
       now[k] = IF k < r THEN was[k] ELSE IF k = r THEN e ELSE was[k - 1]

LEMMA InsertedIs ==
  ASSUME NEW was \in Seq(Effects), NEW e \in Effects, NEW r \in 1 .. Len(was) + 1
  PROVE  IsWithPutIn(InsertAt(was, r, e), was, r, e)
BY InsertAtIs, SMT DEF IsWithPutIn

\* What was put in is found where it is, unless it stands before its own name.
LEMMA AddedIsFound ==
  ASSUME NEW was \in Seq(Effects), NEW e \in Effects, NEW r \in 1 .. Len(was) + 1,
         NEW now, now = InsertAt(was, r, e)
  PROVE  (r <= Len(was) => was[r].name # e.name)
           => \A p \in AddedEffectPosition(EffectNamesOf(was), EffectNamesOf(now)) : p = r
<1>1. Len(was) \in Nat /\ \A k \in 1 .. Len(was) : was[k] \in Effects
  BY LenProperties
<1>2. /\ now \in Seq(Effects) /\ Len(now) = Len(was) + 1
      /\ \A k \in 1 .. Len(was) + 1 :
           now[k] = IF k < r THEN was[k] ELSE IF k = r THEN e ELSE was[k - 1]
  <2>1. IsWithPutIn(now, was, r, e)
    BY InsertedIs
  <2>2. QED
    BY <2>1 DEF IsWithPutIn
<1> SUFFICES ASSUME r <= Len(was) => was[r].name # e.name,
                    NEW p \in AddedEffectPosition(EffectNamesOf(was), EffectNamesOf(now))
             PROVE  p = r
  OBVIOUS
<1>3. PICK n, w : n = EffectNamesOf(now) /\ w = EffectNamesOf(was)
  OBVIOUS
<1>4. /\ Len(w) = Len(was) /\ \A k \in 1 .. Len(was) : w[k] = was[k].name
      /\ Len(n) = Len(was) + 1 /\ \A k \in 1 .. Len(was) + 1 : n[k] = now[k].name
      /\ DOMAIN n = 1 .. Len(was) + 1
  BY <1>2, <1>3, NamesAre
<1>5. /\ p \in 1 .. Len(was) + 1 /\ \A q \in 1 .. p - 1 : n[q] = w[q]
      /\ p <= Len(was) => n[p] # w[p]
  BY <1>3, <1>4 DEF AddedEffectPosition
<1>6. ASSUME p < r PROVE FALSE
  <2>1. p \in 1 .. Len(was) /\ p <= Len(was)
    BY <1>1, <1>5, <1>6
  <2>2. n[p] = w[p]
    BY <1>2, <1>4, <1>6, <2>1
  <2>3. QED
    BY <1>5, <2>1, <2>2
<1>7. ASSUME r < p PROVE FALSE
  <2>1. r \in 1 .. p - 1 /\ r \in 1 .. Len(was) /\ r <= Len(was)
    BY <1>1, <1>5, <1>7
  <2>2. n[r] = w[r]
    BY <1>5, <2>1
  <2>3. n[r] = e.name /\ w[r] = was[r].name
    BY <1>2, <1>4, <2>1
  <2>4. QED
    BY <2>1, <2>2, <2>3
<1>8. QED
  BY <1>5, <1>6, <1>7

\* The requests, each from its call to its answer.
LEMMA AddEnds ==
  ASSUME reply = NoReply, ColumnInv, AddEffect
  PROVE  ColumnInv'
<1>1. PICK was \in Seq(Effects) : was = column
  BY DEF ColumnInv
<1>2. PICK name \in EffectNames :
        \/ Unread(HostAdds(name), "add", 0, name)
        \/ \E c \in HostAdds(name) :
             \/ \E p \in AddedEffectPosition(EffectNamesOf(column), EffectNamesOf(c)) :
                  Ends(c, "add", p, name, "done", "notAttempted")
             \/ Ends(c, "add", 0, name, "failed", "notAttempted")
  BY DEF AddEffect
<1>3. CASE Unread(HostAdds(name), "add", 0, name)
  BY <1>3, UnreadEnds
<1>4. ASSUME NEW c \in HostAdds(name), Ends(c, "add", 0, name, "failed", "notAttempted")
      PROVE  ColumnInv'
  BY <1>4, EndsUntold
<1>5. ASSUME NEW c \in HostAdds(name),
             NEW p \in AddedEffectPosition(EffectNamesOf(was), EffectNamesOf(c)),
             Ends(c, "add", p, name, "done", "notAttempted")
      PROVE  ColumnInv'
  <2>1. PICK e \in NewEffects(name) :
          \/ c \in Inserted(was, e) /\ NotBeforeTwin(was, c, e)
          \/ c = was \/ c = was \o <<e, e>>
    BY <1>1 DEF HostAdds
  <2>2. e \in Effects /\ e.name = name
    BY DEF NewEffects
  <2>3. Len(EffectNamesOf(c)) = Len(EffectNamesOf(was)) + 1
    BY DEF AddedEffectPosition
  <2>4. Len(EffectNamesOf(was)) = Len(was) /\ Len(was) \in Nat
    BY NamesAre, LenProperties
  <2>5. c # was
    BY <2>3, <2>4
  <2>6. c # was \o <<e, e>>
    <3>1. PICK d : d = was \o <<e, e>>
      OBVIOUS
    <3>2. <<e, e>> \in Seq(Effects) /\ Len(<<e, e>>) = 2
      BY <2>2
    <3>3. d \in Seq(Effects) /\ Len(d) = Len(was) + 2
      BY <3>1, <3>2, ConcatProperties
    <3>4. Len(EffectNamesOf(d)) = Len(was) + 2
      BY <3>3, NamesAre
    <3>5. EffectNamesOf(c) # EffectNamesOf(d)
      BY <2>3, <2>4, <3>4
    <3>6. QED
      BY <3>1, <3>5
  <2>7. PICK r \in DOMAIN c :
          c = InsertAt(was, r, e) /\ (r <= Len(was) => was[r].name # e.name)
    BY <2>1, <2>5, <2>6 DEF NotBeforeTwin
  <2>8. r \in 1 .. Len(was) + 1
    <3>1. PICK i \in 1 .. Len(was) + 1 : c = InsertAt(was, i, e)
      BY <2>1, <2>5, <2>6 DEF Inserted
    <3>2. c \in Seq(Effects) /\ Len(c) = Len(was) + 1
      BY <2>2, <3>1, InsertAtIs
    <3>3. DOMAIN c = 1 .. Len(was) + 1
      BY <3>2, LenProperties
    <3>4. QED
      BY <2>7, <3>3
  <2>9. p = r
    BY <2>2, <2>7, <2>8, AddedIsFound
  <2>10. RemoveAt(c, r) = was
    BY <2>2, <2>7, <2>8, RemoveUndoesInsert
  <2>11. c[r] = e
    BY <2>2, <2>7, <2>8, InsertedStands
  <2>12. RemoveAt(c, p) = column /\ c[p].name = name
    BY <1>1, <2>2, <2>9, <2>10, <2>11
  <2>13. QED
    BY <1>5, <2>12, EndsAsPromised
<1>6. QED
  BY <1>1, <1>2, <1>3, <1>4, <1>5

LEMMA DeleteEnds ==
  ASSUME DeleteEffect
  PROVE  ColumnInv'
<1>1. PICK p \in DOMAIN seen, q \in DOMAIN column :
        /\ ResolvesTo(p, q)
        /\ \/ Unread({RemoveAt(column, q)}, "delete", p, 0)
           \/ Ends(RemoveAt(column, q), "delete", p, 0, "done", "notAttempted")
  BY DEF DeleteEffect
<1>2. q = p /\ column[p] = seen[p]
  BY <1>1, ResolvesToIt
<1>3. CASE Unread({RemoveAt(column, q)}, "delete", p, 0)
  BY <1>2, <1>3, UnreadEnds
<1>4. CASE Ends(RemoveAt(column, q), "delete", p, 0, "done", "notAttempted")
  <2>1. PICK c : c = RemoveAt(column, p)
    OBVIOUS
  <2>2. Ends(c, "delete", p, 0, "done", "notAttempted")
    BY <1>2, <1>4, <2>1
  <2>3. QED
    BY <1>2, <2>1, <2>2, EndsAsPromised
<1>5. QED
  BY <1>1, <1>3, <1>4

LEMMA EnabledEnds ==
  ASSUME NEW c, NEW p, NEW goal, Ends(c, "enable", p, goal, "done", "notAttempted"),
         column[p] = seen[p], c = [column EXCEPT ![p].on = goal]
  PROVE  ColumnInv'
<1>1. PICK kind, result, restore :
        kind = "enable" /\ result = "done" /\ restore = "notAttempted"
  OBVIOUS
<1>2. Ends(c, kind, p, goal, result, restore)
  BY <1>1
<1>3. kind = "enable" /\ result = "done" => c = [column EXCEPT ![p].on = goal]
  OBVIOUS
<1>4. /\ kind # "none" /\ kind # "add" /\ kind # "delete" /\ kind # "set" /\ kind # "move"
      /\ restore # "restored"
  BY <1>1
<1>5. kind \in {"delete", "enable", "set", "move"} => column[p] = seen[p]
  OBVIOUS
<1>6. QED
  BY <1>2, <1>3, <1>4, <1>5, EndsAsPromised

LEMMA EnableEnds ==
  ASSUME reply = NoReply, ColumnInv, SetEffectEnabled
  PROVE  ColumnInv'
<1>1. PICK p \in DOMAIN seen, q \in DOMAIN column, on \in BOOLEAN :
        /\ ResolvesTo(p, q)
        /\ \/ Unread(HostEnables(q, on), "enable", p, on)
           \/ \E c \in HostEnables(q, on) :
                Ends(c, "enable", p, on, IF c[q].on = on THEN "done" ELSE "failed", "notAttempted")
  BY DEF SetEffectEnabled
<1>2. q = p /\ column[p] = seen[p]
  BY <1>1, ResolvesToIt
<1>3. CASE Unread(HostEnables(q, on), "enable", p, on)
  BY <1>2, <1>3, UnreadEnds
<1>4. ASSUME NEW c \in HostEnables(q, on),
             Ends(c, "enable", p, on, IF c[q].on = on THEN "done" ELSE "failed", "notAttempted")
      PROVE  ColumnInv'
  <2>1. CASE c[q].on = on
    <3>1. column \in Seq(Effects) /\ p \in DOMAIN column
      BY <1>1, <1>2 DEF ColumnInv
    <3>2. column[p] \in Effects
      BY <3>1, LenProperties
    <3>3. c = [column EXCEPT ![p].on = on]
      <4>1. CASE c = column
        <5>1. column[p].on = on
          BY <1>2, <2>1, <4>1
        <5>2. [column[p] EXCEPT !.on = on] = column[p]
          BY <3>2, <5>1 DEF Effects
        <5>3. [column EXCEPT ![p] = column[p]] = column
          BY <3>1, LenProperties
        <5>4. QED
          BY <3>1, <4>1, <5>2, <5>3
      <4>2. QED
        BY <1>2, <4>1 DEF HostEnables
    <3>4. PICK goal : goal = on
      OBVIOUS
    <3>5. Ends(c, "enable", p, goal, "done", "notAttempted")
      BY <1>4, <2>1, <3>4
    <3>6. c = [column EXCEPT ![p].on = goal]
      BY <3>3, <3>4
    <3>7. QED
      BY <1>2, <3>5, <3>6, EnabledEnds
  <2>2. CASE c[q].on # on
    <3>1. Ends(c, "enable", p, on, "failed", "notAttempted")
      BY <1>4, <2>2
    <3>2. QED
      BY <1>2, <3>1, EndsUntold
  <2>3. QED
    BY <2>1, <2>2
<1>5. QED
  BY <1>1, <1>3, <1>4

\* The column with another value of one effect.
Wrote(c, q, v) == [c EXCEPT ![q].value = v]

\* The last value written is the one that stands, and none of the others is touched.
LEMMA WrittenIs ==
  ASSUME NEW was \in Seq(Effects), NEW q \in DOMAIN was, NEW v
  PROVE  /\ Wrote(was, q, v)[q].value = v
         /\ v = was[q].value => Wrote(was, q, v) = was
         /\ \A w : Wrote(Wrote(was, q, v), q, w) = Wrote(was, q, w)
<1>1. was[q] \in Effects /\ was \in [DOMAIN was -> Effects]
  BY LenProperties
<1>2. PICK c : c = Wrote(was, q, v) /\ c = [was EXCEPT ![q] = [was[q] EXCEPT !.value = v]]
  BY DEF Wrote
<1>3. c[q] = [was[q] EXCEPT !.value = v] /\ c[q].value = v
  BY <1>1, <1>2 DEF Effects
<1>4. ASSUME v = was[q].value PROVE c = was
  <2>1. [was[q] EXCEPT !.value = v] = was[q]
    BY <1>1, <1>4 DEF Effects
  <2>2. QED
    BY <1>1, <1>2, <2>1
<1>5. ASSUME NEW w PROVE Wrote(c, q, w) = Wrote(was, q, w)
  <2>1. [c[q] EXCEPT !.value = w] = [was[q] EXCEPT !.value = w]
    BY <1>1, <1>3 DEF Effects
  <2>2. QED
    BY <1>1, <1>2, <2>1 DEF Wrote
<1>6. QED
  BY <1>2, <1>3, <1>4, <1>5

LEMMA ColumnWritten ==
  ASSUME column \in Seq(Effects), NEW p \in DOMAIN column, NEW v, NEW c, c = Wrote(column, p, v)
  PROVE  c[p].value = v /\ (v = column[p].value => c = column)
<1>1. PICK was \in Seq(Effects) : was = column
  OBVIOUS
<1>2. p \in DOMAIN was /\ c = Wrote(was, p, v)
  BY <1>1
<1>3. /\ Wrote(was, p, v)[p].value = v
      /\ v = was[p].value => Wrote(was, p, v) = was
      /\ \A w : Wrote(Wrote(was, p, v), p, w) = Wrote(was, p, w)
  BY <1>2, WrittenIs, Zenon
<1>4. QED
  BY <1>1, <1>2, <1>3, Zenon

\* A move as the client was told of it loses nothing.
LEMMA ColumnKept ==
  ASSUME column \in Seq(Effects), NEW p \in 1 .. Len(column), NEW x \in 1 .. Len(column),
         NEW c, c = Moved(column, p, x), NEW e
  PROVE  Standing(c, e) = Standing(column, e)
<1>1. PICK was \in Seq(Effects) : was = column
  OBVIOUS
<1>2. p \in 1 .. Len(was) /\ x \in 1 .. Len(was) /\ c = Moved(was, p, x)
  BY <1>1
<1>3. Standing(c, e) = Standing(was, e)
  BY <1>2, MovedKeeps
<1>4. QED
  BY <1>1, <1>3

LEMMA WrittenEnds ==
  ASSUME NEW c, NEW p, NEW goal, Ends(c, "set", p, goal, "done", "notAttempted"),
         column[p] = seen[p], c = [column EXCEPT ![p].value = goal]
  PROVE  ColumnInv'
<1>1. PICK kind, result, restore :
        kind = "set" /\ result = "done" /\ restore = "notAttempted"
  OBVIOUS
<1>2. Ends(c, kind, p, goal, result, restore)
  BY <1>1
<1>3. kind = "set" /\ result = "done" => c = [column EXCEPT ![p].value = goal]
  OBVIOUS
<1>4. /\ kind # "none" /\ kind # "add" /\ kind # "delete" /\ kind # "enable" /\ kind # "move"
      /\ restore # "restored"
  BY <1>1
<1>5. kind \in {"delete", "enable", "set", "move"} => column[p] = seen[p]
  OBVIOUS
<1>6. QED
  BY <1>2, <1>3, <1>4, <1>5, EndsAsPromised

\* The value that was there is written again.
LEMMA PutBackEnds ==
  ASSUME ColumnInv, reply = NoReply, NEW p \in DOMAIN column, column[p] = seen[p], NEW value,
         NEW v, NEW c, c = Wrote(column, p, v),
         NEW origin, origin = column[p].value, PutValueBack(c, p, p, value, origin)
  PROVE  ColumnInv'
<1>1. PICK was \in Seq(Effects) : was = column
  BY DEF ColumnInv
<1>2. PICK d : /\ \/ \E w : d = Wrote(c, p, w)
                  \/ d = c
               /\ \/ d[p].value = origin /\ Ends(d, "set", p, value, "failed", "restored")
                  \/ Ends(d, "set", p, value, "failed", "failed")
  BY DEF PutValueBack, HostWrites, Wrote
<1>3. CASE Ends(d, "set", p, value, "failed", "failed")
  BY <1>3, EndsUntold
<1>4. CASE d[p].value = origin /\ Ends(d, "set", p, value, "failed", "restored")
  <2>1. p \in DOMAIN was /\ c = Wrote(was, p, v) /\ origin = was[p].value
    BY <1>1
  <2>2. \A w : Wrote(c, p, w) = Wrote(was, p, w)
    <3>1. \A w : Wrote(Wrote(was, p, v), p, w) = Wrote(was, p, w)
      BY <2>1, WrittenIs
    <3>2. QED
      BY <2>1, <3>1, Zenon
  <2>3. PICK w : d = Wrote(was, p, w)
    <3>1. was = Wrote(was, p, was[p].value)
      BY <2>1, WrittenIs
    <3>2. QED
      BY <1>2, <2>1, <2>2, Zenon
  <2>4. d[p].value = w /\ (w = was[p].value => d = was)
    BY <2>1, <2>3, WrittenIs
  <2>6. d = column
    BY <1>1, <1>4, <2>1, <2>4
  <2>5. QED
    BY <1>4, <2>6, EndsAsPromised
<1>5. QED
  BY <1>2, <1>3, <1>4

LEMMA SetEnds ==
  ASSUME ColumnInv, reply = NoReply, SetObjectItem
  PROVE  ColumnInv'
<1>1. PICK p \in DOMAIN seen, q \in DOMAIN column, value \in Settings :
        /\ ResolvesTo(p, q)
        /\ \/ Unread(HostWrites(column, q, value), "set", p, value)
           \/ \E c \in HostWrites(column, q, value) :
                \/ Verify(c, q, p, value, column[q].value)
                \/ PutValueBack(c, q, p, value, column[q].value)
  BY DEF SetObjectItem
<1>2. q = p /\ column[p] = seen[p] /\ column \in Seq(Effects) /\ p \in DOMAIN column
  BY <1>1, ResolvesToIt DEF ColumnInv
<1>3. CASE Unread(HostWrites(column, q, value), "set", p, value)
  BY <1>2, <1>3, UnreadEnds
<1>4. ASSUME NEW c \in HostWrites(column, p, value),
             \/ Verify(c, p, p, value, column[p].value)
             \/ PutValueBack(c, p, p, value, column[p].value)
      PROVE  ColumnInv'
  <2>1. PICK v : c = Wrote(column, p, v)
    BY DEF HostWrites, Wrote
  <2>2. c[p].value = v /\ (v = column[p].value => c = column)
    BY <1>2, <2>1, ColumnWritten
  <2>3. PICK origin : origin = column[p].value
    OBVIOUS
  <2>4. CASE PutValueBack(c, p, p, value, origin)
    BY <1>2, <2>1, <2>3, <2>4, PutBackEnds
  <2>5. CASE c[p].value = value /\ Ends(c, "set", p, value, "done", "notAttempted")
    <3>1. c = [column EXCEPT ![p].value = value]
      BY <2>1, <2>2, <2>5 DEF Wrote
    <3>2. QED
      BY <1>2, <2>5, <3>1, WrittenEnds
  <2>6. CASE c[p].value = origin /\ Ends(c, "set", p, value, "failed", "restored")
    <3>1. c = column
      BY <2>2, <2>3, <2>6
    <3>2. QED
      BY <1>2, <2>6, <3>1, EndsAsPromised
  <2>7. QED
    BY <1>4, <2>3, <2>4, <2>5, <2>6 DEF Verify
<1>5. QED
  BY <1>1, <1>2, <1>3, <1>4

-----------------------------------------------------------------------------
(* The move of an effect.                                                  *)

\* What is found to send back makes the column as it was, and when the moved
\* effect is only in another place there is one to be found.
LEMMA TargetRestores ==
  ASSUME NEW was, NEW now, NEW from, NEW r \in RestoreTarget(was, now, from)
  PROVE  r \in DOMAIN now /\ Moved(now, r, from) = was
BY DEF RestoreTarget

\* There is one to be found.
LEMMA TargetIsFound ==
  ASSUME NEW was \in Seq(Effects), NEW from \in 1 .. Len(was), NEW x \in 1 .. Len(was),
         NEW now, now = Moved(was, from, x)
  PROVE  RestoreTarget(was, now, from) # {}
<1> DEFINE fits == {p \in DOMAIN now : Moved(now, p, from) = was}
<1>1. now \in Seq(Effects) /\ Len(now) = Len(was)
  BY MovedIs
<1>2. DOMAIN now = 1 .. Len(was) /\ Len(was) \in Nat
  BY <1>1, LenProperties
<1>3. Moved(now, x, from) = was
  BY MovedBack
<1>4. x \in fits
  BY <1>2, <1>3
<1>5. fits \in SUBSET Nat
  BY <1>2
<1>6. PICK n \in fits : \A m \in fits : n <= m
  <2> HIDE DEF fits
  <2> QED BY <1>4, <1>5, Least
<1>7. RestoreTarget(was, now, from) = {p \in fits : \A q \in fits : p <= q}
  BY DEF RestoreTarget
<1>8. QED
  BY <1>6, <1>7

\* The columns that a move can leave.
LEMMA MoveGives ==
  ASSUME NEW was \in Seq(Effects), NEW q \in DOMAIN was, NEW to \in DOMAIN was,
         NEW c \in HostMoves(was, q, to) \cup Elsewhere(was, q)
  PROVE  /\ LengthKept(was, c) => \E x \in 1 .. Len(was) : c = Moved(was, q, x)
         /\ obliging => LengthKept(was, c)
<1>1. DOMAIN was = 1 .. Len(was) /\ Len(was) \in Nat
  BY LenProperties
<1>2. \A x \in 1 .. Len(was) : Moved(was, q, x) \in Seq(Effects) /\ Len(Moved(was, q, x)) = Len(was)
  BY <1>1, MovedIs
<1>3. \/ \E x \in 1 .. Len(was) : c = Moved(was, q, x)
      \/ ~obliging /\ \E k \in 1 .. Len(was) : c = RemoveAt(Moved(was, q, to), k)
  BY <1>1 DEF HostMoves, Elsewhere
<1>4. CASE \E x \in 1 .. Len(was) : c = Moved(was, q, x)
  BY <1>2, <1>4 DEF LengthKept
<1>5. CASE ~obliging /\ \E k \in 1 .. Len(was) : c = RemoveAt(Moved(was, q, to), k)
  <2>1. PICK k \in 1 .. Len(was) : c = RemoveAt(Moved(was, q, to), k)
    BY <1>5
  <2>2. PICK m \in Seq(Effects) : m = Moved(was, q, to) /\ Len(m) = Len(was)
    BY <1>1, <1>2
  <2>3. Len(c) = Len(was) - 1
    BY <2>1, <2>2, RemoveAtIs
  <2>4. Len(was) # Len(was) - 1
    <3>1. \A n \in Nat : n # n - 1
      OBVIOUS
    <3>2. QED
      BY <1>1, <3>1
  <2>6. ~LengthKept(was, c)
    BY <2>3, <2>4 DEF LengthKept
  <2>5. QED
    BY <1>5, <2>6
<1>6. QED
  BY <1>3, <1>4, <1>5

\* The effect is sent back where it came from.
LEMMA PutEffectBackEnds ==
  ASSUME ColumnInv, reply = NoReply, NEW p \in 1 .. Len(column), column[p] = seen[p],
         NEW to, NEW x \in 1 .. Len(column), NEW c, c = Moved(column, p, x),
         PutEffectBack(c, p, p, to)
  PROVE  ColumnInv'
<1>1. column \in Seq(Effects)
  BY DEF ColumnInv
<1>2. RestoreTarget(column, c, p) # {}
  BY <1>1, TargetIsFound
<1>3. PICK r, d :
        /\ r \in RestoreTarget(column, c, p)
        /\ obliging => d = Moved(c, r, p)
        /\ \/ SameColumn(column, d, p) /\ Ends(d, "move", p, to, "failed", "restored")
           \/ /\ obliging => ~SameColumn(column, d, p)
              /\ Ends(d, "move", p, to, "failed", "failed")
  BY <1>2 DEF PutEffectBack
<1>4. Moved(c, r, p) = column
  BY <1>3, TargetRestores
<1>5. CASE SameColumn(column, d, p) /\ Ends(d, "move", p, to, "failed", "restored")
  <2>1. d = column
    BY <1>5 DEF SameColumn
  <2>2. QED
    BY <1>5, <2>1, EndsAsPromised
<1>6. CASE (obliging => ~SameColumn(column, d, p)) /\ Ends(d, "move", p, to, "failed", "failed")
  <2>1. ~obliging
    BY <1>3, <1>4, <1>6 DEF SameColumn
  <2>2. QED
    BY <1>6, <2>1, EndsUntold
<1>7. QED
  BY <1>3, <1>5, <1>6

LEMMA MoveEnds ==
  ASSUME ColumnInv, reply = NoReply, MoveEffect
  PROVE  ColumnInv'
<1>1. PICK p \in DOMAIN seen, q \in DOMAIN column, to \in DOMAIN column :
        /\ ResolvesTo(p, q)
        /\ \/ Unread(HostMoves(column, q, to), "move", p, to)
           \/ \E c \in HostMoves(column, q, to) \cup Elsewhere(column, q) :
                \/ ~LengthKept(column, c) /\ Ends(c, "move", p, to, "failed", "failed")
                \/ /\ LengthKept(column, c) /\ Arrived(c, q, to)
                   /\ Ends(c, "move", p, to, "done", "notAttempted")
                \/ /\ LengthKept(column, c)
                   /\ \/ c = column /\ Ends(c, "move", p, to, "failed", "restored")
                      \/ PutEffectBack(c, q, p, to)
  BY ZenonT(150) DEF MoveEffect
<1>2. q = p /\ column[p] = seen[p] /\ column \in Seq(Effects) /\ p \in DOMAIN column
  BY <1>1, ResolvesToIt DEF ColumnInv
<1>3. DOMAIN column = 1 .. Len(column)
  BY <1>2, LenProperties
<1>4. CASE Unread(HostMoves(column, q, to), "move", p, to)
  BY <1>2, <1>4, UnreadEnds
<1>5. ASSUME NEW c \in HostMoves(column, p, to) \cup Elsewhere(column, p),
             ~LengthKept(column, c), Ends(c, "move", p, to, "failed", "failed")
      PROVE  ColumnInv'
  <2>1. ~obliging
    BY <1>2, <1>5, MoveGives
  <2>2. QED
    BY <1>2, <1>5, <2>1, EndsUntold
<1>6. ASSUME NEW c \in HostMoves(column, p, to) \cup Elsewhere(column, p), LengthKept(column, c),
             Arrived(c, p, to), Ends(c, "move", p, to, "done", "notAttempted")
      PROVE  ColumnInv'
  <2>1. PICK x \in 1 .. Len(column) : c = Moved(column, p, x)
    BY <1>2, <1>6, MoveGives
  <2>2. \A e \in Effects : Standing(c, e) = Standing(column, e)
    BY <1>2, <1>3, <2>1, ColumnKept
  <2>5. \A e \in Effects : Cardinality({k \in DOMAIN c : c[k] = e})
                             = Cardinality({k \in DOMAIN column : column[k] = e})
    BY <2>2 DEF Standing
  <2>3. c[to] = column[p]
    BY <1>6 DEF Arrived
  <2>4. QED
    BY <1>2, <1>6, <2>5, <2>3, EndsAsPromised
<1>7. ASSUME NEW c, c = column, Ends(c, "move", p, to, "failed", "restored")
      PROVE  ColumnInv'
  BY <1>2, <1>7, EndsAsPromised
<1>8. ASSUME NEW c \in HostMoves(column, p, to) \cup Elsewhere(column, p), LengthKept(column, c),
             PutEffectBack(c, p, p, to)
      PROVE  ColumnInv'
  <2>1. PICK x \in 1 .. Len(column) : c = Moved(column, p, x)
    BY <1>2, <1>8, MoveGives
  <2>2. QED
    BY <1>2, <1>3, <1>8, <2>1, PutEffectBackEnds
<1>9. QED
  BY <1>1, <1>2, <1>4, <1>5, <1>6, <1>7, <1>8

-----------------------------------------------------------------------------
\* The user works on the column before the request; nothing is answered yet.
LEMMA UserEditsColumn ==
  ASSUME ColumnInv, reply = NoReply, UserEdits
  PROVE  ColumnInv'
<1>1. column \in Seq(Effects) /\ seen \in Seq(Effects) /\ reply' = NoReply /\ seen' = seen
  BY DEF ColumnInv, UserEdits
<1>2. DOMAIN column = 1 .. Len(column)
  BY <1>1, LenProperties
<1>3. column' \in Seq(Effects)
  <2>1. ASSUME NEW p \in DOMAIN column, NEW e \in Effects, column' = [column EXCEPT ![p] = e]
        PROVE  column' \in Seq(Effects)
    BY <1>1, <1>2, <2>1, ExceptSeq
  <2>2. ASSUME NEW p \in DOMAIN column, NEW q \in DOMAIN column, column' = Moved(column, p, q)
        PROVE  column' \in Seq(Effects)
    BY <1>1, <1>2, <2>2, MovedIs
  <2>3. ASSUME NEW p \in DOMAIN column, column' = RemoveAt(column, p)
        PROVE  column' \in Seq(Effects)
    BY <1>1, <1>2, <2>3, RemoveAtIs
  <2>4. ASSUME NEW e \in Effects, column' \in Inserted(column, e)
        PROVE  column' \in Seq(Effects)
    <3>1. PICK i \in 1 .. Len(column) + 1 : column' = InsertAt(column, i, e)
      BY <2>4 DEF Inserted
    <3>2. InsertAt(column, i, e) \in Seq(Effects)
      BY <1>1, InsertAtIs
    <3>3. QED
      BY <3>1, <3>2
  <2>5. QED
    BY <2>1, <2>2, <2>3, <2>4 DEF UserEdits
<1>4. ColumnPromise'
  BY <1>1 DEF NoReply, ColumnPromise, AddedIsNamed, OnlyTheReadEffectChanged,
              DoneMoveKeepsEffects, RestoredIsAsBefore, MoveIsUndone, Done
<1>5. QED
  BY <1>1, <1>3, <1>4 DEF ColumnInv

LEMMA RefusedColumn ==
  ASSUME ColumnRefused
  PROVE  ColumnInv'
BY EndsUntold DEF ColumnRefused

\* The column's invariant, from a start or at rest.
LEMMA ColumnStarts ==
  ASSUME ColumnInit \/ (column = <<>> /\ seen = <<>> /\ reply = NoReply)
  PROVE  ColumnInv
<1>1. reply = NoReply
  BY DEF ColumnInit
<1>2. column \in Seq(Effects) /\ seen \in Seq(Effects)
  <2>1. CASE ColumnInit
    <3>1. PICK k \in 0 .. MaxEffects : column \in [1 .. k -> Effects]
      BY <2>1 DEF ColumnInit, Columns
    <3>2. k \in Nat
      BY ColumnAssumption
    <3>3. QED
      BY <2>1, <3>1, <3>2, SeqDef DEF ColumnInit
  <2>2. CASE column = <<>> /\ seen = <<>>
    <3>1. <<>> \in Seq(Effects)
      OBVIOUS
    <3>2. QED
      BY <2>2, <3>1
  <2>3. QED
    BY <2>1, <2>2
<1>3. QED
  BY <1>1, <1>2, NoPromiseYet DEF ColumnInv

LEMMA ColumnGoesOn == ColumnInv /\ [ColumnNext]_columnVars => ColumnInv'
<1> SUFFICES ASSUME ColumnInv, [ColumnNext]_columnVars PROVE ColumnInv'
  OBVIOUS
<1>1. CASE UNCHANGED columnVars
  BY <1>1 DEF columnVars, ColumnInv, ColumnPromise, AddedIsNamed, OnlyTheReadEffectChanged,
              DoneMoveKeepsEffects, RestoredIsAsBefore, MoveIsUndone, Done
<1>2. CASE ColumnNext
  <2>1. reply = NoReply
    BY <1>2 DEF ColumnNext, UserEdits, ColumnRefused, AddEffect, DeleteEffect, SetEffectEnabled,
                SetObjectItem, MoveEffect
  <2>2. QED
    BY <1>2, <2>1, UserEditsColumn, RefusedColumn, AddEnds, DeleteEnds, EnableEnds, SetEnds,
       MoveEnds DEF ColumnNext
<1>3. QED
  BY <1>1, <1>2

\* Of finitely many numbers, one is the greatest.
LEMMA Greatest ==
  ASSUME NEW S \in SUBSET Nat, IsFiniteSet(S), S # {}
  PROVE  \E n \in S : \A m \in S : m <= n
<1> DEFINE From(n) == {m \in S : n <= m}
           F == {From(n) : n \in S}
<1>1. F \subseteq FiniteSubsetsOf(S)
  <2>1. ASSUME NEW n \in S PROVE From(n) \in SUBSET S /\ IsFiniteSet(From(n))
    BY FS_Subset
  <2>2. QED
    BY <2>1 DEF FiniteSubsetsOf
<1>2. F # {}
  OBVIOUS
<1>3. PICK T \in F : \A U \in F : ~ (U \subseteq T /\ U # T)
  <2> HIDE DEF F
  <2> QED BY <1>1, <1>2, Smallest
<1>4. PICK n \in S : T = From(n)
  OBVIOUS
<1>5. ASSUME NEW m \in S, ~(m <= n) PROVE FALSE
  <2>1. n \in From(n) /\ n \notin From(m)
    BY <1>5
  <2>2. From(m) \subseteq From(n)
    <3>1. \A x \in S : m <= x => n <= x
      BY <1>5
    <3>2. QED
      BY <3>1
  <2>3. QED
    BY <1>3, <1>4, <2>1, <2>2
<1>6. QED
  BY <1>5

\* A finite set of numbers has its order,
LEMMA CanBeOrdered ==
  ASSUME NEW S \in SUBSET Nat, IsFiniteSet(S)
  PROVE  \E s \in [1 .. Cardinality(S) -> S] : Ascending(s)
<1> DEFINE Ordered(T) == \E s \in [1 .. Cardinality(T) -> T] : Ascending(s)
           F == {T \in FiniteSubsetsOf(Nat) : ~Ordered(T)}
<1> SUFFICES ASSUME ~Ordered(S) PROVE FALSE
  OBVIOUS
<1>1. S \in F
  BY DEF FiniteSubsetsOf
<1>2. PICK T \in F : \A U \in F : ~ (U \subseteq T /\ U # T)
  <2> HIDE DEF F
  <2>1. F \subseteq FiniteSubsetsOf(Nat)
    BY DEF F
  <2>2. F # {}
    BY <1>1
  <2>3. QED
    BY <2>1, <2>2, Smallest
<1>3. T \in SUBSET Nat /\ IsFiniteSet(T) /\ ~Ordered(T) /\ Cardinality(T) \in Nat
  BY FS_CardinalityType DEF FiniteSubsetsOf
<1>4. T # {}
  <2>1. ASSUME T = {} PROVE Ordered(T)
    <3>1. Cardinality(T) = 0
      BY <2>1, FS_EmptySet
    <3>2. PICK s : s = [k \in 1 .. 0 |-> 0]
      OBVIOUS
    <3>3. s \in [1 .. Cardinality(T) -> T]
      BY <3>1, <3>2
    <3>4. Ascending(s)
      BY <3>2 DEF Ascending
    <3>5. QED
      BY <3>3, <3>4
  <2>2. QED
    BY <1>3, <2>1
<1>5. PICK m \in T : \A k \in T : k <= m
  <2> HIDE DEF Ordered
  <2> QED BY <1>3, <1>4, Greatest
<1> DEFINE U == T \ {m}
<1>6. IsFiniteSet(U) /\ Cardinality(U) = Cardinality(T) - 1 /\ Cardinality(U) \in Nat
  BY <1>3, FS_RemoveElement, FS_CardinalityType
<1>7. Ordered(U)
  <2>1. U \subseteq T /\ U # T
    OBVIOUS
  <2>2. U \in FiniteSubsetsOf(Nat)
    BY <1>3, <1>6 DEF FiniteSubsetsOf
  <2>3. QED
    BY <1>2, <2>1, <2>2
<1>8. PICK s \in [1 .. Cardinality(U) -> U] : Ascending(s)
  BY <1>7
<1>9. PICK c \in Nat : c = Cardinality(T) /\ Cardinality(U) = c - 1 /\ c > 0
  BY <1>3, <1>6
<1>10. PICK t : t = [k \in 1 .. c |-> IF k = c THEN m ELSE s[k]]
  OBVIOUS
<1>11. s \in [1 .. c - 1 -> U]
  BY <1>8, <1>9
<1>12. t \in [1 .. c -> T]
  <2>1. ASSUME NEW k \in 1 .. c PROVE t[k] \in T
    <3>1. k = c \/ k \in 1 .. c - 1
      BY <1>9
    <3>2. QED
      BY <1>10, <1>11, <3>1
  <2>2. QED
    BY <1>10, <2>1
<1>13. Ascending(t)
  <2>1. ASSUME NEW j \in 1 .. c, NEW k \in 1 .. c, j < k PROVE t[j] < t[k]
    <3>1. j \in 1 .. c - 1 /\ j # c /\ (k = c \/ (k \in 1 .. c - 1 /\ k # c))
      <4>1. j <= c - 1 /\ (k = c \/ k <= c - 1)
        BY <1>9, <2>1
      <4>2. j \in 1 .. c - 1 /\ j # c
        BY <1>9, <2>1, <4>1
      <4>3. k <= c - 1 => k \in 1 .. c - 1 /\ k # c
        BY <1>9, <2>1
      <4>4. QED
        BY <4>1, <4>2, <4>3
    <3>2. s[j] \in T /\ s[j] # m
      BY <1>11, <3>1
    <3>3. CASE k = c
      <4>1. t[j] = s[j] /\ t[k] = m
        BY <1>10, <3>1, <3>3
      <4>2. s[j] < m
        <5>1. s[j] <= m /\ s[j] \in Nat /\ m \in Nat
          BY <1>3, <1>5, <3>2
        <5>2. QED
          BY <3>2, <5>1
      <4>3. QED
        BY <4>1, <4>2
    <3>4. CASE k \in 1 .. c - 1 /\ k # c
      <4>1. t[j] = s[j] /\ t[k] = s[k]
        BY <1>10, <3>1, <3>4
      <4>2. s[j] < s[k]
        BY <1>8, <1>11, <2>1, <3>1, <3>4 DEF Ascending
      <4>3. QED
        BY <4>1, <4>2
    <3>5. QED
      BY <3>1, <3>3, <3>4
  <2>2. DOMAIN t = 1 .. c
    BY <1>10
  <2>3. QED
    BY <2>1, <2>2 DEF Ascending
<1>14. Ordered(T)
  BY <1>9, <1>12, <1>13
<1>15. QED
  BY <1>3, <1>14

\* which is its only one,
LEMMA OrderReachesAll ==
  ASSUME NEW S \in SUBSET Nat, IsFiniteSet(S), NEW s \in [1 .. Cardinality(S) -> S], Ascending(s)
  PROVE  \A p \in S : \E k \in 1 .. Cardinality(S) : s[k] = p
<1>1. PICK c \in Nat : c = Cardinality(S)
  BY FS_CardinalityType
<1>2. IsFiniteSet(1 .. c) /\ Cardinality(1 .. c) = c
  <2>1. IsFiniteSet(1 .. c) /\ Cardinality(1 .. c) = (IF 1 > c THEN 0 ELSE c - 1 + 1)
    BY FS_Interval
  <2>2. (IF 1 > c THEN 0 ELSE c - 1 + 1) = c
    OBVIOUS
  <2>3. QED
    BY <2>1, <2>2
<1>3. s \in Injection(1 .. c, S)
  <2>1. s \in [1 .. c -> S]
    BY <1>1
  <2>2. ASSUME NEW j \in 1 .. c, NEW k \in 1 .. c, s[j] = s[k] PROVE j = k
    <3>1. DOMAIN s = 1 .. c /\ s[j] \in Nat /\ s[k] \in Nat
      BY <2>1
    <3>2. ~(j < k) /\ ~(k < j)
      BY <2>2, <3>1 DEF Ascending
    <3>3. QED
      BY <3>2
  <2>3. QED
    BY <2>1, <2>2 DEF Injection, IsInjective
<1>4. s \in Surjection(1 .. c, S)
  BY <1>1, <1>2, <1>3, FS_Injection
<1>5. QED
  BY <1>1, <1>4 DEF Surjection

\* There is one way to put numbers in order.
LEMMA OrderIsOne ==
  ASSUME NEW S \in SUBSET Nat, IsFiniteSet(S),
         NEW s \in [1 .. Cardinality(S) -> S], NEW t \in [1 .. Cardinality(S) -> S],
         Ascending(s), Ascending(t)
  PROVE  s = t
<1>1. PICK c \in Nat : c = Cardinality(S)
  BY FS_CardinalityType
<1>2. /\ s \in [1 .. c -> S] /\ t \in [1 .. c -> S] /\ DOMAIN s = 1 .. c /\ DOMAIN t = 1 .. c
      /\ \A p \in S : \E k \in 1 .. c : s[k] = p
      /\ \A p \in S : \E k \in 1 .. c : t[k] = p
  BY <1>1, OrderReachesAll
<1> DEFINE D == {k \in 1 .. c : s[k] # t[k]}
<1>3. ASSUME D # {} PROVE FALSE
  <2>1. D \in SUBSET Nat
    OBVIOUS
  <2>2. PICK k \in D : \A m \in D : k <= m
    <3> HIDE DEF D
    <3> QED BY <1>3, <2>1, Least
  <2>3. k \in 1 .. c /\ s[k] # t[k] /\ s[k] \in Nat /\ t[k] \in Nat
    BY <1>2
  <2>4. \A j \in 1 .. c : j < k => s[j] = t[j]
    BY <2>2, <2>3
  <2>5. ASSUME s[k] < t[k] PROVE FALSE
    <3>1. PICK j \in 1 .. c : t[j] = s[k]
      BY <1>2, <2>3
    <3>2. j < k \/ j = k \/ k < j
      BY <2>3
    <3>3. ASSUME j < k PROVE FALSE
      <4>1. s[j] = s[k] /\ s[j] < s[k]
        BY <1>2, <2>3, <2>4, <3>1, <3>3 DEF Ascending
      <4>2. QED
        BY <2>3, <4>1
    <3>4. ASSUME k < j PROVE FALSE
      <4>1. t[k] < s[k]
        BY <1>2, <2>3, <3>1, <3>4 DEF Ascending
      <4>2. QED
        BY <2>3, <2>5, <4>1
    <3>5. QED
      BY <2>3, <3>1, <3>2, <3>3, <3>4
  <2>6. ASSUME t[k] < s[k] PROVE FALSE
    <3>1. PICK j \in 1 .. c : s[j] = t[k]
      BY <1>2, <2>3
    <3>2. j < k \/ j = k \/ k < j
      BY <2>3
    <3>3. ASSUME j < k PROVE FALSE
      <4>1. t[j] = t[k] /\ t[j] < t[k]
        BY <1>2, <2>3, <2>4, <3>1, <3>3 DEF Ascending
      <4>2. QED
        BY <2>3, <4>1
    <3>4. ASSUME k < j PROVE FALSE
      <4>1. s[k] < t[k]
        BY <1>2, <2>3, <3>1, <3>4 DEF Ascending
      <4>2. QED
        BY <2>3, <2>6, <4>1
    <3>5. QED
      BY <2>3, <3>1, <3>2, <3>3, <3>4
  <2>7. QED
    BY <2>3, <2>5, <2>6
<1>4. \A k \in 1 .. c : s[k] = t[k]
  BY <1>3
<1>5. s = [k \in 1 .. c |-> s[k]] /\ t = [k \in 1 .. c |-> t[k]]
  BY <1>2
<1>6. QED
  BY <1>4, <1>5, Zenon

\* and which it keeps when a number moves between its neighbours.
LEMMA InOrderIs ==
  ASSUME NEW S \in SUBSET Nat, IsFiniteSet(S)
  PROVE  InOrder(S) \in [1 .. Cardinality(S) -> S] /\ Ascending(InOrder(S))
BY CanBeOrdered DEF InOrder

\* One number replaced by one between its neighbours: the rest of the order stays.
LEMMA OrderKeeps ==
  ASSUME NEW S \in SUBSET Nat, IsFiniteSet(S), NEW c \in Nat, c = Cardinality(S),
         NEW s, s = InOrder(S), NEW k \in 1 .. c, NEW p \in Nat,
         k > 1 => s[k - 1] < p, k + 1 <= c => p < s[k + 1]
  PROVE  InOrder((S \ {s[k]}) \cup {p}) = [s EXCEPT ![k] = p]
<1>1. s \in [1 .. c -> S] /\ Ascending(s) /\ DOMAIN s = 1 .. c
  BY InOrderIs
<1>2. \A j \in 1 .. c : s[j] \in Nat
  BY <1>1
<1>3. \A j \in 1 .. c : (j < k => s[j] < p) /\ (k < j => p < s[j])
  <2>1. ASSUME NEW j \in 1 .. c, j < k PROVE s[j] < p
    <3>1. k - 1 \in 1 .. c /\ k > 1 /\ (j = k - 1 \/ j < k - 1)
      BY <2>1
    <3>2. s[j] <= s[k - 1]
      <4>1. CASE j = k - 1
        BY <1>2, <4>1
      <4>2. CASE j < k - 1
        <5>1. s[j] < s[k - 1]
          BY <1>1, <3>1, <4>2 DEF Ascending
        <5>2. QED
          BY <1>2, <3>1, <5>1
      <4>3. QED
        BY <3>1, <4>1, <4>2
    <3>3. QED
      BY <1>2, <3>1, <3>2
  <2>2. ASSUME NEW j \in 1 .. c, k < j PROVE p < s[j]
    <3>1. k + 1 \in 1 .. c /\ k + 1 <= c /\ (j = k + 1 \/ k + 1 < j)
      BY <2>2
    <3>2. s[k + 1] <= s[j]
      <4>1. CASE j = k + 1
        BY <1>2, <4>1
      <4>2. CASE k + 1 < j
        <5>1. s[k + 1] < s[j]
          BY <1>1, <3>1, <4>2 DEF Ascending
        <5>2. QED
          BY <1>2, <3>1, <5>1
      <4>3. QED
        BY <3>1, <4>1, <4>2
    <3>3. QED
      BY <1>2, <3>1, <3>2
  <2>3. QED
    BY <2>1, <2>2
<1> DEFINE U == S \ {s[k]}
           T == U \cup {p}
           t == [s EXCEPT ![k] = p]
<1>4. p \notin U
  <2>1. ASSUME NEW j \in 1 .. c, s[j] = p, j # k PROVE FALSE
    <3>1. j < k \/ k < j
      BY <2>1
    <3>2. QED
      BY <1>2, <1>3, <2>1, <3>1
  <2>2. \A q \in S : \E j \in 1 .. c : s[j] = q
    BY <1>1, OrderReachesAll
  <2>3. QED
    BY <2>1, <2>2
<1>5. IsFiniteSet(T) /\ Cardinality(T) = c /\ T \in SUBSET Nat
  <2>1. s[k] \in S
    BY <1>1
  <2>2. IsFiniteSet(U) /\ Cardinality(U) = c - 1
    BY <2>1, FS_RemoveElement
  <2>3. IsFiniteSet(T) /\ Cardinality(T) = c - 1 + 1
    <3> HIDE DEF U
    <3> QED BY <1>4, <2>2, FS_AddElement
  <2>4. c - 1 + 1 = c
    OBVIOUS
  <2>5. QED
    BY <2>3, <2>4
<1>6. t \in [1 .. c -> T]
  <2>1. ASSUME NEW j \in 1 .. c PROVE t[j] \in T
    <3>1. CASE j = k
      BY <1>1, <3>1
    <3>2. CASE j # k
      <4>1. t[j] = s[j]
        BY <1>1, <3>2
      <4>2. j < k \/ k < j
        BY <3>2
      <4>3. s[j] # s[k]
        BY <1>1, <1>2, <4>2 DEF Ascending
      <4>4. s[j] \in S
        BY <1>1
      <4>5. QED
        BY <4>1, <4>3, <4>4
    <3>3. QED
      BY <3>1, <3>2
  <2>2. DOMAIN t = 1 .. c
    BY <1>1
  <2>3. t = [j \in 1 .. c |-> t[j]]
    BY <1>1
  <2> HIDE DEF t, T
  <2>4. QED
    BY <2>1, <2>3
<1>7. Ascending(t)
  <2>1. ASSUME NEW i \in 1 .. c, NEW j \in 1 .. c, i < j PROVE t[i] < t[j]
    <3>1. CASE i = k
      <4>1. t[i] = p /\ t[j] = s[j]
        BY <1>1, <2>1, <3>1
      <4>2. QED
        BY <1>3, <2>1, <3>1, <4>1
    <3>2. CASE j = k
      <4>1. t[i] = s[i] /\ t[j] = p
        BY <1>1, <2>1, <3>2
      <4>2. QED
        BY <1>3, <2>1, <3>2, <4>1
    <3>3. CASE i # k /\ j # k
      <4>1. t[i] = s[i] /\ t[j] = s[j]
        BY <1>1, <3>3
      <4>2. QED
        BY <1>1, <2>1, <4>1 DEF Ascending
    <3>4. QED
      BY <3>1, <3>2, <3>3
  <2>2. DOMAIN t = 1 .. c
    BY <1>1
  <2> HIDE DEF t
  <2>3. QED
    BY <2>1, <2>2 DEF Ascending
<1>8. t = InOrder(T)
  <2> HIDE DEF t, T
  <2>1. InOrder(T) \in [1 .. c -> T] /\ Ascending(InOrder(T))
    BY <1>5, InOrderIs
  <2>2. QED
    BY <1>5, <1>6, <1>7, <2>1, OrderIsOne
<1>9. QED
  BY <1>8

-----------------------------------------------------------------------------
(* The objects and the layers.                                             *)

TimelinePromise ==
  /\ CreatedAreNamed /\ MovedIsNamed /\ LockedLayersHold /\ SectionKeepsItsNumber
  /\ UnmarkedChangedNoLayer

\* No object stands over another.
Spread(objs) == \A o, q \in objs : o # q => Apart(o, q)

SceneStands(objs) == (\A o \in objs : IsObject(o)) /\ Spread(objs)

TimelineInv ==
  /\ Idle => SceneStands(objects) /\ layers \in [Layers -> LayerState]
  /\ TimelinePromise

\* Without an answer nothing is promised.
LEMMA NothingAnswered == ASSUME Idle PROVE TimelinePromise
BY DEF Idle, NoAnswer, TimelinePromise, CreatedAreNamed, MovedIsNamed, LockedLayersHold,
       SectionKeepsItsNumber, UnmarkedChangedNoLayer, DoneTimeline

\* No layer the user locked lost, got or changed an object, but for its name.
Shape(objs, l) == {[o EXCEPT !.name = "standard"] : o \in {q \in objs : q.layer = l}}

\* What it takes for a request on the objects to end as promised.
LEMMA AnswersAsPromised ==
  ASSUME NEW objs, NEW kind, NEW result, NEW about, NEW wanted,
         Answers(objs, kind, result, about, wanted), kind # "none",
         kind = "create" /\ result = "done" =>
           about = {Place(o) : o \in objs \ objects} /\ objects \subseteq objs,
         kind = "move" /\ result = "done" =>
           \E o \in objs : /\ about = {Place(o)} /\ objs = (objects \ {read}) \cup {o}
                           /\ o.points = read.points /\ o.name = read.name,
         \A l \in Layers : kind # "any" /\ layers[l].locked =>
           /\ Shape(objects, l) \subseteq Shape(objs, l)
           /\ Shape(objs, l) # Shape(objects, l) => kind = "create" /\ l \notin wanted,
         kind = "shift" /\ result = "done" /\ objs # objects =>
           \E o \in objs \ (objects \ {read}), a \in about :
             SectionStarts(o) = [SectionStarts(read) EXCEPT ![a[1] + 1] = a[2]]
  PROVE  TimelineInv'
<1>1. /\ objects' = objs /\ former' = objects /\ formerLayers' = layers /\ layers' = layers
      /\ read' = read
      /\ answer' = [kind |-> kind, result |-> result, about |-> about, wanted |-> wanted]
  BY DEF Answers
<1>2. ~Idle'
  BY <1>1 DEF Idle, NoAnswer
<1>3. CreatedAreNamed'
  BY <1>1 DEF CreatedAreNamed, DoneTimeline
<1>4. MovedIsNamed'
  BY <1>1 DEF MovedIsNamed, DoneTimeline
<1>5. LockedLayersHold'
  <2>1. ASSUME NEW l \in Layers, kind \notin {"none", "any"}, layers[l].locked
        PROVE  /\ Shape(objects, l) \subseteq Shape(objs, l)
               /\ Shape(objs, l) # Shape(objects, l) => kind = "create" /\ l \notin wanted
    BY <2>1
  <2>2. QED
    BY <1>1, <2>1 DEF LockedLayersHold, Shape
<1>6. SectionKeepsItsNumber'
  <2>1. SectionStarts(read)' = SectionStarts(read) /\ \A o : SectionStarts(o)' = SectionStarts(o)
    BY <1>1 DEF SectionStarts
  <2>2. answer'.kind = kind /\ answer'.result = result /\ answer'.about = about
    BY <1>1
  <2>3. CASE ~(kind = "shift" /\ result = "done" /\ objs # objects)
    BY <1>1, <2>2, <2>3 DEF SectionKeepsItsNumber, DoneTimeline
  <2>4. CASE kind = "shift" /\ result = "done" /\ objs # objects
    <3>1. PICK o \in objs \ (objects \ {read}), a \in about :
            SectionStarts(o) = [SectionStarts(read) EXCEPT ![a[1] + 1] = a[2]]
      BY <2>4
    <3>2. /\ o \in objects' \ (former' \ {read'}) /\ a \in answer'.about
          /\ SectionStarts(o)' = [SectionStarts(read)' EXCEPT ![a[1] + 1] = a[2]]
      BY <1>1, <2>1, <2>2, <3>1
    <3>3. QED
      BY <3>2 DEF SectionKeepsItsNumber
  <2>5. QED
    BY <2>3, <2>4
<1>7. UnmarkedChangedNoLayer'
  BY <1>1 DEF UnmarkedChangedNoLayer
<1>8. QED
  BY <1>2, <1>3, <1>4, <1>5, <1>6, <1>7 DEF TimelineInv, TimelinePromise

\* An end that names nothing: only the locked layers are to be looked at.
LEMMA AnswersUntold ==
  ASSUME NEW objs, NEW kind, NEW result, NEW about, NEW wanted,
         Answers(objs, kind, result, about, wanted), kind # "none",
         result # "done" \/ kind \notin {"create", "move", "shift"},
         \A l \in Layers : kind # "any" /\ layers[l].locked =>
           /\ Shape(objects, l) \subseteq Shape(objs, l)
           /\ Shape(objs, l) # Shape(objects, l) => kind = "create" /\ l \notin wanted
  PROVE  TimelineInv'
BY AnswersAsPromised

\* A failure after which the scene may be any of some.
LEMMA MayHaveChangedEnds ==
  ASSUME NEW scenes, NEW kind, NEW wanted, MayHaveChanged(scenes, kind, wanted), kind # "none",
         \A l \in Layers, objs \in scenes : layers[l].locked =>
           /\ Shape(objects, l) \subseteq Shape(objs, l)
           /\ Shape(objs, l) # Shape(objects, l) => kind = "create" /\ l \notin wanted
  PROVE  TimelineInv'
<1>1. PICK objs \in scenes \cup {objects} : Answers(objs, kind, "failed", {}, wanted)
  BY DEF MayHaveChanged
<1>2. \A l \in Layers : layers[l].locked =>
        /\ Shape(objects, l) \subseteq Shape(objs, l)
        /\ Shape(objs, l) # Shape(objects, l) => kind = "create" /\ l \notin wanted
  BY <1>1
<1>3. QED
  BY <1>1, <1>2, AnswersUntold

\* A name is not part of the shape of a layer.
LEMMA RenamedShape ==
  ASSUME NEW was, NEW o \in was, IsObject(o), NEW name, NEW l
  PROVE  Shape((was \ {o}) \cup {[o EXCEPT !.name = name]}, l) = Shape(was, l)
<1>1. PICK n : n = [o EXCEPT !.name = name]
  OBVIOUS
<1>2. n.layer = o.layer /\ [n EXCEPT !.name = "standard"] = [o EXCEPT !.name = "standard"]
  BY <1>1 DEF IsObject
<1>3. QED
  BY <1>1, <1>2 DEF Shape

\* No two objects stand in one place.
LEMMA PlacesTellApart ==
  ASSUME NEW o, NEW q, IsObject(q), Place(o) = Place(q), Apart(o, q)
  PROVE  FALSE
<1>1. o.layer = q.layer /\ o.start = q.start
  BY DEF Place
<1>2. q.start \in Nat /\ q.length \in Nat \ {0}
  BY DEF IsObject
<1>3. Covers(q, o.layer, o.start)
  BY <1>1, <1>2 DEF Covers
<1>4. QED
  BY <1>3 DEF Apart

-----------------------------------------------------------------------------
\* The top layer of the scan: no object stands above it.
LEMMA TopLayerIs ==
  ASSUME NEW objs, \A o \in objs : o.layer \in Layers, NEW floor \in Layers
  PROVE  TopLayer(objs, floor) \in Layers /\ \A o \in objs : o.layer <= TopLayer(objs, floor)
<1> DEFINE L == {floor} \cup {o.layer : o \in objs}
<1>1. L \in SUBSET Layers /\ L \in SUBSET Nat /\ L # {}
  BY TimelineAssumption
<1>2. IsFiniteSet(L)
  BY <1>1, TimelineAssumption, FS_Subset
<1>3. PICK l \in L : \A k \in L : k <= l
  <2> HIDE DEF L
  <2> QED BY <1>1, <1>2, Greatest
<1>4. PICK t : t = TopLayer(objs, floor)
  OBVIOUS
<1>5. t = CHOOSE m \in Layers : m \in L /\ \A k \in L : k <= m
  BY <1>4 DEF TopLayer
<1>6. t \in Layers /\ \A k \in L : k <= t
  <2> HIDE DEF L
  <2> QED BY <1>1, <1>3, <1>5
<1>7. QED
  BY <1>4, <1>6

\* The places found up to the top that grew, less those found before, are those of the
\* new objects.
LEMMA CreatedIs ==
  ASSUME SceneStands(objects), NEW layer \in Layers, NEW new,
         \A n \in new : n.layer \in Layers /\ HasRoom(n, objects),
         NEW objs, objs = objects \cup new
  PROVE  Created(objects, objs, layer) = {Place(o) : o \in objs \ objects}
<1>1. \A o \in objs : o.layer \in Layers
  BY DEF SceneStands, IsObject
<1>2. TopLayer(objects, layer) \in Layers
  BY TopLayerIs DEF SceneStands, IsObject
<1>3. \A o \in objs : o.layer <= GrownTop(objects, objs, layer)
  BY <1>1, <1>2, TopLayerIs DEF GrownTop
<1>4. {q \in objs : q.layer <= GrownTop(objects, objs, layer)} = objs
  BY <1>3
<1>5. Created(objects, objs, layer) = {Place(o) : o \in objs} \ {Place(o) : o \in objects}
  BY <1>4 DEF Created
<1>6. ASSUME NEW n \in new, NEW o \in objects PROVE Place(n) # Place(o)
  BY PlacesTellApart DEF SceneStands, HasRoom
<1>7. QED
  BY <1>5, <1>6

\* What a creation brings into the scene: only objects that have room there.
Brought(objs, new) ==
  objs = objects \cup new /\ \A n \in new : n.layer \in Layers /\ HasRoom(n, objects)

\* Every scene a creation makes is such a one.
LEMMA CreatedScenesGive ==
  ASSUME NEW places \in Seq(Nat \X Nat), places # <<>>,
         \A k \in DOMAIN places : places[k][1] \in Layers,
         NEW objs \in CreatedScenes(places)
  PROVE  \E new : Brought(objs, new)
<1>1. DOMAIN places = 1 .. Len(places) /\ Len(places) \in Nat /\ Len(places) # 0
  BY LenProperties, EmptySeq
<1>2. ASSUME NEW k \in 1 .. Len(places), NEW os, NEW o \in Fitting(places[k], os)
      PROVE  o.layer \in Layers /\ HasRoom(o, os)
  BY <1>1 DEF Fitting, NewObjects
<1>3. 1 \in 1 .. Len(places) /\ \A k \in 2 .. Len(places) : k \in 1 .. Len(places)
  BY <1>1
<1>4. \/ objs = objects
      \/ \E o \in Fitting(places[1], objects) : objs = objects \cup {o}
      \/ \E o \in Fitting(places[1], objects), k \in 2 .. Len(places) :
           \E q \in Fitting(places[k], objects \cup {o}) : objs = objects \cup {o, q}
  <2> DEFINE Further(o) == UNION {Fitting(places[k], objects \cup {o}) : k \in 2 .. Len(places)}
             Pairs(o) == {objects \cup {o, q} : q \in Further(o)}
  <2>1. objs \in {objects} \cup {objects \cup {o} : o \in Fitting(places[1], objects)}
                \cup UNION {Pairs(o) : o \in Fitting(places[1], objects)}
    BY DEF CreatedScenes
  <2>2. ASSUME NEW o, objs \in Pairs(o)
        PROVE  \E k \in 2 .. Len(places) :
                 \E q \in Fitting(places[k], objects \cup {o}) : objs = objects \cup {o, q}
    <3>1. PICK q \in Further(o) : objs = objects \cup {o, q}
      BY <2>2
    <3>2. PICK k \in 2 .. Len(places) : q \in Fitting(places[k], objects \cup {o})
      OBVIOUS
    <3>3. QED
      BY <3>1, <3>2
  <2> HIDE DEF Pairs
  <2>3. objs = objects \/ (\E o \in Fitting(places[1], objects) : objs = objects \cup {o})
          \/ \E o \in Fitting(places[1], objects) : objs \in Pairs(o)
    BY <2>1
  <2>4. QED
    BY <2>2, <2>3
<1>5. CASE objs = objects
  <2>1. Brought(objs, {})
    BY <1>5 DEF Brought
  <2>2. QED
    BY <2>1
<1>6. ASSUME NEW o \in Fitting(places[1], objects), objs = objects \cup {o}
      PROVE  Brought(objs, {o})
  BY <1>2, <1>3, <1>6 DEF Brought
<1>7. ASSUME NEW o \in Fitting(places[1], objects), NEW k \in 2 .. Len(places),
             NEW q \in Fitting(places[k], objects \cup {o}), objs = objects \cup {o, q}
      PROVE  Brought(objs, {o, q})
  <2>1. HasRoom(q, objects \cup {o}) /\ q.layer \in Layers
    BY <1>2, <1>3
  <2>2. HasRoom(q, objects)
    BY <2>1 DEF HasRoom
  <2>3. QED
    BY <1>2, <1>3, <1>7, <2>1, <2>2 DEF Brought
<1>8. QED
  BY <1>4, <1>5, <1>6, <1>7

\* The requests, each from its call to its answer.
LEMMA CreateEnds ==
  ASSUME TimelineInv, CreateObject
  PROVE  TimelineInv'
<1>1. PICK alias, layer, frame, places :
        /\ alias \in Aliases /\ layer \in Layers /\ frame \in Frames /\ Unlocked(layer)
        /\ places = Requested(alias, layer, frame)
        /\ \A k \in DOMAIN places : places[k][1] \in Layers
        /\ \/ MayHaveChanged(CreatedScenes(places), "create", {layer})
           \/ \E objs \in CreatedScenes(places), result \in {"failed", "done"} :
                Answers(objs, "create", result, Created(objects, objs, layer), {layer})
  BY ZenonT(150) DEF CreateObject, CreationUnlocked
<1>2. SceneStands(objects)
  BY DEF TimelineInv, CreateObject
<1>3. places \in Seq(Nat \X Nat) /\ places # <<>>
  <2>1. alias \in Seq(Nat \X Nat) /\ Len(alias) \in Nat /\ DOMAIN alias = 1 .. Len(alias)
        /\ Len(alias) # 0
    <3>1. alias \in Seq(Nat \X Nat) /\ alias # <<>>
      BY <1>1, TimelineAssumption
    <3>2. QED
      BY <3>1, LenProperties, EmptySeq
  <2>2. layer \in Nat /\ frame \in Nat
    BY <1>1, TimelineAssumption
  <2>3. places \in [1 .. Len(alias) -> Nat \X Nat]
    BY <1>1, <2>1, <2>2 DEF Requested
  <2>4. places \in Seq(Nat \X Nat)
    BY <2>1, <2>3, SeqDef
  <2>5. Len(places) = Len(alias)
    BY <2>1, <2>3, <2>4, LenProperties
  <2>6. QED
    BY <2>1, <2>4, <2>5, EmptySeq
<1>4. ASSUME NEW objs \in CreatedScenes(places)
      PROVE  /\ objects \subseteq objs
             /\ \A l \in Layers : Shape(objects, l) \subseteq Shape(objs, l)
             /\ Created(objects, objs, layer) = {Place(o) : o \in objs \ objects}
  <2>1. PICK new : Brought(objs, new)
    BY <1>1, <1>3, CreatedScenesGive
  <2>2. Created(objects, objs, layer) = {Place(o) : o \in objs \ objects}
    BY <1>1, <1>2, <2>1, CreatedIs DEF Brought
  <2>3. QED
    BY <2>1, <2>2 DEF Shape, Brought
<1>5. \A l \in Layers : layers[l].locked => l \notin {layer}
  BY <1>1 DEF Unlocked
<1>6. CASE MayHaveChanged(CreatedScenes(places), "create", {layer})
  BY <1>4, <1>5, <1>6, MayHaveChangedEnds
<1>7. ASSUME NEW objs \in CreatedScenes(places), NEW result \in {"failed", "done"},
             Answers(objs, "create", result, Created(objects, objs, layer), {layer})
      PROVE  TimelineInv'
  <2>1. PICK about : about = {Place(o) : o \in objs \ objects}
    OBVIOUS
  <2>2. Answers(objs, "create", result, about, {layer})
    BY <1>4, <1>7, <2>1
  <2>3. QED
    BY <1>4, <1>5, <2>1, <2>2, AnswersAsPromised
<1>8. QED
  BY <1>1, <1>6, <1>7

LEMMA RefusedEnds ==
  ASSUME TimelineRefused
  PROVE  TimelineInv'
BY AnswersUntold DEF TimelineRefused

\* A move that changed the scene put the object somewhere on the layer.
LEMMA MovedScenesAre ==
  ASSUME NEW layer, NEW objs \in MovedScenes(layer), objs # objects
  PROVE  \E o \in Displaced(layer) :
           HasRoom(o, objects \ {read}) /\ objs = (objects \ {read}) \cup {o}
BY DEF MovedScenes

LEMMA MoveObjectEnds ==
  ASSUME TimelineInv, MoveObject
  PROVE  TimelineInv'
<1>1. PICK layer \in Layers, frame \in Frames :
        /\ BothUnlocked(read.layer, layer)
        /\ \/ MayHaveChanged(MovedScenes(layer), "move", {})
           \/ \E objs \in MovedScenes(layer) :
                Answers(objs, "move", "done", PlaceReadAgain(objs, layer, frame), {})
  BY DEF MoveObject
<1>2. SceneStands(objects) /\ read \in objects /\ IsObject(read)
  BY DEF TimelineInv, MoveObject, Resolved, SceneStands
<1>3. ASSUME NEW objs \in MovedScenes(layer)
      PROVE  /\ \A l \in Layers : layers[l].locked => Shape(objs, l) = Shape(objects, l)
             /\ \E o \in objs : /\ PlaceReadAgain(objs, layer, frame) = {Place(o)}
                                /\ objs = (objects \ {read}) \cup {o}
                                /\ o.points = read.points /\ o.name = read.name
  <2>1. CASE objs = objects
    <3>1. objects = (objects \ {read}) \cup {read}
      BY <1>2
    <3>2. PlaceReadAgain(objs, layer, frame) = {Place(read)}
      BY <2>1 DEF PlaceReadAgain
    <3>3. QED
      BY <1>2, <2>1, <3>1, <3>2
  <2>2. ASSUME objs # objects, NEW o \in Displaced(layer),
               HasRoom(o, objects \ {read}), objs = (objects \ {read}) \cup {o}
        PROVE  /\ \A l \in Layers : layers[l].locked => Shape(objs, l) = Shape(objects, l)
               /\ \E p \in objs : /\ PlaceReadAgain(objs, layer, frame) = {Place(p)}
                                  /\ objs = (objects \ {read}) \cup {p}
                                  /\ p.points = read.points /\ p.name = read.name
    <3>1. /\ o.layer = layer /\ o.length = read.length
          /\ o.points = read.points /\ o.name = read.name
      <4>1. PICK f \in Frames : o = [read EXCEPT !.layer = layer, !.start = f]
        BY <2>2 DEF Displaced
      <4>2. QED
        BY <1>2, <4>1 DEF IsObject
    <3>2. ASSUME NEW l \in Layers, layers[l].locked PROVE Shape(objs, l) = Shape(objects, l)
      <4>1. read.layer # l /\ o.layer # l
        BY <1>1, <3>1, <3>2 DEF BothUnlocked, Unlocked
      <4>2. QED
        BY <1>2, <2>2, <4>1 DEF Shape
    <3>3. o \notin objects \ {read}
      <4>1. ASSUME o \in objects \ {read} PROVE FALSE
        <5>1. IsObject(o) /\ Apart(o, o)
          BY <1>2, <2>2, <4>1 DEF SceneStands, HasRoom
        <5>2. QED
          BY <5>1, PlacesTellApart
      <4>2. QED
        BY <4>1
    <3>4. o # read
      BY <1>2, <2>2
    <3>5. objs \ objects = {o}
      BY <2>2, <3>3, <3>4
    <3>6. PlaceReadAgain(objs, layer, frame) = {Place(o)}
      <4>1. {Place(p) : p \in {o}} = {Place(o)}
        OBVIOUS
      <4>2. QED
        BY <2>2, <3>5, <4>1 DEF PlaceReadAgain
    <3>7. QED
      BY <2>2, <3>1, <3>2, <3>6
  <2>3. CASE objs # objects
    <3>1. PICK o \in Displaced(layer) :
            HasRoom(o, objects \ {read}) /\ objs = (objects \ {read}) \cup {o}
      BY <2>3, MovedScenesAre
    <3>2. QED
      BY <2>2, <2>3, <3>1
  <2>4. QED
    BY <2>1, <2>3
<1>4. CASE MayHaveChanged(MovedScenes(layer), "move", {})
  BY <1>3, <1>4, MayHaveChangedEnds
<1>5. ASSUME NEW objs \in MovedScenes(layer),
             Answers(objs, "move", "done", PlaceReadAgain(objs, layer, frame), {})
      PROVE  TimelineInv'
  BY <1>3, <1>5, AnswersAsPromised
<1>6. QED
  BY <1>1, <1>4, <1>5

LEMMA DeleteObjectEnds ==
  ASSUME TimelineInv, DeleteObject
  PROVE  TimelineInv'
<1>1. read \in objects /\ Unlocked(read.layer)
  BY DEF DeleteObject, Resolved
<1>2. PICK objs : objs = objects \ {read}
  OBVIOUS
<1>3. \A l \in Layers : layers[l].locked => Shape(objs, l) = Shape(objects, l)
  BY <1>1, <1>2 DEF Unlocked, Shape
<1>4. CASE MayHaveChanged({objs}, "delete", {})
  BY <1>3, <1>4, MayHaveChangedEnds
<1>5. CASE Answers(objs, "delete", "done", {}, {})
  BY <1>3, <1>5, AnswersUntold
<1>6. QED
  BY <1>2, <1>4, <1>5 DEF DeleteObject

LEMMA NameEnds ==
  ASSUME TimelineInv, SetObjectName
  PROVE  TimelineInv'
<1>1. read \in objects /\ IsObject(read)
  BY DEF TimelineInv, SetObjectName, Resolved, SceneStands
<1>2. PICK name, objs :
        /\ name \in ObjectNames
        /\ objs = (objects \ {read}) \cup {[read EXCEPT !.name = name]}
        /\ MayHaveChanged({objs}, "name", {}) \/ Answers(objs, "name", "done", {Place(read)}, {})
  BY DEF SetObjectName
<1>3. \A l \in Layers : Shape(objs, l) = Shape(objects, l)
  <2>1. PICK was, o : was = objects /\ o = read
    OBVIOUS
  <2>2. o \in was /\ IsObject(o) /\ objs = (was \ {o}) \cup {[o EXCEPT !.name = name]}
    BY <1>1, <1>2, <2>1
  <2>3. \A l \in Layers : Shape(objs, l) = Shape(was, l)
    BY <2>2, RenamedShape
  <2>4. QED
    BY <2>1, <2>3
<1>4. CASE MayHaveChanged({objs}, "name", {})
  BY <1>3, <1>4, MayHaveChangedEnds
<1>5. CASE Answers(objs, "name", "done", {Place(read)}, {})
  BY <1>3, <1>5, AnswersUntold
<1>6. QED
  BY <1>2, <1>4, <1>5

-----------------------------------------------------------------------------
(* Sections                                                                *)

Divided(points) == (objects \ {read}) \cup {[read EXCEPT !.points = points]}

\* The sections of an object of an unlocked layer: the locked ones are as before.
LEMMA DividedShape ==
  ASSUME IsObject(read), read \in objects, Unlocked(read.layer), NEW points,
         NEW l \in Layers, layers[l].locked
  PROVE  Shape(Divided(points), l) = Shape(objects, l)
<1>1. PICK n : n = [read EXCEPT !.points = points]
  OBVIOUS
<1>2. n.layer = read.layer /\ read.layer # l
  BY <1>1 DEF IsObject, Unlocked
<1>3. Divided(points) = (objects \ {read}) \cup {n}
  BY <1>1 DEF Divided
<1>4. QED
  BY <1>2, <1>3 DEF Shape

LEMMA ChangeEnds ==
  ASSUME TimelineInv, Idle, Resolved, Unlocked(read.layer), NEW points, NEW kind, NEW about,
         ChangeSections(points, kind, about), kind \in {"divide", "join", "shift"},
         kind = "shift" =>
           \E a \in about : SectionStarts([read EXCEPT !.points = points])
                              = [SectionStarts(read) EXCEPT ![a[1] + 1] = a[2]]
  PROVE  TimelineInv'
<1>1. SceneStands(objects) /\ read \in objects /\ IsObject(read)
  BY DEF TimelineInv, Resolved, SceneStands
<1>2. \A l \in Layers : layers[l].locked => Shape(Divided(points), l) = Shape(objects, l)
  BY <1>1, DividedShape
<1>3. \/ MayHaveChanged({Divided(points)}, kind, {})
      \/ \E objs \in {Divided(points), objects} : Answers(objs, kind, "done", about, {})
  BY DEF ChangeSections, Divided
<1>4. kind # "none" /\ kind # "any" /\ kind # "create" /\ kind # "move"
  OBVIOUS
<1>5. CASE MayHaveChanged({Divided(points)}, kind, {})
  BY <1>2, <1>4, <1>5, MayHaveChangedEnds
<1>6. ASSUME NEW objs \in {Divided(points), objects}, Answers(objs, kind, "done", about, {})
      PROVE  TimelineInv'
  <2>1. \A l \in Layers : layers[l].locked => Shape(objs, l) = Shape(objects, l)
    BY <1>2
  <2>2. ASSUME kind = "shift", objs # objects
        PROVE  \E o \in objs \ (objects \ {read}), a \in about :
                 SectionStarts(o) = [SectionStarts(read) EXCEPT ![a[1] + 1] = a[2]]
    <3>1. PICK o : o = [read EXCEPT !.points = points]
      OBVIOUS
    <3>2. o \in objs
      BY <2>2, <3>1 DEF Divided
    <3>3. o.layer = read.layer /\ o.start = read.start
      BY <1>1, <3>1 DEF IsObject
    <3>4. o \notin objects \ {read}
      <4>1. ASSUME o \in objects \ {read} PROVE FALSE
        <5>1. Apart(o, read) /\ Place(o) = Place(read)
          BY <1>1, <3>3, <4>1 DEF SceneStands, Spread, Place
        <5>2. QED
          BY <1>1, <5>1, PlacesTellApart
      <4>2. QED
        BY <4>1
    <3>5. PICK a \in about : SectionStarts(o) = [SectionStarts(read) EXCEPT ![a[1] + 1] = a[2]]
      BY <2>2, <3>1
    <3>6. QED
      BY <3>2, <3>4, <3>5
  <2>3. QED
    BY <1>4, <1>6, <2>1, <2>2, AnswersAsPromised
<1>7. QED
  BY <1>3, <1>5, <1>6

\* A section start put elsewhere between its neighbours replaces one start of the order.
LEMMA ShiftedStarts ==
  ASSUME NEW o, IsObject(o), NEW section \in Nat, NEW offset \in Nat,
         SectionExists(o, section), StaysBetweenNeighbours(o, section, offset),
         NEW points, points = (o.points \ {SectionStarts(o)[section + 1]}) \cup {offset}
  PROVE  SectionStarts([o EXCEPT !.points = points])
           = [SectionStarts(o) EXCEPT ![section + 1] = offset]
<1>1. PICK S : S = {0} \cup o.points
  OBVIOUS
<1>2. /\ o.points \in SUBSET Nat /\ 0 \notin o.points /\ IsFiniteSet(o.points)
      /\ o.points \subseteq 1 .. o.length - 1
  <2>1. o.length \in Nat /\ o.points \in SUBSET (1 .. o.length - 1)
    BY DEF IsObject
  <2>2. IsFiniteSet(1 .. o.length - 1)
    <3>1. 1 \in Int /\ o.length - 1 \in Int
      BY <2>1
    <3>2. QED
      BY <3>1, FS_Interval, Zenon
  <2>3. QED
    BY <2>1, <2>2, FS_Subset
<1>3. PICK n \in Nat : n = Cardinality(o.points)
  BY <1>2, FS_CardinalityType
<1>4. S \in SUBSET Nat /\ IsFiniteSet(S) /\ Cardinality(S) = n + 1
  <2>1. S = o.points \cup {0}
    BY <1>1
  <2>2. QED
    BY <1>2, <1>3, <2>1, FS_AddElement
<1>5. PICK s : s = SectionStarts(o) /\ s = InOrder(S)
  BY <1>1 DEF SectionStarts
<1>6. s \in [1 .. n + 1 -> S] /\ Ascending(s) /\ DOMAIN s = 1 .. n + 1
  BY <1>4, <1>5, InOrderIs
<1>7. Len(s) = n + 1
  <2>1. s \in Seq(S)
    BY <1>6, SeqDef
  <2>2. Len(s) \in Nat /\ DOMAIN s = 1 .. Len(s)
    BY <2>1, LenProperties
  <2>3. QED
    BY <1>6, <2>2
<1>8. section \in 1 .. n
  BY <1>3 DEF SectionExists
<1>9. PICK k \in 1 .. n + 1 : k = section + 1 /\ k - 1 = section /\ k + 1 = section + 2 /\ k > 1
  BY <1>8
<1>10. s[k - 1] < offset /\ (k + 1 <= n + 1 => offset < s[k + 1])
  BY <1>5, <1>7, <1>9 DEF StaysBetweenNeighbours
<1>11. InOrder((S \ {s[k]}) \cup {offset}) = [s EXCEPT ![k] = offset]
  BY <1>4, <1>5, <1>10, OrderKeeps
<1>12. s[k] # 0
  <2>1. k - 1 \in 1 .. n + 1 /\ k - 1 < k
    BY <1>8, <1>9
  <2>2. s[k - 1] < s[k]
    BY <1>6, <2>1 DEF Ascending
  <2>3. s[k - 1] \in Nat
    BY <1>4, <1>6, <2>1
  <2>4. QED
    BY <2>2, <2>3
<1>13. {0} \cup points = (S \ {s[k]}) \cup {offset}
  BY <1>1, <1>5, <1>9, <1>12
<1>14. [o EXCEPT !.points = points].points = points
  BY DEF IsObject
<1>15. SectionStarts([o EXCEPT !.points = points]) = InOrder({0} \cup points)
  BY <1>14 DEF SectionStarts
<1>16. QED
  BY <1>5, <1>9, <1>11, <1>13, <1>15

LEMMA DivideEnds ==
  ASSUME TimelineInv, CreateObjectSection \/ DeleteObjectSection
  PROVE  TimelineInv'
<1>1. Idle /\ Resolved /\ Unlocked(read.layer)
  BY DEF CreateObjectSection, DeleteObjectSection
<1>2. \E points, about : ChangeSections(points, "divide", about) \/ ChangeSections(points, "join", about)
  BY DEF CreateObjectSection, DeleteObjectSection
<1>3. QED
  BY <1>1, <1>2, ChangeEnds

LEMMA ShiftEnds ==
  ASSUME TimelineInv, MoveObjectSection
  PROVE  TimelineInv'
<1>1. Idle /\ Resolved /\ Unlocked(read.layer)
  BY DEF MoveObjectSection
<1>2. IsObject(read)
  BY <1>1 DEF TimelineInv, SceneStands, Resolved
<1>3. PICK section, offset, points, o :
        /\ section \in 1 .. read.length /\ offset \in 0 .. read.length
        /\ o = read
        /\ SectionExists(o, section) /\ StaysBetweenNeighbours(o, section, offset)
        /\ points = (o.points \ {SectionStarts(o)[section + 1]}) \cup {offset}
        /\ ChangeSections(points, "shift", {<<section, offset>>})
  BY DEF MoveObjectSection
<1>4. section \in Nat /\ offset \in Nat
  BY <1>2, <1>3 DEF IsObject
<1>5. SectionStarts([o EXCEPT !.points = points])
        = [SectionStarts(o) EXCEPT ![section + 1] = offset]
  BY <1>2, <1>3, <1>4, ShiftedStarts
<1>6. PICK a : a = <<section, offset>>
  OBVIOUS
<1>7. SectionStarts([read EXCEPT !.points = points])
        = [SectionStarts(read) EXCEPT ![a[1] + 1] = a[2]]
  BY <1>3, <1>5, <1>6
<1>8. QED
  BY <1>1, <1>3, <1>6, <1>7, ChangeEnds

-----------------------------------------------------------------------------
(* The state of a layer.                                                   *)

\* An answer about the state of a layer.
LEMMA AnswersLayerEnds ==
  ASSUME layers \in [Layers -> LayerState], NEW l \in Layers, NEW state, NEW result, NEW wanted,
         NEW goal, AnswersLayer(l, state, result, wanted, goal), result = "refused" => state = layers[l]
  PROVE  TimelineInv'
<1>1. /\ layers' = [layers EXCEPT ![l] = state] /\ formerLayers' = layers /\ former' = objects
      /\ objects' = objects /\ answer'.kind = "layer" /\ answer'.result = result
  BY DEF AnswersLayer
<1>2. ~Idle'
  BY <1>1 DEF Idle, NoAnswer
<1>3. CreatedAreNamed' /\ MovedIsNamed' /\ SectionKeepsItsNumber'
  BY <1>1 DEF CreatedAreNamed, MovedIsNamed, SectionKeepsItsNumber, DoneTimeline
<1>4. LockedLayersHold'
  BY <1>1 DEF LockedLayersHold
<1>5. UnmarkedChangedNoLayer'
  <2>1. ASSUME result = "refused" PROVE layers' = layers
    <3>1. layers' = [layers EXCEPT ![l] = layers[l]]
      BY <1>1, <2>1
    <3>2. QED
      BY <3>1
  <2>2. QED
    BY <1>1, <2>1 DEF UnmarkedChangedNoLayer
<1>6. QED
  BY <1>2, <1>3, <1>4, <1>5 DEF TimelineInv, TimelinePromise

\* A layer of which the host heeded nothing is as it was.
LEMMA NothingHeeded ==
  ASSUME NEW state \in LayerState, NEW goal, NEW heeded, heeded \cap DOMAIN state = {}
  PROVE  After(state, goal, heeded) = state
<1>1. After(state, goal, heeded) = [x \in DOMAIN state |-> state[x]]
  BY DEF After
<1>2. QED
  BY <1>1 DEF LayerState

\* A failure without the mark: none of what was asked had been issued.
LEMMA UnmarkedHeededNothing ==
  ASSUME NEW wanted, NEW heeded, heeded \subseteq wanted, NEW n \in Nat,
         heeded \subseteq {Axes[k] : k \in 1 .. n - 1}, MarkOfFailure(wanted, n) = "refused"
  PROVE  heeded = {}
<1>1. \A k \in 1 .. n - 1 : Axes[k] \notin wanted
  BY DEF MarkOfFailure
<1>2. \A x \in heeded : \E k \in 1 .. n - 1 : x = Axes[k]
  OBVIOUS
<1>3. QED
  BY <1>1, <1>2

LEMMA LayerEnds ==
  ASSUME TimelineInv, SetLayerState
  PROVE  TimelineInv'
<1>1. layers \in [Layers -> LayerState]
  BY DEF TimelineInv, SetLayerState
<1>2. PICK l \in LayersAsked, wanted \in SUBSET {"name", "enabled", "locked"}, goal \in LayerState :
        \E heeded \in SUBSET wanted :
          LET state == After(layers[l], goal, heeded) IN
          \/ AnswersLayer(l, state,
               IF \A x \in wanted : state[x] = goal[x] THEN "done" ELSE "failed", wanted, goal)
          \/ AnswersLayer(l, state, MarkOfFailure(wanted, 4), wanted, goal)
          \/ \E n \in 1 .. 3 :
               /\ Axes[n] \in wanted /\ heeded \subseteq {Axes[k] : k \in 1 .. n}
               /\ AnswersLayer(l, state, "failed", wanted, goal)
          \/ \E n \in 1 .. 3 :
               /\ Axes[n] \in wanted /\ heeded \subseteq {Axes[k] : k \in 1 .. n - 1}
               /\ AnswersLayer(l, state, MarkOfFailure(wanted, n), wanted, goal)
  BY DEF SetLayerState
<1>3. PICK heeded, state :
        /\ heeded \in SUBSET wanted
        /\ state = After(layers[l], goal, heeded)
        /\ \/ AnswersLayer(l, state, "done", wanted, goal)
           \/ AnswersLayer(l, state, "failed", wanted, goal)
           \/ AnswersLayer(l, state, MarkOfFailure(wanted, 4), wanted, goal)
           \/ \E n \in 1 .. 3 :
                /\ heeded \subseteq {Axes[k] : k \in 1 .. n - 1}
                /\ AnswersLayer(l, state, MarkOfFailure(wanted, n), wanted, goal)
  BY <1>2
<1>4. l \in Layers /\ layers[l] \in LayerState
  BY <1>1, TimelineAssumption
<1>5. heeded = {} => state = layers[l]
  <2>1. ASSUME heeded = {} PROVE heeded \cap DOMAIN layers[l] = {}
    BY <2>1
  <2>2. QED
    BY <1>3, <1>4, <2>1, NothingHeeded
<1>6. ASSUME NEW result, AnswersLayer(l, state, result, wanted, goal),
             result = "refused" => heeded = {}
      PROVE  TimelineInv'
  BY <1>1, <1>4, <1>5, <1>6, AnswersLayerEnds
<1>7. MarkOfFailure(wanted, 4) = "refused" => heeded = {}
  <2>1. Axes[1] = "name" /\ Axes[2] = "enabled" /\ Axes[3] = "locked"
    BY DEF Axes
  <2>2. 1 \in 1 .. 4 - 1 /\ 2 \in 1 .. 4 - 1 /\ 3 \in 1 .. 4 - 1
    OBVIOUS
  <2>3. heeded \subseteq wanted /\ \A x \in heeded : x = "name" \/ x = "enabled" \/ x = "locked"
    BY <1>3
  <2>4. heeded \subseteq {Axes[k] : k \in 1 .. 4 - 1}
    BY <2>1, <2>2, <2>3
  <2>5. QED
    BY <2>3, <2>4, UnmarkedHeededNothing
<1>8. ASSUME NEW n \in 1 .. 3, heeded \subseteq {Axes[k] : k \in 1 .. n - 1}
      PROVE  MarkOfFailure(wanted, n) = "refused" => heeded = {}
  <2>1. n \in Nat /\ heeded \subseteq wanted
    BY <1>3
  <2>2. QED
    BY <1>8, <2>1, UnmarkedHeededNothing
<1>9. QED
  BY <1>3, <1>6, <1>7, <1>8

-----------------------------------------------------------------------------
\* The user's edits: the objects still exclude each other.
LEMMA ReplacedStands ==
  ASSUME NEW was, SceneStands(was), NEW o \in was, NEW q, IsObject(q), HasRoom(q, was \ {o})
  PROVE  SceneStands((was \ {o}) \cup {q})
BY DEF SceneStands, Spread, HasRoom, Apart

LEMMA EditedIsObject ==
  ASSUME NEW o, IsObject(o), NEW q \in Edited(o)
  PROVE  IsObject(q)
<1>1. ASSUME NEW l \in Layers, NEW f \in Frames, q = [o EXCEPT !.layer = l, !.start = f]
      PROVE  IsObject(q)
  BY <1>1, TimelineAssumption DEF IsObject
<1>2. ASSUME NEW n \in ObjectNames, q = [o EXCEPT !.name = n]
      PROVE  IsObject(q)
  BY <1>2 DEF IsObject
<1>3. ASSUME NEW p \in 1 .. o.length - 1, q = [o EXCEPT !.points = o.points \cup {p}]
      PROVE  IsObject(q)
  BY <1>3 DEF IsObject
<1>4. QED
  BY <1>1, <1>2, <1>3 DEF Edited

LEMMA UserEditsObjects ==
  ASSUME TimelineInv, UserEditsTimeline
  PROVE  TimelineInv'
<1>1. Idle /\ SceneStands(objects) /\ layers \in [Layers -> LayerState]
  <2>1. Idle
    BY DEF UserEditsTimeline
  <2>2. QED
    BY <2>1 DEF TimelineInv
<1>2. Idle'
  BY DEF UserEditsTimeline, Idle
<1>4. ASSUME layers' = layers, NEW o \in objects,
             NEW q \in Edited(o),
             HasRoom(q, objects \ {o}), objects' = (objects \ {o}) \cup {q}
      PROVE  SceneStands(objects') /\ layers' \in [Layers -> LayerState]
  <2>1. IsObject(o)
    BY <1>1 DEF SceneStands
  <2>2. IsObject(q)
    BY <2>1, EditedIsObject
  <2>3. QED
    BY <1>1, <1>4, <2>2, ReplacedStands
<1>5. ASSUME objects' = objects, NEW l \in Layers, NEW locked \in BOOLEAN,
             layers' = [layers EXCEPT ![l].locked = locked]
      PROVE  layers' \in [Layers -> LayerState]
  <2>1. [layers[l] EXCEPT !.locked = locked] \in LayerState
    BY <1>1 DEF LayerState
  <2>2. QED
    BY <1>1, <1>5, <2>1
<1>6. SceneStands(objects') /\ layers' \in [Layers -> LayerState]
  <2>1. CASE layers' = layers /\ \E o \in objects : objects' = objects \ {o}
    BY <1>1, <2>1 DEF SceneStands, Spread
  <2>2. QED
    BY <1>1, <1>4, <1>5, <2>1 DEF UserEditsTimeline
<1>7. TimelinePromise'
  BY <1>2 DEF Idle, NoAnswer, TimelinePromise, CreatedAreNamed, MovedIsNamed, LockedLayersHold,
       SectionKeepsItsNumber, UnmarkedChangedNoLayer, DoneTimeline
<1>8. QED
  BY <1>6, <1>7 DEF TimelineInv, SceneStands, Spread

LEMMA TimelineStarts == TimelineInit => TimelineInv
<1> SUFFICES ASSUME TimelineInit PROVE TimelineInv
  OBVIOUS
<1>1. Idle
  BY DEF TimelineInit, Idle
<1>2. SceneStands(objects)
  <2>1. objects \in SUBSET InitialObjects /\ \A o \in objects : HasRoom(o, objects \ {o})
    BY DEF TimelineInit, Scenes
  <2>2. QED
    BY <2>1, TimelineAssumption DEF SceneStands, Spread, HasRoom
<1>3. layers \in [Layers -> LayerState]
  <2>1. \A b \in BOOLEAN : [name |-> "standard", enabled |-> TRUE, locked |-> b] \in LayerState
    BY TimelineAssumption DEF LayerState
  <2>2. QED
    BY <2>1 DEF TimelineInit
<1>4. QED
  BY <1>1, <1>2, <1>3, NothingAnswered DEF TimelineInv

LEMMA TimelineGoesOn == TimelineInv /\ [TimelineNext]_timelineVars => TimelineInv'
<1> SUFFICES ASSUME TimelineInv, [TimelineNext]_timelineVars PROVE TimelineInv'
  OBVIOUS
<1>1. CASE UNCHANGED timelineVars
  BY <1>1 DEF timelineVars, TimelineInv, TimelinePromise, CreatedAreNamed, MovedIsNamed,
       LockedLayersHold, SectionKeepsItsNumber, UnmarkedChangedNoLayer, DoneTimeline, Idle
<1>2. CASE TimelineNext
  BY <1>2, UserEditsObjects, RefusedEnds, CreateEnds, MoveObjectEnds, DeleteObjectEnds, NameEnds,
     DivideEnds, ShiftEnds, LayerEnds DEF TimelineNext
<1>3. QED
  BY <1>1, <1>2

-----------------------------------------------------------------------------
(* The settings and the selection.                                         *)

\* A sequence in the order of the given ranks.
Ranked(s, rank) == \A j, k \in 1 .. Len(s) : j < k => rank[s[j]] < rank[s[k]]

UpTo(s, rank, n) == \A k \in 1 .. Len(s) : rank[s[k]] <= n
Has(s, x) == \E k \in 1 .. Len(s) : s[k] = x
Begins(s, t) == \A k \in 1 .. Len(s) : k \in 1 .. Len(t) /\ t[k] = s[k]

\* One more field goes behind those of lower rank.
LEMMA IfAdds ==
  ASSUME NEW F, NEW rank \in [F -> Nat], NEW x \in F, NEW s \in Seq(F), Ranked(s, rank),
         NEW n \in Nat, UpTo(s, rank, n), NEW m \in Nat, n < m, rank[x] = m,
         NEW wanted, NEW t, t = s \o If(x, wanted)
  PROVE  /\ t \in Seq(F) /\ Ranked(t, rank) /\ UpTo(t, rank, m)
         /\ Begins(s, t) /\ (x \in wanted => Has(t, x))
<1>1. Len(s) \in Nat /\ \A k \in 1 .. Len(s) : s[k] \in F
  BY LenProperties
<1> USE DEF UpTo, Has, Begins
<1>2. CASE x \notin wanted
  <2>1. t = s
    BY <1>2, ConcatEmptySeq DEF If
  <2>2. \A k \in 1 .. Len(s) : rank[s[k]] <= m
    BY <1>1
  <2>3. QED
    BY <1>2, <2>1, <2>2
<1>3. CASE x \in wanted
  <2>1. PICK u : u = <<x>>
    OBVIOUS
  <2>2. u \in Seq(F) /\ Len(u) = 1 /\ u[1] = x /\ t = s \o u
    BY <1>3, <2>1 DEF If
  <2>3. /\ t \in Seq(F) /\ Len(t) = Len(s) + 1
        /\ \A k \in 1 .. Len(s) + 1 : t[k] = IF k <= Len(s) THEN s[k] ELSE u[k - Len(s)]
    <3>1. /\ t \in Seq(F) /\ Len(t) = Len(s) + Len(u)
          /\ \A k \in 1 .. Len(s) + Len(u) : t[k] = IF k <= Len(s) THEN s[k] ELSE u[k - Len(s)]
      <4>1. s \o u \in Seq(F) /\ Len(s \o u) = Len(s) + Len(u)
        BY <2>2, ConcatProperties
      <4>2. \A k \in 1 .. Len(s) + Len(u) :
              (s \o u)[k] = IF k <= Len(s) THEN s[k] ELSE u[k - Len(s)]
        BY <2>2, ConcatProperties, Zenon
      <4>3. QED
        BY <2>2, <4>1, <4>2
    <3>2. QED
      BY <2>2, <3>1
  <2>4. \A k \in 1 .. Len(s) : k \in 1 .. Len(t) /\ t[k] = s[k]
    BY <1>1, <2>3
  <2>5. Len(s) + 1 \in 1 .. Len(t) /\ t[Len(s) + 1] = x
    <3>1. Len(s) + 1 - Len(s) = 1 /\ ~(Len(s) + 1 <= Len(s)) /\ Len(s) + 1 \in 1 .. Len(s) + 1
      BY <1>1
    <3>2. QED
      BY <2>2, <2>3, <3>1
  <2>6. \A k \in 1 .. Len(t) : k \in 1 .. Len(s) \/ k = Len(s) + 1
    BY <1>1, <2>3
  <2>7. \A k \in 1 .. Len(t) : rank[t[k]] <= m
    <3>1. ASSUME NEW k \in 1 .. Len(s) PROVE rank[t[k]] <= m
      BY <1>1, <2>4
    <3>2. rank[t[Len(s) + 1]] <= m
      BY <2>5
    <3>3. QED
      BY <2>6, <3>1, <3>2
  <2>8. Ranked(t, rank)
    <3>1. ASSUME NEW j \in 1 .. Len(t), NEW k \in 1 .. Len(t), j < k
          PROVE  rank[t[j]] < rank[t[k]]
      <4>1. j \in 1 .. Len(s)
        BY <1>1, <2>3, <3>1
      <4>2. CASE k \in 1 .. Len(s)
        BY <2>4, <3>1, <4>1, <4>2 DEF Ranked
      <4>3. CASE k = Len(s) + 1
        <5>1. rank[t[j]] <= n /\ rank[t[k]] = m /\ rank[t[j]] \in Nat
          BY <1>1, <2>4, <2>5, <4>1, <4>3
        <5>2. QED
          BY <5>1
      <4>4. QED
        BY <2>6, <4>2, <4>3
    <3>2. QED
      BY <3>1 DEF Ranked
  <2>9. QED
    BY <2>3, <2>4, <2>5, <2>7, <2>8
<1>4. QED
  BY <1>2, <1>3

\* A sequence of fields in the order of their ranks, none above that of `x'.
InRank(F, rank, s, x) == s \in Seq(F) /\ Ranked(s, rank) /\ UpTo(s, rank, rank[x])
Follows(s, t, x, wanted) == Begins(s, t) /\ (x \in wanted => Has(t, x))

\* The same, with the field before in place of its rank.
LEMMA IfFollows ==
  ASSUME NEW F, NEW rank \in [F -> Nat], NEW y \in F, NEW x \in F, rank[y] < rank[x],
         NEW s, InRank(F, rank, s, y), NEW wanted, NEW t, t = s \o If(x, wanted)
  PROVE  InRank(F, rank, t, x) /\ Follows(s, t, x, wanted)
<1>1. rank[x] \in Nat /\ rank[y] \in Nat
  OBVIOUS
<1>2. s \in Seq(F) /\ Ranked(s, rank) /\ UpTo(s, rank, rank[y])
  BY DEF InRank
<1>3. /\ t \in Seq(F) /\ Ranked(t, rank) /\ UpTo(t, rank, rank[x])
      /\ Begins(s, t) /\ (x \in wanted => Has(t, x))
  BY <1>1, <1>2, IfAdds
<1>4. QED
  BY <1>3 DEF InRank, Follows

SceneRank == [name |-> 1, size |-> 2, rate |-> 3]
SelectionRank == [cursor |-> 1, range |-> 2, display |-> 3, focus |-> 4]

\* The first field.
LEMMA IfStarts ==
  ASSUME NEW F, NEW rank \in [F -> Nat], NEW x \in F, rank[x] = 1, NEW wanted,
         NEW t, t = If(x, wanted)
  PROVE  InRank(F, rank, t, x) /\ (x \in wanted => Has(t, x))
<1>1. PICK e \in Seq(F) : e = <<>> /\ Len(e) = 0
  BY EmptySeq
<1>2. If(x, wanted) \in Seq(F)
  BY DEF If
<1>3. t = e \o If(x, wanted)
  BY <1>1, <1>2, ConcatEmptySeq
<1>4. Ranked(e, rank) /\ UpTo(e, rank, 0)
  BY <1>1 DEF Ranked, UpTo
<1>5. 0 \in Nat /\ 1 \in Nat /\ 0 < 1
  OBVIOUS
<1>6. UpTo(t, rank, rank[x]) /\ t \in Seq(F) /\ Ranked(t, rank) /\ (x \in wanted => Has(t, x))
  BY <1>1, <1>3, <1>4, <1>5, IfAdds
<1>7. QED
  BY <1>6 DEF InRank

\* The setters of a scene and of a selection are issued in the order of their ranks.
LEMMA SceneOrderIs ==
  ASSUME NEW wanted \in SUBSET SceneFields, NEW order, order = SceneOrder(wanted)
  PROVE  /\ order \in Seq(SceneFields) /\ Ranked(order, SceneRank)
         /\ "name" \in wanted => Has(order, "name")
<1>0. PICK name, size, rate : name = "name" /\ size = "size" /\ rate = "rate"
  OBVIOUS
<1>1. PICK s, t, u : s = If(name, wanted) /\ t = s \o If(size, wanted) /\ u = t \o If(rate, wanted)
  OBVIOUS
<1>2. /\ SceneRank \in [SceneFields -> Nat] /\ name \in SceneFields /\ size \in SceneFields
      /\ rate \in SceneFields
      /\ SceneRank[name] = 1 /\ SceneRank[name] < SceneRank[size]
      /\ SceneRank[size] < SceneRank[rate]
  BY <1>0 DEF SceneFields, SceneRank
<1>3. /\ InRank(SceneFields, SceneRank, s, name)
      /\ name \in wanted => Has(s, name)
  BY <1>1, <1>2, IfStarts
<1>4. /\ InRank(SceneFields, SceneRank, t, size)
      /\ Follows(s, t, size, wanted)
  BY <1>1, <1>2, <1>3, IfFollows
<1>5. InRank(SceneFields, SceneRank, u, rate) /\ Follows(t, u, rate, wanted)
  BY <1>1, <1>2, <1>4, IfFollows
<1>6. name \in wanted => Has(u, name)
  BY <1>3, <1>4, <1>5 DEF Follows, Begins, Has
<1>7. u = order
  BY <1>0, <1>1 DEF SceneOrder
<1>8. QED
  BY <1>0, <1>5, <1>6, <1>7 DEF InRank

LEMMA SelectionOrderIs ==
  ASSUME NEW wanted \in SUBSET SelectionFields, NEW order, order = SelectionOrder(wanted)
  PROVE  /\ order \in Seq(SelectionFields) /\ Ranked(order, SelectionRank)
         /\ wanted # {} => Len(order) > 0
<1>0. PICK cursor, range, display, focus : cursor = "cursor" /\ range = "range" /\ display = "display" /\ focus = "focus"
  OBVIOUS
<1>1. PICK s, t, u, v : /\ s = If(cursor, wanted) /\ t = s \o If(range, wanted)
                        /\ u = t \o If(display, wanted) /\ v = u \o If(focus, wanted)
  OBVIOUS
<1>2. /\ SelectionRank \in [SelectionFields -> Nat]
      /\ cursor \in SelectionFields /\ range \in SelectionFields
      /\ display \in SelectionFields /\ focus \in SelectionFields
      /\ SelectionRank[cursor] = 1 /\ SelectionRank[cursor] < SelectionRank[range]
      /\ SelectionRank[range] < SelectionRank[display]
      /\ SelectionRank[display] < SelectionRank[focus]
  BY <1>0 DEF SelectionFields, SelectionRank
<1>3. /\ InRank(SelectionFields, SelectionRank, s, cursor)
      /\ cursor \in wanted => Has(s, cursor)
  BY <1>1, <1>2, IfStarts
<1>4. /\ InRank(SelectionFields, SelectionRank, t, range)
      /\ Follows(s, t, range, wanted)
  BY <1>1, <1>2, <1>3, IfFollows
<1>5. /\ InRank(SelectionFields, SelectionRank, u, display)
      /\ Follows(t, u, display, wanted)
  BY <1>1, <1>2, <1>4, IfFollows
<1>6. /\ InRank(SelectionFields, SelectionRank, v, focus)
      /\ Follows(u, v, focus, wanted)
  BY <1>1, <1>2, <1>5, IfFollows
<1>7. v = order
  BY <1>0, <1>1 DEF SelectionOrder
<1>8. wanted # {} => Len(v) > 0
  <2>1. wanted # {} => \E k : k \in 1 .. Len(v)
    BY <1>0, <1>3, <1>4, <1>5, <1>6 DEF SelectionFields, Follows, Begins, Has
  <2>2. Len(v) \in Nat
    BY <1>6, LenProperties DEF InRank
  <2>3. QED
    BY <2>1, <2>2
<1>9. QED
  BY <1>6, <1>7, <1>8 DEF InRank

\* The setters leave the fields they are not made for.
LEMMA TouchedIs ==
  ASSUME NEW D, NEW state \in [D -> Values], NEW fields, NEW c \in Touched(state, fields)
  PROVE  c \in [D -> Values] /\ \A x \in D \ fields : c[x] = state[x]
<1>1. PICK f \in [fields -> Values] : c = [x \in DOMAIN state |-> IF x \in fields THEN f[x] ELSE state[x]]
  BY DEF Touched
<1>2. QED
  BY <1>1

\* Where no setter was tried, nothing is other than it was.
LEMMA UntouchedIs ==
  ASSUME NEW D, NEW state \in [D -> Values], NEW fields, NEW c \in Touched(state, fields),
         fields = {}
  PROVE  c = state
<1>1. c \in [D -> Values] /\ \A x \in D : c[x] = state[x]
  BY TouchedIs
<1>2. QED
  BY <1>1

\* The name is issued first.
LEMMA NameIsFirst ==
  ASSUME NEW wanted \in SUBSET SceneFields, NEW order, order = SceneOrder(wanted)
  PROVE  /\ DOMAIN order = 1 .. Len(order) /\ Len(order) \in Nat
         /\ \A n \in DOMAIN order : order[n] = "name" => n = 1
         /\ "name" \in wanted => 1 \in DOMAIN order /\ order[1] = "name"
<1>1. /\ order \in Seq(SceneFields) /\ Ranked(order, SceneRank)
      /\ "name" \in wanted => Has(order, "name")
  BY SceneOrderIs
<1>2. /\ DOMAIN order = 1 .. Len(order) /\ Len(order) \in Nat
      /\ \A k \in 1 .. Len(order) : order[k] \in SceneFields
  BY <1>1, LenProperties
<1>3. \A x \in SceneFields : SceneRank[x] \in Nat /\ SceneRank[x] >= 1
  BY DEF SceneFields, SceneRank
<1>4. SceneRank["name"] = 1
  BY DEF SceneRank
<1>5. ASSUME NEW n \in 1 .. Len(order), order[n] = "name"
      PROVE  n = 1
  <2>1. CASE 1 < n
    <3>1. 1 \in 1 .. Len(order)
      BY <1>2, <2>1
    <3>2. SceneRank[order[1]] < SceneRank[order[n]]
      BY <1>1, <2>1, <3>1 DEF Ranked
    <3>3. SceneRank[order[1]] \in Nat /\ SceneRank[order[1]] >= 1
      BY <1>2, <1>3, <3>1
    <3>4. SceneRank[order[n]] = 1
      BY <1>4, <1>5
    <3>5. QED
      BY <3>2, <3>3, <3>4
  <2>2. QED
    BY <1>2, <2>1
<1>6. "name" \in wanted => 1 \in DOMAIN order /\ order[1] = "name"
  BY <1>1, <1>2, <1>5 DEF Has
<1>7. QED
  BY <1>2, <1>5, <1>6

-----------------------------------------------------------------------------
\* What is known while a request waits for its observation.
SceneLeft ==
  waiting.kind = "scene" =>
    /\ ~ waiting.issued => left.content = met.content
    /\ "name" \in DOMAIN waiting.goal => left.content["name"] = waiting.goal["name"]

StoppedThere(order, well, was, is) ==
  \A j, k \in DOMAIN order :
    j < k /\ order[j] \notin well => order[k] \notin well /\ is[order[k]] = was[order[k]]

SelectionLeft ==
  waiting.kind = "selection" =>
    StoppedThere(SelectionOrder(DOMAIN waiting.goal), waiting.well, met.selection, left.selection)

SettingsPromise == UnmarkedChangedNothing /\ NameFailureSparesTheRest /\ SelectionListsTell

SettingsInv ==
  /\ content \in Contents /\ selection \in Selections
  /\ waiting = NoRequest \/ waiting.kind \in {"scene", "selection"}
  /\ told # NotTold => waiting = NoRequest
  /\ SceneLeft /\ SelectionLeft
  /\ SettingsPromise

\* Without an answer nothing is promised.
LEMMA NothingTold == told = NotTold => SettingsPromise
  BY DEF NotTold, SettingsPromise, UnmarkedChangedNothing, NameFailureSparesTheRest, SelectionListsTell

LEMMA NothingWaits == waiting = NoRequest => SceneLeft /\ SelectionLeft
  BY DEF NoRequest, SceneLeft, SelectionLeft

LEMMA SettingsStart == SettingsInit => SettingsInv
<1> SUFFICES ASSUME SettingsInit PROVE SettingsInv
  OBVIOUS
<1>1. content \in Contents /\ selection \in Selections /\ waiting = NoRequest /\ told = NotTold
  BY SettingsAssumption DEF SettingsInit, Contents, Selections
<1>2. QED
  BY <1>1, NothingTold, NothingWaits DEF SettingsInv

-----------------------------------------------------------------------------
LEMMA Below ==
  ASSUME NEW l \in Nat, NEW n \in 1 .. l, NEW m \in 1 .. n - 1
  PROVE  m \in 1 .. l /\ ~ (n <= m)
OBVIOUS

\* The setters of a selection stop at the first that fails.
LEMMA StopsThere ==
  ASSUME NEW order \in Seq(SelectionFields), Ranked(order, SelectionRank), Len(order) > 0,
         NEW accepted, NEW tried, tried = StopsAtFailure(order, accepted),
         NEW was \in Selections, NEW well, well = tried \cap accepted,
         NEW is \in Touched(was, tried \cup (IF "focus" \in well THEN {"display"} ELSE {}))
  PROVE  StoppedThere(order, well, was, is)
<1> DEFINE Stop(n) == FirstOf(order, n - 1) \subseteq accepted
                      /\ (n = Len(order) \/ order[n] \notin accepted)
<1>1. /\ DOMAIN order = 1 .. Len(order) /\ Len(order) \in Nat
      /\ \A k \in 1 .. Len(order) : order[k] \in SelectionFields
  BY LenProperties
<1>2. \E n \in 1 .. Len(order) : Stop(n)
  <2> DEFINE S == {n \in 1 .. Len(order) : n = Len(order) \/ order[n] \notin accepted}
  <2>1. S \in SUBSET Nat /\ Len(order) \in S
    BY <1>1
  <2>2. PICK n \in S : \A m \in S : n <= m
    <3> HIDE DEF S
    <3> QED BY <2>1, Least
  <2>3. ASSUME NEW m \in 1 .. n - 1 PROVE order[m] \in accepted
    <3>1. m \in 1 .. Len(order) /\ ~ (n <= m)
      <4>1. n \in 1 .. Len(order)
        BY <2>2
      <4>2. QED
        BY <1>1, <2>3, <4>1, Below
    <3>2. QED
      BY <2>2, <3>1
  <2>4. FirstOf(order, n - 1) \subseteq accepted
    BY <2>3 DEF FirstOf
  <2>5. QED
    BY <2>2, <2>4
<1>3. PICK n \in 1 .. Len(order) : Stop(n) /\ tried = FirstOf(order, n)
  <2> DEFINE c == CHOOSE n \in 1 .. Len(order) : Stop(n)
  <2>1. c \in 1 .. Len(order) /\ Stop(c)
    BY <1>2, Zenon
  <2>2. tried = FirstOf(order, c)
    BY DEF StopsAtFailure
  <2>3. QED
    BY <2>1, <2>2
<1>4. ASSUME NEW j \in 1 .. Len(order), NEW k \in 1 .. Len(order), j < k
      PROVE  SelectionRank[order[j]] < SelectionRank[order[k]]
  BY <1>4 DEF Ranked
<1>5. \A x \in SelectionFields : SelectionRank[x] \in Nat
  BY DEF SelectionFields, SelectionRank
<1>6. ASSUME NEW k \in 1 .. Len(order), n < k
      PROVE  order[k] \notin tried
  <2>1. ASSUME NEW i \in 1 .. n PROVE order[i] # order[k]
    <3>1. i \in 1 .. Len(order) /\ i < k
      BY <1>1, <1>6
    <3>2. SelectionRank[order[i]] < SelectionRank[order[k]]
      BY <1>4, <3>1
    <3>3. SelectionRank[order[k]] \in Nat
      BY <1>1, <1>5
    <3>4. QED
      BY <3>2, <3>3
  <2>2. QED
    BY <1>3, <2>1 DEF FirstOf
<1>7. ASSUME NEW k \in 1 .. Len(order), n < k, "focus" \in well
      PROVE  order[k] # "display"
  <2>1. PICK i \in 1 .. n : order[i] = "focus"
    BY <1>3, <1>7 DEF FirstOf
  <2>2. i \in 1 .. Len(order) /\ i < k
    BY <1>1, <1>7
  <2>3. SelectionRank[order[i]] < SelectionRank[order[k]]
    BY <1>4, <2>2
  <2>4. SelectionRank["focus"] = 4 /\ SelectionRank["display"] = 3
    BY DEF SelectionRank
  <2>5. QED
    BY <2>1, <2>3, <2>4
<1>8. ASSUME NEW j \in DOMAIN order, NEW k \in DOMAIN order, j < k, order[j] \notin well
      PROVE  order[k] \notin well /\ is[order[k]] = was[order[k]]
  <2>1. n <= j
    <3>1. CASE j < n
      <4>1. j \in 1 .. n - 1 /\ j \in 1 .. n
        BY <1>1, <3>1
      <4>2. order[j] \in tried /\ order[j] \in accepted
        BY <1>3, <4>1 DEF FirstOf
      <4>3. QED
        BY <1>8, <4>2
    <3>2. QED
      BY <1>1, <3>1
  <2>2. n < k /\ k \in 1 .. Len(order)
    BY <1>1, <1>8, <2>1
  <2>3. order[k] \notin tried
    BY <1>6, <2>2
  <2>4. order[k] \notin tried \cup (IF "focus" \in well THEN {"display"} ELSE {})
    BY <1>7, <2>2, <2>3
  <2>5. is[order[k]] = was[order[k]]
    BY <1>1, <2>2, <2>4, TouchedIs DEF Selections
  <2>6. QED
    BY <2>3, <2>5
<1>9. QED
  BY <1>8 DEF StoppedThere

-----------------------------------------------------------------------------
\* A scene's request, from its section to its answer.
LEMMA SceneSectionEnds ==
  ASSUME SettingsInv, SetSceneSettings
  PROVE  SettingsInv'
<1>1. /\ content \in Contents /\ selection \in Selections
      /\ waiting = NoRequest /\ told = NotTold
  BY DEF SettingsInv, SetSceneSettings, NoneUnderWay
<1>2. SUFFICES ASSUME NEW wanted \in SUBSET SceneFields, NEW goal \in [wanted -> Values],
          LET order == SceneOrder(wanted)
              NameTaken(c, fields) == "name" \in fields => c["name"] = goal["name"]
          IN
          \/ \E c \in Touched(content, wanted) :
               /\ NameTaken(c, wanted)
               /\ Section(c, selection)
               /\ waiting' = [kind |-> "scene", goal |-> goal, well |-> wanted,
                              issued |-> SomeIssued(wanted)]
               /\ UNCHANGED told
          \/ \E n \in DOMAIN order : order[n] = "name" /\
               \E c \in Touched(content, FirstOf(order, n)) :
                 ~NameTaken(c, {"name"}) /\ FailsInSection(c, "scene", "failed", goal)
          \/ \E n \in DOMAIN order : \E c \in Touched(content, FirstOf(order, n)) :
               /\ NameTaken(c, FirstOf(order, n - 1))
               /\ FailsInSection(c, "scene", "failed", goal)
          \/ \E n \in DOMAIN order : \E c \in Touched(content, FirstOf(order, n - 1)) :
               /\ NameTaken(c, FirstOf(order, n - 1))
               /\ FailsInSection(c, "scene", IF n > 1 THEN "failed" ELSE "refused", goal)
               PROVE  SettingsInv'
  BY DEF SetSceneSettings
<1> DEFINE order == SceneOrder(wanted)
<1>3. /\ DOMAIN order = 1 .. Len(order) /\ Len(order) \in Nat
      /\ \A n \in DOMAIN order : order[n] = "name" => n = 1
      /\ "name" \in wanted => 1 \in DOMAIN order /\ order[1] = "name"
  BY NameIsFirst
<1>4. DOMAIN goal = wanted
  OBVIOUS
<1> HIDE DEF order
\* The section ends without an answer.
<1>5. ASSUME NEW c \in Touched(content, wanted), "name" \in wanted => c["name"] = goal["name"],
             Section(c, selection),
             waiting' = [kind |-> "scene", goal |-> goal, well |-> wanted,
                         issued |-> SomeIssued(wanted)],
             UNCHANGED told
      PROVE  SettingsInv'
  <2>1. c \in Contents
    BY <1>1, TouchedIs DEF Contents
  <2>2. wanted = {} => c = content
    BY <1>1, UntouchedIs DEF Contents
  <2>3. /\ content' = c /\ selection' = selection /\ met'.content = content /\ left'.content = c
    BY <1>5 DEF Section, Both
  <2>4. SceneLeft'
    <3>1. waiting'.goal = goal /\ waiting'.issued = SomeIssued(wanted)
      BY <1>5
    <3>2. ~ waiting'.issued => left'.content = met'.content
      BY <2>2, <2>3, <3>1 DEF SomeIssued
    <3>3. "name" \in DOMAIN waiting'.goal => left'.content["name"] = waiting'.goal["name"]
      BY <1>4, <1>5, <2>3, <3>1
    <3>4. QED
      BY <3>2, <3>3 DEF SceneLeft
  <2>5. waiting'.kind = "scene"
    BY <1>5
  <2>6. told' = NotTold /\ SelectionLeft' /\ SettingsPromise'
    BY <1>1, <1>5, <2>5, NothingTold DEF SelectionLeft, SettingsPromise, UnmarkedChangedNothing, NameFailureSparesTheRest, SelectionListsTell, NotTold
  <2>7. QED
    BY <1>1, <2>1, <2>3, <2>4, <2>5, <2>6 DEF SettingsInv
\* A failure inside the section is answered.
<1>6. ASSUME NEW c \in Contents, NEW result \in {"failed", "refused"},
             FailsInSection(c, "scene", result, goal),
             result = "refused" => c = content,
             result = "failed" /\ "name" \in wanted /\ c["name"] # goal["name"]
               => \A x \in {"size", "rate"} : c[x] = content[x]
      PROVE  SettingsInv'
  <2>1. /\ content' = c /\ selection' = selection /\ met'.content = content /\ left'.content = c
        /\ waiting' = NoRequest
        /\ told'.kind = "scene" /\ told'.result = result /\ told'.goal = goal
    BY <1>1, <1>6 DEF FailsInSection, Section, Both, Tells
  <2>2. UnmarkedChangedNothing'
    BY <1>6, <2>1 DEF UnmarkedChangedNothing
  <2>3. NameFailureSparesTheRest'
    BY <1>4, <1>6, <2>1 DEF NameFailureSparesTheRest
  <2>4. SelectionListsTell'
    BY <2>1 DEF SelectionListsTell
  <2>5. SceneLeft' /\ SelectionLeft'
    BY <2>1 DEF NoRequest, SceneLeft, SelectionLeft
  <2>6. QED
    BY <1>1, <2>1, <2>2, <2>3, <2>4, <2>5 DEF SettingsInv, SettingsPromise
<1>7. ASSUME NEW n \in DOMAIN order, order[n] = "name",
             NEW c \in Touched(content, FirstOf(order, n)),
             FailsInSection(c, "scene", "failed", goal)
      PROVE  SettingsInv'
  <2>1. n = 1
    BY <1>3, <1>7
  <2>2. FirstOf(order, n) = {"name"}
    BY <1>7, <2>1 DEF FirstOf
  <2>3. c \in Contents /\ \A x \in {"size", "rate"} : c[x] = content[x]
    BY <1>1, <2>2, TouchedIs DEF Contents, SceneFields
  <2>4. QED
    BY <1>6, <1>7, <2>3
<1>8. ASSUME NEW n \in DOMAIN order, NEW c \in Touched(content, FirstOf(order, n)),
             "name" \in FirstOf(order, n - 1) => c["name"] = goal["name"],
             FailsInSection(c, "scene", "failed", goal)
      PROVE  SettingsInv'
  <2>1. c \in Contents
    BY <1>1, TouchedIs DEF Contents
  <2>2. ASSUME "name" \in wanted, c["name"] # goal["name"]
        PROVE  \A x \in {"size", "rate"} : c[x] = content[x]
    <3>1. n = 1
      <4>1. CASE n > 1
        <5>1. 1 \in 1 .. n - 1
          BY <1>3, <4>1
        <5>2. QED
          BY <1>3, <1>8, <2>2, <5>1 DEF FirstOf
      <4>2. QED
        BY <1>3, <4>1
    <3>2. FirstOf(order, n) = {"name"}
      BY <1>3, <2>2, <3>1 DEF FirstOf
    <3>3. QED
      BY <1>1, <3>2, TouchedIs DEF Contents, SceneFields
  <2>3. QED
    BY <1>6, <1>8, <2>1, <2>2
<1>9. ASSUME NEW n \in DOMAIN order, NEW c \in Touched(content, FirstOf(order, n - 1)),
             "name" \in FirstOf(order, n - 1) => c["name"] = goal["name"],
             FailsInSection(c, "scene", IF n > 1 THEN "failed" ELSE "refused", goal)
      PROVE  SettingsInv'
  <2>1. c \in Contents
    BY <1>1, TouchedIs DEF Contents
  <2>2. CASE n > 1
    <3>1. "name" \in wanted => c["name"] = goal["name"]
      <4>1. 1 \in 1 .. n - 1
        BY <1>3, <2>2
      <4>2. QED
        BY <1>3, <1>9, <4>1 DEF FirstOf
    <3>2. FailsInSection(c, "scene", "failed", goal)
      BY <1>9, <2>2
    <3>3. QED
      BY <1>6, <2>1, <3>1, <3>2
  <2>3. CASE ~ (n > 1)
    <3>1. FirstOf(order, n - 1) = {}
      <4>1. n - 1 = 0
        BY <1>3, <2>3
      <4>2. QED
        BY <4>1 DEF FirstOf
    <3>2. c = content
      BY <1>1, <3>1, UntouchedIs DEF Contents
    <3>3. FailsInSection(c, "scene", "refused", goal)
      BY <1>9, <2>3
    <3>4. QED
      BY <1>6, <2>1, <3>2, <3>3
  <2>4. QED
    BY <2>2, <2>3
<1>10. QED
  BY <1>2, <1>5, <1>7, <1>8, <1>9 DEF order

\* The section of a selection ends.
LEMMA SelectionSectionEnds ==
  ASSUME SettingsInv, SetSelection
  PROVE  SettingsInv'
<1>1. /\ content \in Contents /\ selection \in Selections
      /\ waiting = NoRequest /\ told = NotTold
  BY DEF SettingsInv, SetSelection, NoneUnderWay
<1>2. SUFFICES ASSUME NEW wanted \in (SUBSET SelectionFields) \ {{}}, NEW accepted \in SUBSET wanted,
          LET order == SelectionOrder(wanted)
              tried == StopsAtFailure(order, accepted)
              well == tried \cap accepted
          IN \E s \in Touched(selection, tried \cup (IF "focus" \in well THEN {"display"} ELSE {})) :
               /\ Section(content, s)
               /\ waiting' = [kind |-> "selection", goal |-> [x \in wanted |-> 1], well |-> well,
                              issued |-> TRUE]
               /\ UNCHANGED told
               PROVE  SettingsInv'
  BY DEF SetSelection
<1>3. PICK order, tried, well : /\ order = SelectionOrder(wanted)
                                /\ tried = StopsAtFailure(order, accepted)
                                /\ well = tried \cap accepted
  OBVIOUS
<1>4. PICK s \in Touched(selection, tried \cup (IF "focus" \in well THEN {"display"} ELSE {})) :
        /\ Section(content, s)
        /\ waiting' = [kind |-> "selection", goal |-> [x \in wanted |-> 1], well |-> well,
                       issued |-> TRUE]
        /\ UNCHANGED told
  BY <1>2, <1>3
<1>5. order \in Seq(SelectionFields) /\ Ranked(order, SelectionRank) /\ Len(order) > 0
  <2>1. wanted \in SUBSET SelectionFields /\ wanted # {}
    OBVIOUS
  <2>2. QED
    BY <1>3, <2>1, SelectionOrderIs
<1>6. StoppedThere(order, well, selection, s)
  BY <1>1, <1>3, <1>5, StopsThere
<1>7. s \in Selections
  BY <1>1, TouchedIs DEF Selections
<1>8. /\ content' = content /\ selection' = s
      /\ met'.selection = selection /\ left'.selection = s
  BY <1>4 DEF Section, Both
<1>9. waiting'.kind = "selection" /\ waiting'.well = well /\ DOMAIN waiting'.goal = wanted
  BY <1>4
<1>10. SelectionLeft'
  BY <1>3, <1>6, <1>8, <1>9 DEF SelectionLeft
<1>11. SceneLeft'
  BY <1>9 DEF SceneLeft
<1>12. told' = NotTold /\ SettingsPromise'
  BY <1>1, <1>4, NothingTold DEF SettingsPromise, UnmarkedChangedNothing, NameFailureSparesTheRest, SelectionListsTell, NotTold
<1>13. QED
  BY <1>1, <1>7, <1>8, <1>9, <1>10, <1>11, <1>12 DEF SettingsInv

\* The requests that end in their section, and the user.
LEMMA SectionFailureTold ==
  ASSUME SettingsInv, told = NotTold, waiting = NoRequest, NEW c \in Contents,
         NEW kind \in {"any", "grid"}, NEW result \in {"refused", "done", "failed"}, NEW goal,
         Section(c, selection), UNCHANGED waiting, Tells(kind, result, {}, goal),
         result = "refused" => c = content
  PROVE  SettingsInv'
<1>1. /\ content' = c /\ selection' = selection /\ met'.content = content /\ left'.content = c
      /\ waiting' = NoRequest /\ told'.kind = kind /\ told'.result = result
  BY DEF Section, Both, Tells
<1>2. SettingsPromise'
  BY <1>1 DEF SettingsPromise, UnmarkedChangedNothing, NameFailureSparesTheRest, SelectionListsTell
<1>3. SceneLeft' /\ SelectionLeft'
  BY <1>1 DEF NoRequest, SceneLeft, SelectionLeft
<1>4. QED
  BY <1>1, <1>2, <1>3 DEF SettingsInv

\* The grid's list is replaced and read again.
LEMMA GridEnds ==
  ASSUME SettingsInv, SetGridBpm
  PROVE  SettingsInv'
<1>1. content \in Contents /\ waiting = NoRequest /\ told = NotTold
  BY DEF SettingsInv, SetGridBpm, NoneUnderWay
<1>2. PICK count \in Values, become \in Values :
        LET c == [content EXCEPT !["grid"] = become] IN
        \/ /\ Section(c, selection) /\ UNCHANGED waiting
           /\ Tells("grid", IF become = count THEN "done" ELSE "failed", {}, [grid |-> count])
        \/ FailsInSection(c, "grid", "failed", [grid |-> count])
  BY DEF SetGridBpm
<1>3. PICK c, goal : c = [content EXCEPT !["grid"] = become] /\ goal = [grid |-> count]
  OBVIOUS
<1>4. c \in Contents
  BY <1>1, <1>3 DEF Contents
<1>5. CASE FailsInSection(c, "grid", "failed", goal)
  BY <1>1, <1>4, <1>5, SectionFailureTold DEF FailsInSection
<1>6. ASSUME Section(c, selection), UNCHANGED waiting,
             Tells("grid", IF become = count THEN "done" ELSE "failed", {}, goal)
      PROVE  SettingsInv'
  <2>1. PICK result : result = IF become = count THEN "done" ELSE "failed"
    OBVIOUS
  <2>2. result \in {"refused", "done", "failed"} /\ result # "refused"
    BY <2>1
  <2>3. QED
    BY <1>1, <1>4, <1>6, <2>1, <2>2, SectionFailureTold
<1>7. QED
  BY <1>2, <1>3, <1>5, <1>6

LEMMA RefusedSettings ==
  ASSUME SettingsInv, SettingsRefused
  PROVE  SettingsInv'
<1>1. content \in Contents /\ waiting = NoRequest /\ told = NotTold
  BY DEF SettingsInv, SettingsRefused, NoneUnderWay
<1>2. Section(content, selection) /\ UNCHANGED waiting /\ Tells("any", "refused", {}, <<>>)
  BY DEF SettingsRefused, FailsInSection
<1>3. QED
  BY <1>1, <1>2, SectionFailureTold

\* The user comes before the section or between it and the observation.
LEMMA UserEditsTheSettings ==
  ASSUME SettingsInv, UserEditsSettings
  PROVE  SettingsInv'
<1>1. /\ content \in Contents /\ selection \in Selections /\ told = NotTold /\ told' = told
      /\ UNCHANGED <<waiting, met, left>>
  BY DEF SettingsInv, UserEditsSettings
<1>2. content' \in Contents /\ selection' \in Selections
  BY <1>1 DEF UserEditsSettings, Contents, Selections
<1>3. SettingsPromise'
  BY <1>1, NothingTold DEF SettingsPromise, UnmarkedChangedNothing, NameFailureSparesTheRest, SelectionListsTell, NotTold
<1>4. SceneLeft' /\ SelectionLeft'
  BY <1>1 DEF SettingsInv, SceneLeft, SelectionLeft
<1>5. QED
  BY <1>1, <1>2, <1>3, <1>4 DEF SettingsInv

\* The observation after the section, whether it succeeds or not.
LEMMA ObservationAnswers ==
  ASSUME SettingsInv, ObservationFails \/ ObserveScene \/ ObserveSelection
  PROVE  SettingsInv'
<1>1. waiting # NoRequest /\ told = NotTold
  <2>1. waiting # NoRequest
    BY DEF ObservationFails, ObserveScene, ObserveSelection, NoRequest
  <2>2. QED
    BY <2>1 DEF SettingsInv
<1>2. /\ UNCHANGED <<content, selection, met, left>> /\ waiting' = NoRequest
      /\ waiting.kind \in {"scene", "selection"}
  BY <1>1 DEF SettingsInv, ObservationFails, ObserveScene, ObserveSelection
<1>3. SceneLeft' /\ SelectionLeft'
  BY <1>2 DEF NoRequest, SceneLeft, SelectionLeft
<1>4. ASSUME SettingsPromise' PROVE SettingsInv'
  BY <1>2, <1>3, <1>4 DEF SettingsInv
<1>5. ASSUME ObserveScene PROVE SettingsPromise'
  <2>1. told'.kind = "scene" /\ told'.result = "done"
    BY <1>5 DEF ObserveScene, Tells
  <2>2. QED
    BY <2>1 DEF SettingsPromise, UnmarkedChangedNothing, NameFailureSparesTheRest, SelectionListsTell
<1>6. ASSUME ObservationFails PROVE SettingsPromise'
  <2>1. /\ told'.kind = waiting.kind /\ told'.goal = waiting.goal
        /\ told'.result = IF waiting.kind = "scene" /\ waiting.issued THEN "failed" ELSE "refused"
    BY <1>6 DEF ObservationFails, Tells
  <2>2. SceneLeft
    BY DEF SettingsInv
  <2>3. UnmarkedChangedNothing'
    BY <1>2, <2>1, <2>2 DEF UnmarkedChangedNothing, SceneLeft
  <2>4. NameFailureSparesTheRest'
    BY <1>2, <2>1, <2>2 DEF NameFailureSparesTheRest, SceneLeft
  <2>5. SelectionListsTell'
    BY <2>1 DEF SelectionListsTell
  <2>6. QED
    BY <2>3, <2>4, <2>5 DEF SettingsPromise
<1>7. ASSUME ObserveSelection PROVE SettingsPromise'
  <2>1. PICK well, goal, applied : /\ well = waiting.well /\ goal = waiting.goal
                                   /\ applied = SelectionApplied(well, goal)
    OBVIOUS
  <2>2. /\ waiting.kind = "selection"
        /\ told'.kind = "selection" /\ told'.result = "done"
        /\ told'.goal = goal /\ told'.applied = applied
    BY <1>7, <2>1 DEF ObserveSelection, Tells
  <2>3. PICK order, was, is : /\ order = SelectionOrder(DOMAIN goal)
                              /\ was = met.selection /\ is = left.selection
    OBVIOUS
  <2>4. StoppedThere(order, well, was, is)
    BY <2>1, <2>2, <2>3 DEF SettingsInv, SelectionLeft
  <2>5. ASSUME NEW j \in DOMAIN order, NEW k \in DOMAIN order, j < k,
               order[j] # "display", order[j] \notin applied
        PROVE  order[k] \notin applied /\ is[order[k]] = was[order[k]]
    <3>1. order[j] \notin well
      BY <2>1, <2>5 DEF SelectionApplied
    <3>2. order[k] \notin well /\ is[order[k]] = was[order[k]]
      BY <2>4, <2>5, <3>1 DEF StoppedThere
    <3>3. QED
      BY <2>1, <3>2 DEF SelectionApplied
  <2>6. "display" \in applied => selection["display"] = goal["display"]
    BY <2>1 DEF SelectionApplied
  <2>7. SelectionListsTell'
    <3>1. order = SelectionOrder(DOMAIN told'.goal) /\ left'.selection = is /\ met'.selection = was
      BY <1>2, <2>2, <2>3
    <3>2. selection' = selection
      BY <1>2
    <3>3. QED
      BY <2>2, <2>5, <2>6, <3>1, <3>2 DEF SelectionListsTell
  <2>8. UnmarkedChangedNothing' /\ NameFailureSparesTheRest'
    BY <2>2 DEF UnmarkedChangedNothing, NameFailureSparesTheRest
  <2>9. QED
    BY <2>7, <2>8 DEF SettingsPromise
<1>8. QED
  BY <1>4, <1>5, <1>6, <1>7

LEMMA SettingsGoOn == SettingsInv /\ [SettingsNext]_settingsVars => SettingsInv'
<1> SUFFICES ASSUME SettingsInv, [SettingsNext]_settingsVars PROVE SettingsInv'
  OBVIOUS
<1>1. CASE UNCHANGED settingsVars
  BY <1>1 DEF settingsVars, SettingsInv, SettingsPromise, SceneLeft, SelectionLeft,
              UnmarkedChangedNothing, NameFailureSparesTheRest, SelectionListsTell
<1>2. CASE SettingsNext
  BY <1>2, UserEditsTheSettings, RefusedSettings, GridEnds, SceneSectionEnds,
     SelectionSectionEnds, ObservationAnswers DEF SettingsNext
<1>3. QED
  BY <1>1, <1>2

-----------------------------------------------------------------------------
(* The pages of a listing.                                                 *)
(*                                                                         *)
(* A page that continues a listing must be of its revision. While the      *)
(* project is the same, the revision never falls below that of the pages   *)
(* the client has, and what the scene holds differs from what it held then *)
(* only while an event is under way or after the revision has grown        *)
(* (SameMoment). So where revision and epoch match and no event is late,   *)
(* the scene is as it was, and the new page continues the old ones.        *)

\* What a request read before its section is true in it, unless it slipped.
ReadBeforeHolds ==
  info.asked => (slipped \/ (info.top = TopOccupied(held) /\ info.epoch = epoch))

\* The revision of the pages is still that of what they show.
SameMoment ==
  got.state = "more" => (slipped \/ got.epoch # epoch
    \/ (got.snapshot <= revision
        /\ (got.snapshot = revision /\ undelivered = 0 => held = moment)))

\* What the client has put together.
Gathered ==
  /\ got.state = "none" => got.next = 0 /\ got.items = <<>>
  /\ info.asked => got.state \in {"none", "more"}
  /\ got.state = "more" => (slipped \/ (got.next <= Len(moment) /\ got.items = SubSeq(moment, 1, got.next)))
  /\ got.state = "all" => (slipped \/ got.items = moment)
  /\ got.state # "none" => got.epoch <= epoch
  /\ info.epoch <= epoch

ListInv == ListTypeOK /\ ReadBeforeHolds /\ SameMoment /\ Gathered

-----------------------------------------------------------------------------
\* A timeline is sequence of pairs of naturals.
LEMMA TimelineType == ASSUME NEW s \in Timelines PROVE s \in Seq(Nat \X Nat)
  BY ListingAssumption

LEMMA FirstN == ASSUME NEW n \in Nat PROVE IsFiniteSet(1 .. n) /\ Cardinality(1 .. n) = n
<1>1. 1 \in Int /\ n \in Int OBVIOUS
<1>2. /\ IsFiniteSet(1 .. n)
      /\ Cardinality(1 .. n) = IF 1 > n THEN 0 ELSE n - 1 + 1
  BY <1>1, FS_Interval, Zenon
<1> QED BY <1>2

LEMMA BeginningIsSeq ==
  ASSUME NEW S, NEW s \in Seq(S), NEW n \in Nat, n <= Len(s)
  PROVE SubSeq(s, 1, n) \in Seq(S)
  OBVIOUS

LEMMA TopIsNat == ASSUME NEW s \in Timelines PROVE TopOccupied(s) \in Nat
<1>1. s \in Seq(Nat \X Nat) BY TimelineType
<1>2. CASE s = <<>> BY <1>2 DEF TopOccupied
<1>3. CASE s # <<>>
  <2>1. Len(s) \in DOMAIN s BY <1>1, <1>3
  <2>2. s[Len(s)] \in Nat \X Nat BY <1>1, <2>1
  <2> QED BY <1>3, <2>2 DEF TopOccupied
<1> QED BY <1>2, <1>3

\* With the top layer of what is listed, the listing is all of it.
LEMMA ListedIsAll == ASSUME NEW s \in Timelines PROVE Listed(s, TopOccupied(s)) = s
<1>1. s \in Seq(Nat \X Nat) BY TimelineType
<1>2. Len(s) \in Nat /\ DOMAIN s = 1 .. Len(s) BY <1>1
<1>3. {k \in DOMAIN s : s[k][1] <= TopOccupied(s)} = 1 .. Len(s)
  <2>1. ASSUME NEW k \in DOMAIN s PROVE s[k][1] <= TopOccupied(s)
    <3>1. k <= Len(s) /\ Len(s) \in DOMAIN s /\ s # <<>> BY <1>1, <1>2, <2>1
    <3>2. TopOccupied(s) = s[Len(s)][1] BY <3>1 DEF TopOccupied
    <3>3. s[k][1] <= s[Len(s)][1] BY <2>1, <3>1, ListingAssumption
    <3> QED BY <3>2, <3>3
  <2> QED BY <2>1, <1>2
<1>4. Cardinality(1 .. Len(s)) = Len(s)
  BY <1>2, FirstN
<1>5. SubSeq(s, 1, Len(s)) = s BY <1>1
<1> QED BY <1>3, <1>4, <1>5 DEF Listed

LEMMA ListedType ==
  ASSUME NEW s \in Timelines, NEW top \in Nat
  PROVE Listed(s, top) \in Seq(Nat \X Nat)
<1>1. s \in Seq(Nat \X Nat) BY TimelineType
<1> DEFINE chosen == {k \in DOMAIN s : s[k][1] <= top}
<1>2. IsFiniteSet(1 .. Len(s)) /\ Cardinality(1 .. Len(s)) = Len(s)
  BY <1>1, FirstN
<1>3. chosen \subseteq 1 .. Len(s) BY <1>1
<1>4. Cardinality(chosen) \in Nat /\ Cardinality(chosen) <= Len(s)
  BY <1>2, <1>3, FS_Subset, FS_CardinalityType
<1>5. SubSeq(s, 1, Cardinality(chosen)) \in Seq(Nat \X Nat)
  BY <1>1, <1>4, BeginningIsSeq
<1> QED BY <1>5 DEF Listed

\* The end of the page from an offset.
PageEnd(items, offset) ==
  IF offset + PageLimit < Len(items) THEN offset + PageLimit ELSE Len(items)

LEMMA WindowType ==
  ASSUME NEW items \in Seq(Nat \X Nat), NEW offset \in Nat
  PROVE Window(items, offset) \in Seq(Nat \X Nat) /\ NextOffset(items, offset) \in Nat
<1>1. PageLimit \in Nat BY ListingAssumption
<1>2. PageEnd(items, offset) \in 0 .. Len(items) BY <1>1 DEF PageEnd
<1>3. SubSeq(items, offset + 1, PageEnd(items, offset)) \in Seq(Nat \X Nat) BY <1>2
<1> QED BY <1>1, <1>3 DEF Window, NextOffset, PageEnd

LEMMA SubSeqJoin ==
  ASSUME NEW S, NEW s \in Seq(S), NEW n \in Nat, NEW m \in Nat, n <= m, m <= Len(s)
  PROVE SubSeq(s, 1, n) \o SubSeq(s, n + 1, m) = SubSeq(s, 1, m)
  OBVIOUS

\* A page continues what ends where it begins.
LEMMA WindowContinues ==
  ASSUME NEW items \in Seq(Nat \X Nat), NEW offset \in Nat, offset <= Len(items)
  PROVE /\ SubSeq(items, 1, offset) \o Window(items, offset)
             = SubSeq(items, 1, PageEnd(items, offset))
        /\ NextOffset(items, offset) = 0 => PageEnd(items, offset) = Len(items)
        /\ NextOffset(items, offset) # 0 => NextOffset(items, offset) = PageEnd(items, offset)
        /\ PageEnd(items, offset) <= Len(items)
<1>1. PageLimit \in Nat /\ PageLimit > 0 BY ListingAssumption
<1>2. /\ PageEnd(items, offset) \in Nat /\ offset <= PageEnd(items, offset)
      /\ PageEnd(items, offset) <= Len(items)
  BY <1>1 DEF PageEnd
<1>3. SubSeq(items, 1, offset) \o Window(items, offset) = SubSeq(items, 1, PageEnd(items, offset))
  BY <1>2, SubSeqJoin DEF Window, PageEnd
<1>4. /\ NextOffset(items, offset) = 0 => PageEnd(items, offset) = Len(items)
      /\ NextOffset(items, offset) # 0 => NextOffset(items, offset) = PageEnd(items, offset)
  BY <1>1 DEF NextOffset, PageEnd
<1> QED BY <1>2, <1>3, <1>4

-----------------------------------------------------------------------------
LEMMA InitHolds == ListInit => ListInv
<1> SUFFICES ASSUME ListInit PROVE ListInv OBVIOUS
<1>1. NoPage \in [items : Seq(Nat \X Nat), epoch : Nat, snapshot : Nat, next : Nat,
                  state : {"none", "more", "all", "again"}]
  <2>1. <<>> \in Seq(Nat \X Nat) OBVIOUS
  <2> QED BY <2>1 DEF NoPage
<1>5. ListTypeOK
  <2>1. NoInfo \in [scene : {0, 1}, top : Nat, epoch : Nat, revision : Nat, asked : BOOLEAN]
    BY DEF NoInfo
  <2>2. held \in Timelines /\ moment \in Timelines BY ListingAssumption DEF ListInit
  <2>3. slipped \in BOOLEAN BY DEF ListInit
  <2>4. changes \in 0 .. MaxSceneChanges BY ListingAssumption DEF ListInit
  <2>5. got \in [items : Seq(Nat \X Nat), epoch : Nat, snapshot : Nat, next : Nat,
                  state : {"none", "more", "all", "again"}]
    BY <1>1 DEF ListInit
  <2>6. shown \in {0, 1} /\ {epoch, revision, undelivered} \subseteq Nat /\ info = NoInfo
    BY DEF ListInit
  <2> QED BY <2>1, <2>2, <2>3, <2>4, <2>5, <2>6 DEF ListTypeOK
<1>2. ReadBeforeHolds BY DEF ListInit, ReadBeforeHolds, NoInfo
<1>3. SameMoment BY DEF ListInit, SameMoment, NoPage
<1>4. Gathered BY DEF ListInit, Gathered, NoPage, NoInfo
<1> QED BY <1>5, <1>2, <1>3, <1>4 DEF ListInv

\* A change of what is shown, or of the project: the client and its request
\* stay as they are.
LEMMA WindowStep == ListInv /\ WindowChanges => ListInv'
<1> SUFFICES ASSUME ListInv, WindowChanges PROVE ListInv' OBVIOUS
<1> USE DEF ListInv, WindowChanges, Changes, ClientUnchanged
<1>1. ListTypeOK'
  <2>1. slipped' \in BOOLEAN BY DEF Slips
  <2>2. changes' \in 0 .. MaxSceneChanges BY ListingAssumption DEF ListTypeOK
  <2> QED BY <2>1, <2>2 DEF ListTypeOK
<1>2. ReadBeforeHolds' BY DEF ReadBeforeHolds, Slips
<1>3. SameMoment'
  <2>1. undelivered' # 0 BY DEF ListTypeOK
  <2>2. slipped => slipped' BY DEF Slips
  <2> QED BY <2>1, <2>2 DEF SameMoment
<1>4. Gathered' BY DEF Gathered, Slips
<1> QED BY <1>1, <1>2, <1>3, <1>4

LEMMA LoadStep == ListInv /\ ProjectLoads => ListInv'
<1> SUFFICES ASSUME ListInv, ProjectLoads PROVE ListInv' OBVIOUS
<1> USE DEF ListInv, ProjectLoads, Changes, ClientUnchanged
<1>1. ListTypeOK'
  <2>1. slipped' \in BOOLEAN BY DEF Slips
  <2>2. changes' \in 0 .. MaxSceneChanges BY ListingAssumption DEF ListTypeOK
  <2> QED BY <2>1, <2>2 DEF ListTypeOK
<1>2. ReadBeforeHolds' BY DEF ReadBeforeHolds, Slips
<1>3. epoch \in Nat /\ epoch' = epoch + 1 /\ got.epoch \in Nat /\ info.epoch \in Nat
  BY DEF ListTypeOK
<1>4. SameMoment'
  <2>1. got.state = "more" => got.epoch # epoch' BY <1>3 DEF Gathered
  <2> QED BY <2>1 DEF SameMoment
<1>5. Gathered'
  <2>1. slipped => slipped' BY DEF Slips
  <2>2. got.state # "none" => got.epoch <= epoch' BY <1>3 DEF Gathered
  <2>3. info.epoch <= epoch' BY <1>3 DEF Gathered
  <2> QED BY <2>1, <2>2, <2>3 DEF Gathered
<1> QED BY <1>1, <1>2, <1>4, <1>5

LEMMA EventStep == ListInv /\ EventArrives => ListInv'
<1> SUFFICES ASSUME ListInv, EventArrives PROVE ListInv' OBVIOUS
<1> USE DEF ListInv, EventArrives, ClientUnchanged
<1>1. ListTypeOK' BY DEF ListTypeOK
<1>2. ReadBeforeHolds' BY DEF ReadBeforeHolds
<1>3. SameMoment'
  <2>1. got.snapshot \in Nat /\ revision \in Nat /\ revision' = revision + 1 BY DEF ListTypeOK
  <2>2. got.snapshot <= revision => got.snapshot <= revision' /\ got.snapshot # revision' BY <2>1
  <2> QED BY <2>2 DEF SameMoment
<1>4. Gathered' BY DEF Gathered
<1> QED BY <1>1, <1>2, <1>3, <1>4

LEMMA EditStep == ListInv /\ EditIssued => ListInv'
<1> SUFFICES ASSUME ListInv, EditIssued PROVE ListInv' OBVIOUS
<1> USE DEF ListInv, EditIssued, Changes, ClientUnchanged
<1>1. ListTypeOK'
  <2>1. changes' \in 0 .. MaxSceneChanges BY ListingAssumption DEF ListTypeOK
  <2> QED BY <2>1 DEF ListTypeOK
<1>2. ReadBeforeHolds' BY DEF ReadBeforeHolds
<1>3. SameMoment'
  <2>1. got.snapshot \in Nat /\ revision \in Nat /\ revision' = revision + 1 BY DEF ListTypeOK
  <2>2. got.snapshot <= revision => got.snapshot <= revision' /\ got.snapshot # revision' BY <2>1
  <2> QED BY <2>2 DEF SameMoment
<1>4. Gathered' BY DEF Gathered
<1> QED BY <1>1, <1>2, <1>3, <1>4

LEMMA RequestStep == ListInv /\ ListObjects => ListInv'
<1> SUFFICES ASSUME ListInv, ListObjects PROVE ListInv' OBVIOUS
<1> USE DEF ListInv, ListObjects
<1>1. info'.top = TopOccupied(held) /\ info'.epoch = epoch /\ TopOccupied(held) \in Nat
  BY TopIsNat DEF ListTypeOK
<1>2. ListTypeOK' BY <1>1 DEF ListTypeOK
<1>3. ReadBeforeHolds' BY <1>1 DEF ReadBeforeHolds
<1>4. SameMoment' BY DEF SameMoment
<1>5. Gathered'
  <2>1. info'.epoch <= epoch BY <1>1 DEF ListTypeOK
  <2> QED BY <2>1 DEF Gathered
<1> QED BY <1>2, <1>3, <1>4, <1>5

LEMMA AgainType ==
  LET again == [NoPage EXCEPT !.state = "again"] IN
  /\ again \in [items : Seq(Nat \X Nat), epoch : Nat, snapshot : Nat, next : Nat,
                state : {"none", "more", "all", "again"}]
  /\ again.state = "again" /\ again.epoch = 0
<1>1. <<>> \in Seq(Nat \X Nat) OBVIOUS
<1> QED BY <1>1 DEF NoPage

LEMMA FailStep == ListInv /\ ListFails => ListInv'
<1> SUFFICES ASSUME ListInv, ListFails PROVE ListInv' OBVIOUS
<1> USE DEF ListInv, ListFails, NoInfo
<1>1. ListTypeOK' BY DEF ListTypeOK
<1>2. ReadBeforeHolds' BY DEF ReadBeforeHolds
<1>3. SameMoment' BY DEF SameMoment
<1>4. Gathered' BY DEF Gathered, ListTypeOK
<1> QED BY <1>1, <1>2, <1>3, <1>4

LEMMA MismatchStep == ListInv /\ SnapshotMismatch => ListInv'
<1> SUFFICES ASSUME ListInv, SnapshotMismatch PROVE ListInv' OBVIOUS
<1> USE DEF ListInv, SnapshotMismatch, NoInfo
<1>1. ListTypeOK' BY AgainType DEF ListTypeOK
<1>2. ReadBeforeHolds' BY DEF ReadBeforeHolds
<1>3. SameMoment' BY AgainType DEF SameMoment
<1>4. Gathered' BY AgainType DEF Gathered, ListTypeOK
<1> QED BY <1>1, <1>2, <1>3, <1>4

\* A page: the first one, one that continues, or one after which the client
\* starts again.
LEMMA SectionStep == ListInv /\ ListSection => ListInv'
<1> SUFFICES ASSUME ListInv, ListSection PROVE ListInv' OBVIOUS
<1> USE DEF ListInv
<1> DEFINE items == Listed(held, info.top)
           next == NextOffset(items, got.next)
           page == [items |-> Window(items, got.next), epoch |-> info.epoch,
                    snapshot |-> revision, next |-> next,
                    state |-> IF next = 0 THEN "all" ELSE "more"]
<1>1. /\ info.asked /\ info' = NoInfo /\ got' = Joins(page) /\ moment' = held
      /\ slipped' = (slipped \/ (got.state = "more" /\ undelivered > 0))
      /\ UNCHANGED <<held, shown, epoch, revision, undelivered, changes>>
      /\ got.state = "more" => got.snapshot = revision
  BY DEF ListSection, MatchesSnapshot
<1>2. items \in Seq(Nat \X Nat) /\ got.next \in Nat /\ held \in Timelines /\ moment \in Timelines
  BY ListedType DEF ListTypeOK
<1>3. page.items \in Seq(Nat \X Nat) /\ next \in Nat BY <1>2, WindowType
<1> HIDE DEF items
<1>4. CASE got.state = "none" \/ (page.items # <<>> /\ page.epoch = got.epoch)
  <2>1. got' = [page EXCEPT !.items = got.items \o page.items] BY <1>1, <1>4 DEF Joins
  <2>2. /\ got'.items = got.items \o page.items /\ got'.epoch = info.epoch
        /\ got'.snapshot = revision /\ got'.next = next
        /\ got'.state = (IF next = 0 THEN "all" ELSE "more")
    BY <2>1
  <2>3. got.items \o page.items \in Seq(Nat \X Nat) BY <1>3 DEF ListTypeOK
  <2>4. ListTypeOK'
    <3>1. got' \in [items : Seq(Nat \X Nat), epoch : Nat, snapshot : Nat, next : Nat,
                    state : {"none", "more", "all", "again"}]
      BY <2>1, <2>3, <1>3 DEF ListTypeOK
    <3>2. slipped' \in BOOLEAN BY <1>1
    <3> QED BY <1>1, <3>1, <3>2 DEF ListTypeOK, NoInfo
  <2>5. ReadBeforeHolds' BY <1>1 DEF ReadBeforeHolds, NoInfo
  <2>6. SameMoment' BY <1>1, <2>2 DEF SameMoment, ListTypeOK
  <2>7. info.epoch <= epoch /\ epoch \in Nat BY DEF Gathered, ListTypeOK
  <2>8. CASE slipped' BY <1>1, <2>2, <2>4, <2>5, <2>6, <2>7, <2>8 DEF Gathered, NoInfo
  <2>9. CASE ~slipped'
    <3>1. ~slipped /\ (got.state = "more" => ~(undelivered > 0)) BY <1>1, <2>9
    <3>2. info.top = TopOccupied(held) /\ info.epoch = epoch BY <1>1, <3>1 DEF ReadBeforeHolds
    <3>3. items = held BY <1>2, <3>2, ListedIsAll DEF items
    <3>4. got.next <= Len(held) /\ got.items = SubSeq(held, 1, got.next)
      <4>1. CASE got.state = "none"
        <5>1. got.next = 0 /\ got.items = <<>> BY <4>1 DEF Gathered
        <5>2. held \in Seq(Nat \X Nat) BY <1>2, TimelineType
        <5>3. SubSeq(held, 1, 0) = <<>> /\ 0 <= Len(held) BY <5>2
        <5> QED BY <5>1, <5>3
      <4>2. CASE got.state = "more"
        <5>1. undelivered = 0 BY <3>1, <4>2 DEF ListTypeOK
        <5>2. got.epoch = epoch BY <1>4, <3>2, <4>2
        <5>3. held = moment BY <1>1, <3>1, <4>2, <5>1, <5>2 DEF SameMoment
        <5> QED BY <5>3, <3>1, <4>2 DEF Gathered
      <4> QED BY <4>1, <4>2, <1>1 DEF Gathered
    <3>5. /\ got'.items = SubSeq(held, 1, PageEnd(held, got.next))
          /\ next = 0 => PageEnd(held, got.next) = Len(held)
          /\ next # 0 => next = PageEnd(held, got.next)
          /\ PageEnd(held, got.next) <= Len(held)
      BY <1>2, <2>2, <3>3, <3>4, WindowContinues, TimelineType
    <3>6. SubSeq(held, 1, Len(held)) = held BY <1>2, TimelineType
    <3>7. Gathered'
      <4>1. info'.epoch = 0 /\ info'.asked = FALSE BY <1>1 DEF NoInfo
      <4>2. moment' = held /\ epoch' = epoch BY <1>1
      <4>3. got'.epoch <= epoch' BY <2>2, <2>7, <4>2
      <4>4. CASE next = 0
        <5>1. got'.state = "all" /\ got'.items = moment' BY <4>2, <4>4, <2>2, <3>5, <3>6
        <5> QED BY <4>1, <4>2, <4>3, <5>1, <2>7 DEF Gathered
      <4>5. CASE next # 0
        <5>1. /\ got'.state = "more" /\ got'.next <= Len(moment')
              /\ got'.items = SubSeq(moment', 1, got'.next)
          BY <4>2, <4>5, <2>2, <3>5
        <5> QED BY <4>1, <4>2, <4>3, <5>1, <2>7 DEF Gathered
      <4> QED BY <4>4, <4>5
    <3> QED BY <2>4, <2>5, <2>6, <3>7
  <2> QED BY <2>8, <2>9
<1>5. CASE ~(got.state = "none" \/ (page.items # <<>> /\ page.epoch = got.epoch))
  <2>1. got' = [NoPage EXCEPT !.state = "again"] BY <1>1, <1>5 DEF Joins
  <2>2. slipped' \in BOOLEAN BY <1>1
  <2>3. ListTypeOK' BY <1>1, <2>1, <2>2, AgainType DEF ListTypeOK, NoInfo
  <2>4. ReadBeforeHolds' BY <1>1 DEF ReadBeforeHolds, NoInfo
  <2>5. SameMoment' BY <2>1, AgainType DEF SameMoment
  <2>6. Gathered'
    <3>1. got'.state = "again" /\ got'.epoch = 0 BY <2>1, AgainType
    <3>2. epoch' = epoch /\ epoch \in Nat BY <1>1 DEF ListTypeOK
    <3>3. info'.epoch = 0 /\ info'.asked = FALSE BY <1>1 DEF NoInfo
    <3> QED BY <3>1, <3>2, <3>3 DEF Gathered
  <2> QED BY <2>3, <2>4, <2>5, <2>6
<1> QED BY <1>4, <1>5

LEMMA Inductive == ListInv /\ [ListNext]_listVars => ListInv'
<1> SUFFICES ASSUME ListInv, [ListNext]_listVars PROVE ListInv' OBVIOUS
<1>1. CASE UNCHANGED listVars
  BY <1>1 DEF ListInv, ListTypeOK, ReadBeforeHolds, SameMoment, Gathered, listVars
<1>2. CASE ListNext
  BY <1>2, WindowStep, EventStep, EditStep, LoadStep, RequestStep, SectionStep,
     MismatchStep, FailStep DEF ListNext
<1> QED BY <1>1, <1>2

LEMMA ListInvariant == ListSpec => []ListInv
<1> QED BY InitHolds, Inductive, PTL DEF ListSpec

\* Every variable of a listing keeps its type, for all timelines.
THEOREM ListTypes == ListSpec => []ListTypeOK
<1>1. ListInv => ListTypeOK BY DEF ListInv
<1> QED BY <1>1, ListInvariant, PTL

\* The pages a client joins are those of one moment (take_page).
THEOREM ListPages == ListSpec => []PagesFitTogether
<1>1. ListInv => PagesFitTogether BY DEF ListInv, Gathered, PagesFitTogether
<1> QED BY <1>1, ListInvariant, PTL
-----------------------------------------------------------------------------
(* Lines of an item: functions defined token by token, and sequences proved *)
(* about by the shortest for which a claim would fail.                      *)

\* Of sequences among which the empty one is not, one has a beginning that is not
\* among them.
LEMMA FirstToFail ==
  ASSUME NEW T, NEW B \in SUBSET Seq(T), B # {}, <<>> \notin B
  PROVE  \E l \in Seq(T), c \in T : l \notin B /\ Append(l, c) \in B
<1> DEFINE N == {Len(l) : l \in B}
<1>1. N \in SUBSET Nat /\ N # {}
  <2>1. \A l \in B : Len(l) \in Nat
    BY LenProperties
  <2>2. QED
    BY <2>1
<1>2. PICK n \in N : \A m \in N : n <= m
  <2> HIDE DEF N
  <2> QED BY <1>1, Least
<1>3. PICK long \in B : n = Len(long)
  OBVIOUS
<1>4. long \in Seq(T) /\ long # <<>>
  OBVIOUS
<1>5. PICK l \in Seq(T), c \in T : long = Append(l, c)
  BY <1>4, SequenceEmptyOrAppend
<1>6. Len(l) + 1 = n /\ Len(l) \in Nat
  BY <1>3, <1>5, AppendProperties
<1>7. l \notin B
  <2>1. SUFFICES ASSUME l \in B PROVE FALSE
    OBVIOUS
  <2>2. n <= Len(l)
    BY <1>2, <2>1
  <2>3. QED
    BY <1>6, <2>2
<1>8. QED
  BY <1>5, <1>7

\* A function that is built up in steps.
BuiltBy(f, n, S, base, step) ==
  /\ f \in [0 .. n -> S] /\ f[0] = base
  /\ \A k \in 1 .. n : f[k] = step[<<k, f[k - 1]>>]

\* There is one for every way of going on.
LEMMA Recursion ==
  ASSUME NEW n \in Nat, NEW S, NEW base \in S, NEW step \in [(1 .. n) \X S -> S]
  PROVE  \E f : BuiltBy(f, n, S, base, step)
<1> DEFINE
      Is(f, m) == \A k \in 0 .. m : f[k] = IF k = 0 THEN base ELSE step[<<k, f[k - 1]>>]
      Bad == {m \in 0 .. n : ~ \E f \in [0 .. m -> S] : Is(f, m)}
<1>1. SUFFICES ASSUME Bad # {} PROVE FALSE
  <2>1. n \in 0 .. n
    OBVIOUS
  <2>2. PICK f \in [0 .. n -> S] : Is(f, n)
    BY <1>1, <2>1
  <2>3. f[0] = base
    <3>1. 0 \in 0 .. n
      OBVIOUS
    <3>2. QED
      BY <2>2, <3>1
  <2>4. ASSUME NEW k \in 1 .. n PROVE f[k] = step[<<k, f[k - 1]>>]
    <3>1. k \in 0 .. n /\ k # 0
      OBVIOUS
    <3>2. QED
      BY <2>2, <3>1
  <2>5. QED
    BY <2>2, <2>3, <2>4 DEF BuiltBy
<1>2. PICK m \in Bad : \A j \in Bad : m <= j
  <2>1. Bad \in SUBSET Nat
    OBVIOUS
  <2>2. QED
    BY <1>1, <2>1, Least
<1>3. m # 0
  <2>1. SUFFICES ASSUME m = 0 PROVE FALSE
    OBVIOUS
  <2>2. Is([k \in 0 .. 0 |-> base], 0) /\ [k \in 0 .. 0 |-> base] \in [0 .. 0 -> S]
    OBVIOUS
  <2>3. QED
    BY <2>1, <2>2
<1>4. PICK g \in [0 .. m - 1 -> S] : Is(g, m - 1)
  <2>1. m - 1 \in 0 .. n /\ m - 1 \notin Bad
    BY <1>2, <1>3
  <2>2. QED
    BY <2>1
<1> DEFINE f == [k \in 0 .. m |-> IF k = m THEN step[<<m, g[m - 1]>>] ELSE g[k]]
<1>5. m \in 1 .. n /\ m \in Nat
  BY <1>3
<1>6. step[<<m, g[m - 1]>>] \in S
  <2>1. m - 1 \in 0 .. m - 1
    BY <1>5
  <2>2. QED
    BY <1>5, <2>1
<1>7. f \in [0 .. m -> S]
  BY <1>5, <1>6
<1>8. ASSUME NEW k \in 0 .. m PROVE f[k] = IF k = 0 THEN base ELSE step[<<k, f[k - 1]>>]
  <2>1. CASE k = m
    <3>1. f[k - 1] = g[m - 1]
      BY <1>5, <2>1
    <3>2. f[k] = step[<<m, g[m - 1]>>]
      BY <1>5, <2>1
    <3> HIDE DEF f
    <3>3. k # 0
      BY <1>5, <2>1
    <3>4. QED
      BY <2>1, <3>1, <3>2, <3>3
  <2>2. CASE k # m
    <3>1. k \in 0 .. m - 1 /\ f[k] = g[k]
      BY <1>5, <2>2
    <3>2. k # 0 => f[k - 1] = g[k - 1]
      BY <1>5, <2>2
    <3>3. QED
      BY <1>4, <3>1, <3>2
  <2>3. QED
    BY <2>1, <2>2
<1>9. QED
  BY <1>7, <1>8

-----------------------------------------------------------------------------
(* One sequence after the other.                                           *)

\* FlattenSeq goes on with what is appended.
LEMMA FlattenType ==
  ASSUME NEW T, NEW s \in Seq(Seq(T)), s # <<>>
  PROVE  \E f \in [0 .. Len(s) -> Seq(T)] :
           /\ f[0] = <<>> /\ \A k \in 1 .. Len(s) : f[k] = f[k - 1] \o s[k]
           /\ FlattenSeq(s) = f[Len(s)]
<1> DEFINE n == Len(s)
           step == [x \in (1 .. n) \X Seq(T) |-> x[2] \o s[x[1]]]
<1>1. n \in Nat /\ n >= 1 /\ \A k \in 1 .. n : s[k] \in Seq(T)
  BY LenProperties, ElementOfSeq, EmptySeq
<1>2. /\ step \in [(1 .. n) \X Seq(T) -> Seq(T)]
      /\ \A k \in 1 .. n, x \in Seq(T) : step[<<k, x>>] = x \o s[k]
  <2>1. \A x \in (1 .. n) \X Seq(T) : x[2] \o s[x[1]] \in Seq(T)
    BY <1>1, ConcatProperties
  <2>2. QED
    BY <2>1
<1> HIDE DEF n, step
<1>0. <<>> \in Seq(T)
  OBVIOUS
<1>3. PICK f : BuiltBy(f, n, Seq(T), <<>>, step)
  BY <1>0, <1>1, <1>2, Recursion
<1>4. f[0] = <<>> /\ \A k \in 1 .. n : f[k] = f[k - 1] \o s[k]
  <2>1. ASSUME NEW k \in 1 .. n PROVE f[k] = f[k - 1] \o s[k]
    <3>1. k - 1 \in 0 .. n
      BY <1>1
    <3>2. f[k] = step[<<k, f[k - 1]>>] /\ f[k - 1] \in Seq(T)
      BY <1>3, <3>1 DEF BuiltBy
    <3>3. QED
      BY <1>2, <3>2
  <2>2. QED
    BY <1>3, <2>1 DEF BuiltBy
<1> DEFINE
      Is(g) == g = [i \in 1 .. n |-> IF i = 1 THEN s[i] ELSE g[i - 1] \o s[i]]
      short == [i \in 1 .. n |-> f[i]]
      g == CHOOSE h : Is(h)
<1>5. Is(short)
  <2>1. ASSUME NEW i \in 1 .. n
        PROVE  short[i] = IF i = 1 THEN s[i] ELSE short[i - 1] \o s[i]
    <3>1. CASE i = 1
      <4>1. 1 \in 1 .. n
        BY <1>1
      <4>2. s[1] \in Seq(T)
        BY <1>1, <4>1
      <4>3. f[1] = <<>> \o s[1]
        <5>1. 1 - 1 = 0
          OBVIOUS
        <5>2. f[1] = f[1 - 1] \o s[1]
          BY <1>4, <4>1, Zenon
        <5>3. QED
          BY <1>4, <5>1, <5>2
      <4>4. f[1] = s[1]
        BY <4>2, <4>3, ConcatEmptySeq
      <4>5. QED
        BY <3>1, <4>4
    <3>2. CASE i # 1
      <4>1. i - 1 \in 1 .. n
        BY <1>1, <3>2
      <4>2. QED
        BY <1>4, <3>2, <4>1
    <3>3. QED
      BY <3>1, <3>2
  <2>2. QED
    BY <2>1
<1>6. Is(g)
  BY <1>5
<1>7. FlattenSeq(s) = g[n]
  BY <1>1 DEF FlattenSeq, n
<1> DEFINE Bad == {k \in 1 .. n : g[k] # f[k]}
<1>8. Bad = {}
  <2>1. SUFFICES ASSUME Bad # {} PROVE FALSE
    OBVIOUS
  <2> HIDE DEF g
  <2>2. PICK m \in Bad : \A j \in Bad : m <= j
    <3>1. Bad \in SUBSET Nat
      BY <1>1
    <3>2. QED
      BY <2>1, <3>1, Least
  <2>3. m # 1
    <3>0. 1 \in 1 .. n
      BY <1>1
    <3>1. g[1] = s[1]
      BY <1>6, <3>0
    <3>2. f[1] = s[1]
      BY <1>5, <3>0 DEF short
    <3>3. QED
      BY <2>2, <3>1, <3>2
  <2>4. m - 1 \in 1 .. n /\ m - 1 \notin Bad
    <3>1. m \in 1 .. n /\ m \in Nat
      BY <1>1, <2>2
    <3>2. m - 1 \in 1 .. n /\ ~(m <= m - 1)
      BY <1>1, <2>3, <3>1
    <3>3. QED
      BY <2>2, <3>2
  <2>5. g[m] = g[m - 1] \o s[m]
    BY <1>6, <2>2, <2>3
  <2>6. QED
    BY <1>4, <2>2, <2>4, <2>5
<1>9. QED
  <2>1. n \in 1 .. n
    BY <1>1
  <2>2. g[n] = f[n]
    BY <1>8, <2>1
  <2>3. QED
    BY <1>3, <1>4, <1>7, <2>2 DEF n, BuiltBy

LEMMA FlattenNothing == FlattenSeq(<<>>) = <<>>
BY DEF FlattenSeq

LEMMA FlattenIsSeq ==
  ASSUME NEW T, NEW s \in Seq(Seq(T))
  PROVE  FlattenSeq(s) \in Seq(T)
<1>1. CASE s = <<>>
  <2>1. <<>> \in Seq(T)
    OBVIOUS
  <2>2. QED
    BY <1>1, <2>1, FlattenNothing
<1>2. CASE s # <<>>
  <2>1. PICK f \in [0 .. Len(s) -> Seq(T)] : FlattenSeq(s) = f[Len(s)]
    BY <1>2, FlattenType
  <2>2. Len(s) \in 0 .. Len(s)
    BY LenProperties
  <2>3. QED
    BY <2>1, <2>2
<1>3. QED
  BY <1>1, <1>2

LEMMA FlattenAppend ==
  ASSUME NEW T, NEW s \in Seq(Seq(T)), NEW x \in Seq(T)
  PROVE  FlattenSeq(Append(s, x)) = FlattenSeq(s) \o x
<1> DEFINE t == Append(s, x)
           n == Len(s)
<1>1. t \in Seq(Seq(T)) /\ t # <<>> /\ Len(t) = n + 1 /\ n \in Nat /\ t[n + 1] = x
      /\ \A k \in 1 .. n : t[k] = s[k]
  BY AppendProperties, LenProperties
<1>2. PICK g \in [0 .. Len(t) -> Seq(T)] :
        /\ g[0] = <<>> /\ \A k \in 1 .. Len(t) : g[k] = g[k - 1] \o t[k]
        /\ FlattenSeq(t) = g[Len(t)]
  <2> HIDE DEF t
  <2> QED BY <1>1, FlattenType
<1> HIDE DEF t
<1>3. FlattenSeq(t) = g[n] \o x
  <2>1. PICK k \in 1 .. Len(t) : k = Len(t)
    BY <1>1
  <2>2. g[k] = g[k - 1] \o t[k]
    BY <1>2, <2>1, Zenon
  <2>3. k - 1 = n /\ t[k] = x
    BY <1>1, <2>1
  <2>4. QED
    BY <1>2, <2>1, <2>2, <2>3
<1>4. CASE s = <<>>
  <2>1. n = 0 /\ FlattenSeq(s) = <<>>
    BY <1>4, FlattenNothing
  <2>2. QED
    BY <1>2, <1>3, <2>1 DEF t
<1>5. CASE s # <<>>
  <2>1. PICK f \in [0 .. n -> Seq(T)] :
          /\ f[0] = <<>> /\ \A k \in 1 .. n : f[k] = f[k - 1] \o s[k]
          /\ FlattenSeq(s) = f[n]
    BY <1>5, FlattenType
  <2> DEFINE Bad == {k \in 0 .. n : f[k] # g[k]}
  <2>2. Bad = {}
    <3>1. SUFFICES ASSUME Bad # {} PROVE FALSE
      OBVIOUS
    <3>2. PICK m \in Bad : \A j \in Bad : m <= j
      <4>1. Bad \in SUBSET Nat
        BY <1>1
      <4>2. QED
        BY <3>1, <4>1, Least
    <3>3. m # 0
      BY <1>2, <2>1, <3>2
    <3>4. m \in 1 .. n /\ m \in 1 .. Len(t) /\ m - 1 \in 0 .. n /\ m - 1 \notin Bad
      <4>1. m \in Nat /\ m <= n
        BY <1>1, <3>2
      <4>2. m - 1 \in 0 .. n /\ ~(m <= m - 1)
        BY <1>1, <3>3, <4>1
      <4>3. m - 1 \notin Bad
        BY <3>2, <4>2
      <4>4. QED
        BY <1>1, <3>3, <4>1, <4>2, <4>3
    <3>5. QED
      BY <1>1, <1>2, <2>1, <3>2, <3>4
  <2>3. f[n] = g[n]
    <3>1. n \in 0 .. n
      BY <1>1
    <3>2. QED
      BY <2>2, <3>1
  <2>4. QED
    BY <1>3, <2>1, <2>3 DEF t
<1>6. QED
  BY <1>4, <1>5

\* What the elements of a sequence make, one after the other.
Pieces(s, piece) == FlattenSeq([k \in DOMAIN s |-> piece[s[k]]])

LEMMA MapIsSeq ==
  ASSUME NEW A, NEW U, NEW s \in Seq(A), NEW piece \in [A -> U]
  PROVE  /\ [k \in DOMAIN s |-> piece[s[k]]] \in Seq(U)
         /\ Len([k \in DOMAIN s |-> piece[s[k]]]) = Len(s)
<1> DEFINE m == [k \in 1 .. Len(s) |-> piece[s[k]]]
<1>1. Len(s) \in Nat /\ DOMAIN s = 1 .. Len(s) /\ \A k \in 1 .. Len(s) : s[k] \in A
  BY LenProperties, ElementOfSeq
<1>2. m \in [1 .. Len(s) -> U]
  BY <1>1
<1>3. m \in Seq(U)
  <2> HIDE DEF m
  <2> QED BY <1>1, <1>2, IsASeq
<1>4. Len(m) = Len(s)
  <2>1. DOMAIN m = 1 .. Len(s)
    OBVIOUS
  <2> HIDE DEF m
  <2>2. DOMAIN m = 1 .. Len(m) /\ Len(m) \in Nat
    BY <1>3, LenProperties
  <2>3. QED
    BY <1>1, <2>1, <2>2
<1>5. QED
  BY <1>1, <1>3, <1>4

LEMMA MapAppend ==
  ASSUME NEW A, NEW U, NEW s \in Seq(A), NEW x \in A, NEW piece \in [A -> U]
  PROVE  [k \in DOMAIN Append(s, x) |-> piece[Append(s, x)[k]]]
           = Append([k \in DOMAIN s |-> piece[s[k]]], piece[x])
<1> DEFINE t == Append(s, x)
           one == [k \in DOMAIN t |-> piece[t[k]]]
           start == [k \in DOMAIN s |-> piece[s[k]]]
           other == Append(start, piece[x])
<1>1. /\ t \in Seq(A) /\ Len(t) = Len(s) + 1 /\ Len(s) \in Nat /\ t[Len(s) + 1] = x
      /\ \A k \in 1 .. Len(s) : t[k] = s[k]
      /\ DOMAIN s = 1 .. Len(s) /\ DOMAIN t = 1 .. Len(t)
  BY AppendProperties, LenProperties
<1>2. one \in Seq(U) /\ Len(one) = Len(s) + 1 /\ start \in Seq(U) /\ Len(start) = Len(s)
  <2> HIDE DEF t
  <2> QED BY <1>1, MapIsSeq
<1>3. piece[x] \in U
  OBVIOUS
<1> HIDE DEF t
<1>4. /\ \A k \in 1 .. Len(s) : one[k] = piece[s[k]] /\ start[k] = piece[s[k]]
      /\ one[Len(s) + 1] = piece[x]
  BY <1>1
<1> HIDE DEF one, start
<1>5. /\ other \in Seq(U) /\ Len(other) = Len(s) + 1 /\ other[Len(s) + 1] = piece[x]
      /\ \A k \in 1 .. Len(s) : other[k] = start[k]
  BY <1>2, <1>3, AppendProperties
<1> HIDE DEF other
<1>6. \A k \in 1 .. Len(one) : one[k] = other[k]
  BY <1>1, <1>2, <1>4, <1>5
<1>7. one = other
  BY <1>2, <1>5, <1>6, SeqEqual
<1>8. QED
  BY <1>7 DEF one, other, start, t

LEMMA SpreadNothing ==
  ASSUME NEW piece
  PROVE  Pieces(<<>>, piece) = <<>>
<1>1. [k \in DOMAIN <<>> |-> piece[<<>>[k]]] = <<>>
  OBVIOUS
<1>2. QED
  BY <1>1, FlattenNothing DEF Pieces

LEMMA SpreadIsSeq ==
  ASSUME NEW A, NEW T, NEW s \in Seq(A), NEW piece \in [A -> Seq(T)]
  PROVE  Pieces(s, piece) \in Seq(T)
<1>1. [k \in DOMAIN s |-> piece[s[k]]] \in Seq(Seq(T))
  BY MapIsSeq
<1>2. QED
  BY <1>1, FlattenIsSeq DEF Pieces

LEMMA SpreadAppend ==
  ASSUME NEW A, NEW T, NEW s \in Seq(A), NEW x \in A, NEW piece \in [A -> Seq(T)]
  PROVE  Pieces(Append(s, x), piece) = Pieces(s, piece) \o piece[x]
<1>1. [k \in DOMAIN Append(s, x) |-> piece[Append(s, x)[k]]]
        = Append([k \in DOMAIN s |-> piece[s[k]]], piece[x])
  BY MapAppend
<1>2. [k \in DOMAIN s |-> piece[s[k]]] \in Seq(Seq(T)) /\ piece[x] \in Seq(T)
  BY MapIsSeq
<1>3. QED
  BY <1>1, <1>2, FlattenAppend DEF Pieces

-----------------------------------------------------------------------------
(* What is made of a line token by token.                                  *)

GoTogether(f, g, n) == f[0] = g[0] /\ \A k \in 1 .. n : f[k - 1] = g[k - 1] => f[k] = g[k]

LEMMA AgreeStepwise ==
  ASSUME NEW n \in Nat, NEW f, NEW g, GoTogether(f, g, n)
  PROVE  \A k \in 0 .. n : f[k] = g[k]
<1> DEFINE Bad == {k \in 0 .. n : f[k] # g[k]}
<1>1. SUFFICES ASSUME Bad # {} PROVE FALSE
  OBVIOUS
<1>2. PICK j \in Bad : \A k \in Bad : j <= k
  <2>1. Bad \in SUBSET Nat
    OBVIOUS
  <2>2. QED
    BY <1>1, <2>1, Least
<1>3. j \in 1 .. n /\ j - 1 \in 0 .. n /\ ~(j <= j - 1)
  <2>1. j \in 0 .. n /\ j # 0
    BY <1>2 DEF GoTogether
  <2>2. QED
    BY <2>1
<1>4. f[j - 1] = g[j - 1]
  BY <1>2, <1>3
<1>5. QED
  BY <1>2, <1>3, <1>4 DEF GoTogether

Feeds(f, line, S, base, feed) ==
  /\ f \in [0 .. Len(line) -> S] /\ f[0] = base
  /\ \A k \in 1 .. Len(line) : f[k] = feed[<<f[k - 1], line[k]>>]

LEMMA FeedExists ==
  ASSUME NEW T, NEW S, NEW base \in S, NEW feed \in [S \X T -> S], NEW line \in Seq(T)
  PROVE  \E f : Feeds(f, line, S, base, feed)
<1> DEFINE n == Len(line)
           step == [x \in (1 .. n) \X S |-> feed[<<x[2], line[x[1]]>>]]
<1>1. n \in Nat /\ \A k \in 1 .. n : line[k] \in T
  BY LenProperties, ElementOfSeq
<1>2. /\ step \in [(1 .. n) \X S -> S]
      /\ \A k \in 1 .. n, x \in S : step[<<k, x>>] = feed[<<x, line[k]>>]
  BY <1>1
<1> HIDE DEF n, step
<1>3. PICK f : BuiltBy(f, n, S, base, step)
  BY <1>1, <1>2, Recursion
<1>4. ASSUME NEW k \in 1 .. n PROVE f[k] = feed[<<f[k - 1], line[k]>>]
  <2>1. k - 1 \in 0 .. n
    BY <1>1
  <2>2. f[k] = step[<<k, f[k - 1]>>] /\ f[k - 1] \in S
    BY <1>3, <2>1 DEF BuiltBy
  <2>3. QED
    BY <1>2, <2>2
<1>5. QED
  BY <1>3, <1>4 DEF Feeds, BuiltBy, n

LEMMA FeedAppend ==
  ASSUME NEW T, NEW S, NEW base, NEW feed, NEW line \in Seq(T), NEW c \in T, NEW f, NEW g,
         Feeds(f, line, S, base, feed), Feeds(g, Append(line, c), S, base, feed)
  PROVE  /\ \A k \in 0 .. Len(line) : g[k] = f[k]
         /\ g[Len(line) + 1] = feed[<<f[Len(line)], c>>]
<1> DEFINE n == Len(line)
           long == Append(line, c)
<1>1. /\ n \in Nat /\ Len(long) = n + 1 /\ long[n + 1] = c
      /\ \A k \in 1 .. n : long[k] = line[k]
  BY AppendProperties, LenProperties
<1>2. /\ f[0] = g[0] /\ \A k \in 1 .. n : f[k] = feed[<<f[k - 1], line[k]>>]
      /\ \A k \in 1 .. Len(long) : g[k] = feed[<<g[k - 1], long[k]>>]
  BY DEF Feeds
<1> HIDE DEF n, long
<1>3. \A k \in 1 .. n : k \in 1 .. Len(long)
  BY <1>1
<1>4. GoTogether(f, g, n)
  BY <1>1, <1>2, <1>3, Zenon DEF GoTogether
<1>5. \A k \in 0 .. n : f[k] = g[k]
  BY <1>1, <1>4, AgreeStepwise
<1>6. g[n + 1] = feed[<<f[n], c>>]
  <2>1. PICK k \in 1 .. Len(long) : k = n + 1
    BY <1>1
  <2>2. g[k] = feed[<<g[k - 1], long[k]>>]
    BY <1>2, Zenon
  <2>3. k - 1 = n /\ n \in 0 .. n
    BY <1>1, <2>1
  <2>4. QED
    BY <1>1, <1>5, <2>1, <2>2, <2>3
<1>7. QED
  BY <1>5, <1>6 DEF n, long

-----------------------------------------------------------------------------
(* The escapes of a text.                                                  *)

LEMMA SomeTokens ==
  /\ {",", "|", "\\", "n", "LF", "CR"} \subseteq Tokens
  /\ \A n \in Numbers : Numeral[n] \in Tokens \ {",", "|", "\\", "n", "LF", "CR"}
BY SpellingAssumption DEF Controls, Numerals

EscapePiece ==
  [c \in Tokens |-> CASE c = "\\" -> <<"\\", "\\">> [] c = "LF" -> <<"\\", "n">> [] OTHER -> <<c>>]

LEMMA EscapedIs ==
  ASSUME NEW text \in Lines
  PROVE  Escaped(text) = Pieces(text, EscapePiece)
<1>1. \A p \in DOMAIN text : text[p] \in Tokens
  BY ElementOfSeq, LenProperties DEF Lines
<1>2. [p \in DOMAIN text |-> CASE text[p] = "\\" -> <<"\\", "\\">>
                               [] text[p] = "LF" -> <<"\\", "n">>
                               [] OTHER -> <<text[p]>>]
        = [p \in DOMAIN text |-> EscapePiece[text[p]]]
  BY <1>1 DEF EscapePiece
<1>3. QED
  BY <1>2 DEF Escaped, Pieces

LEMMA EscapePieceType == EscapePiece \in [Tokens -> Lines]
<1>1. ASSUME NEW c \in Tokens PROVE EscapePiece[c] \in Lines
  <2>1. "\\" \in Tokens /\ "n" \in Tokens
    BY SomeTokens
  <2>2. <<"\\", "\\">> \in Lines
    BY <2>1 DEF Lines
  <2>3. <<"\\", "n">> \in Lines
    BY <2>1 DEF Lines
  <2>4. <<c>> \in Lines
    BY DEF Lines
  <2>5. QED
    BY <2>2, <2>3, <2>4 DEF EscapePiece
<1>2. QED
  BY <1>1 DEF EscapePiece

LEMMA EscapedAppend ==
  ASSUME NEW text \in Lines, NEW c \in Tokens
  PROVE  /\ Escaped(<<>>) = <<>> /\ Escaped(text) \in Lines
         /\ Escaped(Append(text, c)) = Escaped(text) \o EscapePiece[c]
<1>1. <<>> \in Lines /\ Append(text, c) \in Lines
  BY DEF Lines
<1>2. Escaped(<<>>) = <<>>
  BY <1>1, EscapedIs, SpreadNothing
<1>3. Escaped(text) \in Lines
  BY EscapedIs, EscapePieceType, SpreadIsSeq DEF Lines
<1>4. Escaped(Append(text, c)) = Escaped(text) \o EscapePiece[c]
  <2>1. Pieces(Append(text, c), EscapePiece) = Pieces(text, EscapePiece) \o EscapePiece[c]
    <3>1. text \in Seq(Tokens) /\ EscapePiece \in [Tokens -> Seq(Tokens)]
      BY EscapePieceType DEF Lines
    <3>2. QED
      BY <3>1, SpreadAppend
  <2>2. QED
    BY <1>1, <2>1, EscapedIs
<1>5. QED
  BY <1>2, <1>3, <1>4

\* By twos.
LEMMA PairAppend ==
  ASSUME NEW T, NEW s \in Seq(T), NEW a \in T, NEW b \in T
  PROVE  s \o <<a, b>> = Append(Append(s, a), b) /\ s \o <<a>> = Append(s, a)
BY AppendProperties, ConcatProperties

ReadSoFar(line) ==
  CHOOSE f : f = [n \in 0 .. Len(line) |->
    IF n = 0 THEN [open |-> FALSE, text |-> <<>>] ELSE ReadOn(f[n - 1], line[n])]
LastRead(line) == ReadSoFar(line)[Len(line)]
Sofar == [open : BOOLEAN, text : Lines]
Nothing == [open |-> FALSE, text |-> <<>>]
ReadFeed == [x \in Sofar \X Tokens |-> ReadOn(x[1], x[2])]

LEMMA ReadFeedType == ReadFeed \in [Sofar \X Tokens -> Sofar] /\ Nothing \in Sofar
<1>1. ASSUME NEW sofar \in Sofar, NEW token \in Tokens PROVE ReadOn(sofar, token) \in Sofar
  <2>1. sofar.text \in Seq(Tokens) /\ sofar.open \in BOOLEAN
        /\ sofar = [open |-> sofar.open, text |-> sofar.text]
    BY DEF Sofar, Lines
  <2>2. "\\" \in Tokens /\ "LF" \in Tokens
    BY SomeTokens
  <2>3. CASE sofar.open
    <3> DEFINE more == CASE token = "\\" -> <<"\\">> [] token = "n" -> <<"LF">>
                         [] OTHER -> <<"\\", token>>
    <3>1. more \in Seq(Tokens)
      <4>1. <<"\\">> \in Seq(Tokens)
        BY <2>2
      <4>2. <<"LF">> \in Seq(Tokens)
        BY <2>2
      <4>3. <<"\\", token>> \in Seq(Tokens)
        BY <2>2
      <4>4. QED
        BY <4>1, <4>2, <4>3
    <3>2. ReadOn(sofar, token) = [open |-> FALSE, text |-> sofar.text \o more]
      BY <2>3 DEF ReadOn
    <3> HIDE DEF more
    <3>3. sofar.text \o more \in Seq(Tokens)
      BY <2>1, <3>1, ConcatProperties
    <3>4. QED
      BY <3>2, <3>3 DEF Sofar, Lines
  <2>4. CASE ~sofar.open
    <3>1. Append(sofar.text, token) \in Seq(Tokens)
      BY <2>1
    <3>2. QED
      BY <2>1, <2>4, <3>1 DEF ReadOn, Sofar, Lines
  <2>5. QED
    BY <2>3, <2>4
<1>2. QED
  BY <1>1 DEF ReadFeed, Nothing, Sofar, Lines

LEMMA ReadSoFarIs ==
  ASSUME NEW line \in Lines
  PROVE  Feeds(ReadSoFar(line), line, Sofar, Nothing, ReadFeed)
<1> DEFINE Is(f) == f = [n \in 0 .. Len(line) |->
             IF n = 0 THEN [open |-> FALSE, text |-> <<>>] ELSE ReadOn(f[n - 1], line[n])]
           g == ReadSoFar(line)
<1>1. PICK f : Feeds(f, line, Sofar, Nothing, ReadFeed)
  BY ReadFeedType, FeedExists DEF Lines
<1>2. Len(line) \in Nat /\ \A k \in 1 .. Len(line) : line[k] \in Tokens
  BY LenProperties, ElementOfSeq DEF Lines
<1>3. ASSUME NEW k \in 1 .. Len(line)
      PROVE  f[k] = ReadOn(f[k - 1], line[k]) /\ f[k - 1] \in Sofar
  <2>1. k - 1 \in 0 .. Len(line)
    BY <1>2
  <2>2. f[k - 1] \in Sofar /\ f[k] = ReadFeed[<<f[k - 1], line[k]>>]
    BY <1>1, <2>1 DEF Feeds
  <2>3. QED
    BY <1>2, <2>2 DEF ReadFeed
<1>4. Is(f)
  <2>1. f = [n \in 0 .. Len(line) |-> f[n]]
    BY <1>1 DEF Feeds
  <2>2. \A n \in 0 .. Len(line) :
          f[n] = IF n = 0 THEN [open |-> FALSE, text |-> <<>>] ELSE ReadOn(f[n - 1], line[n])
    BY <1>1, <1>2, <1>3 DEF Feeds, Nothing
  <2>3. QED
    BY <2>1, <2>2, Zenon
<1>5. Is(g)
  BY <1>4 DEF ReadSoFar
<1> HIDE DEF g
<1>6. GoTogether(f, g, Len(line))
  <2>1. f[0] = g[0]
    BY <1>1, <1>2, <1>5 DEF Feeds, Nothing
  <2>2. ASSUME NEW k \in 1 .. Len(line) PROVE g[k] = ReadOn(g[k - 1], line[k])
    <3>1. k \in 0 .. Len(line) /\ k # 0
      BY <1>2
    <3>2. QED
      BY <1>5, <3>1
  <2>3. QED
    BY <1>3, <2>1, <2>2 DEF GoTogether
<1>7. \A k \in 0 .. Len(line) : f[k] = g[k]
  BY <1>2, <1>6, AgreeStepwise
<1>8. f = g
  BY <1>1, <1>5, <1>7 DEF Feeds
<1>9. QED
  BY <1>1, <1>8 DEF g

LEMMA LastReadAppend ==
  ASSUME NEW line \in Lines, NEW c \in Tokens
  PROVE  /\ LastRead(<<>>) = Nothing /\ LastRead(line) \in Sofar
         /\ LastRead(Append(line, c)) = ReadOn(LastRead(line), c)
<1>1. <<>> \in Lines /\ Append(line, c) \in Lines /\ line \in Seq(Tokens)
  BY DEF Lines
<1>2. /\ Feeds(ReadSoFar(line), line, Sofar, Nothing, ReadFeed)
      /\ Feeds(ReadSoFar(Append(line, c)), Append(line, c), Sofar, Nothing, ReadFeed)
      /\ Feeds(ReadSoFar(<<>>), <<>>, Sofar, Nothing, ReadFeed)
  BY <1>1, ReadSoFarIs
<1>3. LastRead(<<>>) = Nothing
  BY <1>2 DEF Feeds, LastRead
<1>4. LastRead(line) \in Sofar
  <2>1. Len(line) \in 0 .. Len(line)
    BY <1>1, LenProperties
  <2>2. QED
    BY <1>2, <2>1 DEF Feeds, LastRead
<1>5. ReadSoFar(Append(line, c))[Len(line) + 1] = ReadFeed[<<ReadSoFar(line)[Len(line)], c>>]
  BY <1>1, <1>2, FeedAppend
<1>6. Len(Append(line, c)) = Len(line) + 1
  BY <1>1, AppendProperties
<1>7. QED
  BY <1>3, <1>4, <1>5, <1>6 DEF LastRead, ReadFeed

\* What is escaped and read again is the text.
LEMMA UnescapedIs ==
  ASSUME NEW line \in Lines
  PROVE  Unescaped(line) = LET last == LastRead(line)
                           IN IF last.open THEN Append(last.text, "\\") ELSE last.text
BY DEF Unescaped, LastRead, ReadSoFar

LEMMA UnescapedIsLine ==
  ASSUME NEW line \in Lines
  PROVE  Unescaped(line) \in Lines
<1>1. LastRead(line) \in Sofar
  <2>1. \E c : c \in Tokens
    BY SomeTokens
  <2>2. QED
    BY <2>1, LastReadAppend
<1>2. "\\" \in Tokens
  BY SomeTokens
<1>3. LastRead(line).text \in Seq(Tokens)
  BY <1>1 DEF Sofar, Lines
<1>4. Append(LastRead(line).text, "\\") \in Seq(Tokens)
  BY <1>2, <1>3
<1>5. QED
  BY <1>3, <1>4, UnescapedIs DEF Lines

\* What the plugin escapes it reads again as it was, for all texts: backslashes and
\* ends of lines in any order (encode_host_text, decode_host_text).
THEOREM EscapedIsReadBack ==
  ASSUME NEW text \in Lines
  PROVE  Unescaped(Escaped(text)) = text
<1> DEFINE Whole(t) == LastRead(Escaped(t)) = [open |-> FALSE, text |-> t]
           B == {t \in Lines : ~Whole(t)}
<1>0. PICK some : some \in Tokens
  BY SomeTokens
<1>1. <<>> \notin B
  <2>1. Escaped(<<>>) = <<>> /\ LastRead(<<>>) = Nothing
    BY <1>0, EscapedAppend, LastReadAppend DEF Lines
  <2>2. QED
    BY <2>1 DEF Nothing
<1>2. ASSUME NEW t \in Seq(Tokens), NEW c \in Tokens, Whole(t) PROVE Whole(Append(t, c))
  <2> DEFINE e == Escaped(t)
  <2>1. /\ e \in Lines /\ t \in Lines /\ e \in Seq(Tokens)
        /\ Escaped(Append(t, c)) = e \o EscapePiece[c]
    BY EscapedAppend DEF Lines
  <2>2. LastRead(e) = [open |-> FALSE, text |-> t]
    BY <1>2
  <2> HIDE DEF e
  <2>3. "\\" \in Tokens /\ "n" \in Tokens
    BY SomeTokens
  <2>4. ASSUME NEW a \in Tokens, NEW b \in Tokens, EscapePiece[c] = <<a, b>>
        PROVE  LastRead(Escaped(Append(t, c))) = ReadOn(ReadOn(LastRead(e), a), b)
    <3>1. Escaped(Append(t, c)) = Append(Append(e, a), b)
      BY <2>1, <2>4, PairAppend
    <3>2. Append(e, a) \in Lines
      BY <2>1 DEF Lines
    <3>3. QED
      BY <2>1, <3>1, <3>2, LastReadAppend
  <2>5. CASE c = "\\"
    <3>1. EscapePiece[c] = <<"\\", "\\">>
      BY <2>5 DEF EscapePiece
    <3>2. LastRead(Escaped(Append(t, c))) = ReadOn(ReadOn(LastRead(e), "\\"), "\\")
      BY <2>3, <2>4, <3>1
    <3>3. QED
      BY <2>2, <2>5, <3>2, PairAppend DEF ReadOn
  <2>6. CASE c = "LF"
    <3>1. EscapePiece[c] = <<"\\", "n">>
      BY <2>6 DEF EscapePiece
    <3>2. LastRead(Escaped(Append(t, c))) = ReadOn(ReadOn(LastRead(e), "\\"), "n")
      BY <2>3, <2>4, <3>1
    <3>3. QED
      BY <2>2, <2>6, <3>2, PairAppend DEF ReadOn
  <2>7. CASE c \notin {"\\", "LF"}
    <3>1. EscapePiece[c] = <<c>>
      BY <2>7 DEF EscapePiece
    <3>2. Escaped(Append(t, c)) = Append(e, c)
      BY <2>1, <3>1, PairAppend
    <3>3. LastRead(Escaped(Append(t, c))) = ReadOn(LastRead(e), c)
      BY <2>1, <3>2, LastReadAppend
    <3>4. ReadOn([open |-> FALSE, text |-> t], c) = [open |-> FALSE, text |-> Append(t, c)]
      <4>1. c # "\\"
        BY <2>7
      <4>2. QED
        BY <4>1 DEF ReadOn
    <3>5. QED
      BY <2>2, <3>3, <3>4
  <2>8. QED
    BY <2>5, <2>6, <2>7
<1>3. B = {}
  <2>1. SUFFICES ASSUME B # {} PROVE FALSE
    OBVIOUS
  <2>2. B \in SUBSET Seq(Tokens)
    BY DEF Lines
  <2> HIDE DEF B
  <2>3. PICK t \in Seq(Tokens), c \in Tokens : t \notin B /\ Append(t, c) \in B
    BY <1>1, <2>1, <2>2, FirstToFail
  <2>4. QED
    BY <1>2, <2>3 DEF B, Lines
<1>4. Whole(text)
  BY <1>3
<1>5. Escaped(text) \in Lines
  BY <1>0, EscapedAppend
<1>6. QED
  BY <1>4, <1>5, UnescapedIs

\* The backslashes before each place.
RunFeed == [x \in Nat \X Tokens |-> IF x[2] = "\\" THEN x[1] + 1 ELSE 0]

LEMMA BackslashesAre ==
  ASSUME NEW line \in Lines
  PROVE  Feeds(Backslashes(line), line, Nat, 0, RunFeed)
<1> DEFINE Is(f) == f = [p \in 0 .. Len(line) |->
             IF p = 0 THEN 0 ELSE IF line[p] = "\\" THEN f[p - 1] + 1 ELSE 0]
           g == Backslashes(line)
<1>0. RunFeed \in [Nat \X Tokens -> Nat] /\ 0 \in Nat
  BY DEF RunFeed
<1>1. PICK f : Feeds(f, line, Nat, 0, RunFeed)
  BY <1>0, FeedExists DEF Lines
<1>2. Len(line) \in Nat /\ \A k \in 1 .. Len(line) : line[k] \in Tokens
  BY LenProperties, ElementOfSeq DEF Lines
<1>3. ASSUME NEW k \in 1 .. Len(line)
      PROVE  f[k] = IF line[k] = "\\" THEN f[k - 1] + 1 ELSE 0
  <2>1. k - 1 \in 0 .. Len(line)
    BY <1>2
  <2>2. f[k - 1] \in Nat /\ f[k] = RunFeed[<<f[k - 1], line[k]>>]
    BY <1>1, <2>1 DEF Feeds
  <2>3. QED
    BY <1>2, <2>2 DEF RunFeed
<1>4. Is(f)
  <2>1. f = [n \in 0 .. Len(line) |-> f[n]]
    BY <1>1 DEF Feeds
  <2>2. ASSUME NEW n \in 0 .. Len(line)
        PROVE  f[n] = IF n = 0 THEN 0 ELSE IF line[n] = "\\" THEN f[n - 1] + 1 ELSE 0
    <3>1. n = 0 \/ n \in 1 .. Len(line)
      BY <1>2
    <3>2. QED
      BY <1>1, <1>3, <3>1 DEF Feeds
  <2>3. QED
    BY <2>1, <2>2, Zenon
<1>5. Is(g)
  BY <1>4 DEF Backslashes
<1> HIDE DEF g
<1>6. GoTogether(f, g, Len(line))
  <2>1. f[0] = g[0]
    BY <1>1, <1>2, <1>5 DEF Feeds
  <2>2. ASSUME NEW k \in 1 .. Len(line)
        PROVE  g[k] = IF line[k] = "\\" THEN g[k - 1] + 1 ELSE 0
    <3>1. k \in 0 .. Len(line) /\ k # 0
      BY <1>2
    <3>2. QED
      BY <1>5, <3>1
  <2>3. QED
    BY <1>3, <2>1, <2>2 DEF GoTogether
<1>7. \A k \in 0 .. Len(line) : f[k] = g[k]
  BY <1>2, <1>6, AgreeStepwise
<1>8. f = g
  BY <1>1, <1>5, <1>7 DEF Feeds
<1>9. QED
  BY <1>1, <1>8 DEF g

LEMMA BackslashesAppend ==
  ASSUME NEW line \in Lines, NEW c \in Tokens
  PROVE  /\ \A p \in 0 .. Len(line) : Backslashes(line)[p] \in Nat
         /\ \A p \in 0 .. Len(line) : Backslashes(Append(line, c))[p] = Backslashes(line)[p]
         /\ Backslashes(Append(line, c))[Len(line) + 1]
              = IF c = "\\" THEN Backslashes(line)[Len(line)] + 1 ELSE 0
         /\ Backslashes(<<>>)[0] = 0
<1>1. <<>> \in Lines /\ Append(line, c) \in Lines /\ line \in Seq(Tokens)
  BY DEF Lines
<1>2. /\ Feeds(Backslashes(line), line, Nat, 0, RunFeed)
      /\ Feeds(Backslashes(Append(line, c)), Append(line, c), Nat, 0, RunFeed)
      /\ Feeds(Backslashes(<<>>), <<>>, Nat, 0, RunFeed)
  BY <1>1, BackslashesAre
<1>3. /\ \A p \in 0 .. Len(line) : Backslashes(Append(line, c))[p] = Backslashes(line)[p]
      /\ Backslashes(Append(line, c))[Len(line) + 1]
           = RunFeed[<<Backslashes(line)[Len(line)], c>>]
  BY <1>1, <1>2, FeedAppend
<1>4. \A p \in 0 .. Len(line) : Backslashes(line)[p] \in Nat
  BY <1>2 DEF Feeds
<1>5. Len(line) \in 0 .. Len(line)
  BY <1>1, LenProperties
<1>6. RunFeed[<<Backslashes(line)[Len(line)], c>>]
        = IF c = "\\" THEN Backslashes(line)[Len(line)] + 1 ELSE 0
  BY <1>4, <1>5 DEF RunFeed
<1>7. Backslashes(<<>>)[0] = 0
  BY <1>2 DEF Feeds
<1>8. QED
  BY <1>3, <1>4, <1>6, <1>7

\* What the host reads at one place of a line.
HostPiece(line, p) ==
  CASE line[p] = "\\" /\ ~Odd(line, p) /\ p < Len(line) /\ line[p + 1] \in {"\\", "n"} -> <<>>
    [] line[p] = "n" /\ Odd(line, p) -> <<"LF">>
    [] OTHER -> <<line[p]>>
HostPieces(line) == [p \in DOMAIN line |-> HostPiece(line, p)]

LEMMA HostPiecesType ==
  ASSUME NEW line \in Lines
  PROVE  HostPieces(line) \in Seq(Lines) /\ Len(HostPieces(line)) = Len(line)
<1> DEFINE m == HostPieces(line)
<1>1. Len(line) \in Nat /\ DOMAIN line = 1 .. Len(line)
      /\ \A k \in 1 .. Len(line) : line[k] \in Tokens
  BY LenProperties, ElementOfSeq DEF Lines
<1>2. ASSUME NEW p \in 1 .. Len(line) PROVE HostPiece(line, p) \in Lines
  <2>1. line[p] \in Tokens /\ "LF" \in Tokens
    BY <1>1, SomeTokens
  <2>2. <<>> \in Lines /\ <<"LF">> \in Lines /\ <<line[p]>> \in Lines
    BY <2>1 DEF Lines
  <2>3. QED
    BY <2>2 DEF HostPiece
<1>3. m \in [1 .. Len(line) -> Lines] /\ DOMAIN m = 1 .. Len(line)
  BY <1>1, <1>2 DEF HostPieces
<1> HIDE DEF m
<1>4. m \in Seq(Lines)
  BY <1>1, <1>3, IsASeq
<1>5. Len(m) = Len(line)
  BY <1>1, <1>3, <1>4, LenProperties
<1>6. QED
  BY <1>4, <1>5 DEF m

LEMMA HostUnescapesIs ==
  ASSUME NEW line
  PROVE  HostUnescapes(line) = FlattenSeq(HostPieces(line))
BY DEF HostUnescapes, HostPieces, HostPiece

\* No backslash at the end is left without what it escapes.
EvenEnd(line) == Backslashes(line)[Len(line)] % 2 = 0

LEMMA PiecesStay ==
  ASSUME NEW line \in Lines, EvenEnd(line), NEW long \in Lines, Len(line) <= Len(long),
         \A p \in 1 .. Len(line) : long[p] = line[p],
         \A p \in 0 .. Len(line) : Backslashes(long)[p] = Backslashes(line)[p]
  PROVE  \A p \in 1 .. Len(line) : HostPiece(long, p) = HostPiece(line, p)
<1>1. Len(line) \in Nat /\ Len(long) \in Nat
  BY LenProperties DEF Lines
<1>2. TAKE p \in 1 .. Len(line)
<1>3. /\ long[p] = line[p] /\ p - 1 \in 0 .. Len(line) /\ p \in Nat
      /\ (Odd(long, p) <=> Odd(line, p))
  BY <1>1 DEF Odd
<1>4. CASE p < Len(line)
  <2>1. p + 1 \in 1 .. Len(line) /\ p < Len(long)
    BY <1>1, <1>4
  <2>2. long[p + 1] = line[p + 1]
    BY <2>1
  <2>3. QED
    BY <1>3, <1>4, <2>1, <2>2 DEF HostPiece
<1>5. CASE p = Len(line)
  <2>1. line[p] = "\\" => Odd(line, p)
    <3>1. SUFFICES ASSUME line[p] = "\\" PROVE Odd(line, p)
      OBVIOUS
    <3>2. Feeds(Backslashes(line), line, Nat, 0, RunFeed)
      BY BackslashesAre
    <3>3. Backslashes(line)[p] = RunFeed[<<Backslashes(line)[p - 1], line[p]>>]
      BY <3>2 DEF Feeds
    <3>4. Backslashes(line)[p - 1] \in Nat /\ line[p] \in Tokens
      BY <1>3, <3>1, <3>2, SomeTokens DEF Feeds
    <3>5. Backslashes(line)[p] = Backslashes(line)[p - 1] + 1
      BY <3>1, <3>3, <3>4 DEF RunFeed
    <3>6. Backslashes(line)[p] % 2 = 0
      BY <1>5 DEF EvenEnd
    <3>7. \A run \in Nat : (run + 1) % 2 = 0 => run % 2 = 1
      OBVIOUS
    <3>8. Backslashes(line)[p - 1] % 2 = 1
      BY <3>4, <3>5, <3>6, <3>7, Zenon
    <3>9. QED
      BY <3>8 DEF Odd
  <2>2. QED
    BY <1>3, <2>1 DEF HostPiece
<1>6. QED
  BY <1>1, <1>4, <1>5

LEMMA HostReadsToken ==
  ASSUME NEW line \in Lines, EvenEnd(line), NEW c \in Tokens, c # "\\"
  PROVE  /\ HostUnescapes(Append(line, c)) = HostUnescapes(line) \o <<c>>
         /\ EvenEnd(Append(line, c))
<1> DEFINE long == Append(line, c)
           n == Len(line)
<1>1. /\ long \in Lines /\ Len(long) = n + 1 /\ n \in Nat /\ long[n + 1] = c
      /\ \A p \in 1 .. n : long[p] = line[p]
      /\ DOMAIN line = 1 .. n /\ DOMAIN long = 1 .. Len(long)
  BY AppendProperties, LenProperties DEF Lines
<1>2. /\ \A p \in 0 .. n : Backslashes(long)[p] = Backslashes(line)[p]
      /\ Backslashes(long)[n + 1] = 0
  BY BackslashesAppend
<1> HIDE DEF long
<1>3. \A p \in 1 .. n : HostPiece(long, p) = HostPiece(line, p)
  BY <1>1, <1>2, PiecesStay
<1>4. HostPiece(long, n + 1) = <<c>>
  <2>1. n \in 0 .. n /\ n + 1 - 1 = n
    BY <1>1
  <2>2. Backslashes(long)[n + 1 - 1] % 2 = 0
    BY <1>2, <2>1 DEF EvenEnd
  <2>3. ~Odd(long, n + 1)
    BY <2>2 DEF Odd
  <2>4. QED
    BY <1>1, <2>3 DEF HostPiece
<1>5. HostPieces(long) = Append(HostPieces(line), <<c>>)
  <2> DEFINE one == HostPieces(long)
             start == HostPieces(line)
             other == Append(start, <<c>>)
  <2>1. <<c>> \in Lines
    BY DEF Lines
  <2>2. one \in Seq(Lines) /\ Len(one) = n + 1 /\ start \in Seq(Lines) /\ Len(start) = n
    BY <1>1, HostPiecesType
  <2>3. \A p \in 1 .. n : one[p] = start[p]
    BY <1>1, <1>3 DEF HostPieces
  <2>4. one[n + 1] = <<c>>
    BY <1>1, <1>4 DEF HostPieces
  <2> HIDE DEF one, start
  <2>5. /\ other \in Seq(Lines) /\ Len(other) = n + 1 /\ other[n + 1] = <<c>>
        /\ \A p \in 1 .. n : other[p] = start[p]
    BY <2>1, <2>2, AppendProperties
  <2> HIDE DEF other
  <2>6. \A p \in 1 .. Len(one) : one[p] = other[p]
    BY <1>1, <2>2, <2>3, <2>4, <2>5
  <2>7. one = other
    BY <2>2, <2>5, <2>6, SeqEqual
  <2>8. QED
    BY <2>7 DEF one, other, start
<1>6. HostUnescapes(long) = HostUnescapes(line) \o <<c>>
  <2>1. HostPieces(line) \in Seq(Seq(Tokens)) /\ <<c>> \in Seq(Tokens)
    BY HostPiecesType DEF Lines
  <2>2. QED
    BY <1>5, <2>1, HostUnescapesIs, FlattenAppend
<1>7. EvenEnd(long)
  BY <1>1, <1>2 DEF EvenEnd
<1>8. QED
  BY <1>6, <1>7 DEF long

LEMMA HostReadsEscape ==
  ASSUME NEW line \in Lines, EvenEnd(line), NEW c \in {"\\", "n"}
  PROVE  LET long == Append(Append(line, "\\"), c)
         IN /\ HostUnescapes(long) = HostUnescapes(line) \o <<IF c = "n" THEN "LF" ELSE "\\">>
            /\ EvenEnd(long)
<1> DEFINE mid == Append(line, "\\")
           long == Append(mid, c)
           n == Len(line)
           x == IF c = "n" THEN "LF" ELSE "\\"
<1>0. "\\" \in Tokens /\ c \in Tokens /\ x \in Tokens
  BY SomeTokens
<1>1. /\ mid \in Lines /\ Len(mid) = n + 1 /\ n \in Nat /\ mid[n + 1] = "\\"
      /\ \A p \in 1 .. n : mid[p] = line[p]
  BY <1>0, AppendProperties, LenProperties DEF Lines
<1>2. /\ \A p \in 0 .. n : Backslashes(mid)[p] = Backslashes(line)[p]
      /\ Backslashes(mid)[n + 1] = Backslashes(line)[n] + 1 /\ Backslashes(line)[n] \in Nat
  <2>1. n \in 0 .. n
    BY <1>1
  <2>2. QED
    BY <1>0, <2>1, BackslashesAppend
<1> HIDE DEF mid
<1>3. /\ long \in Lines /\ Len(long) = n + 2 /\ long[n + 2] = c
      /\ \A p \in 1 .. n + 1 : long[p] = mid[p]
      /\ DOMAIN line = 1 .. n /\ DOMAIN long = 1 .. n + 2
  <2>1. mid \in Seq(Tokens) /\ line \in Seq(Tokens)
    BY <1>1 DEF Lines
  <2>2. /\ long \in Seq(Tokens) /\ Len(long) = Len(mid) + 1 /\ long[Len(mid) + 1] = c
        /\ \A p \in 1 .. Len(mid) : long[p] = mid[p]
    BY <1>0, <2>1, AppendProperties
  <2>3. n + 1 + 1 = n + 2
    BY <1>1
  <2>4. DOMAIN line = 1 .. n /\ DOMAIN long = 1 .. Len(long)
    BY <2>1, <2>2, LenProperties
  <2>5. QED
    BY <1>1, <2>2, <2>3, <2>4 DEF Lines
<1>4. /\ \A p \in 0 .. n + 1 : Backslashes(long)[p] = Backslashes(mid)[p]
      /\ Backslashes(long)[n + 2] = IF c = "\\" THEN Backslashes(mid)[n + 1] + 1 ELSE 0
  <2>1. n + 1 + 1 = n + 2
    BY <1>1
  <2>2. QED
    BY <1>0, <1>1, <2>1, BackslashesAppend
<1> HIDE DEF long
<1>5. \A p \in 1 .. n : HostPiece(long, p) = HostPiece(line, p)
  <2>1. \A p \in 1 .. n : long[p] = line[p]
    BY <1>1, <1>3
  <2>2. \A p \in 0 .. n : Backslashes(long)[p] = Backslashes(line)[p]
    BY <1>1, <1>2, <1>4
  <2>3. n <= Len(long)
    BY <1>1, <1>3
  <2>4. QED
    BY <1>3, <2>1, <2>2, <2>3, PiecesStay
<1>6. Backslashes(long)[n] % 2 = 0 /\ Backslashes(long)[n + 1] % 2 = 1
  <2>1. Backslashes(line)[n] % 2 = 0
    BY DEF EvenEnd
  <2>2. Backslashes(long)[n] = Backslashes(line)[n]
    BY <1>1, <1>2, <1>4
  <2>3. Backslashes(long)[n + 1] = Backslashes(line)[n] + 1
    BY <1>1, <1>2, <1>4
  <2>4. QED
    BY <1>2, <2>1, <2>2, <2>3
<1>7. HostPiece(long, n + 1) = <<>>
  <2>1. ~Odd(long, n + 1)
    <3>1. n + 1 - 1 = n
      BY <1>1
    <3>2. QED
      BY <1>6, <3>1 DEF Odd
  <2>2. long[n + 1] = "\\" /\ n + 1 < Len(long) /\ n + 1 + 1 = n + 2
    BY <1>1, <1>3
  <2>3. QED
    BY <1>3, <2>1, <2>2 DEF HostPiece
<1>8. HostPiece(long, n + 2) = <<x>>
  <2>1. Odd(long, n + 2)
    <3>1. n + 2 - 1 = n + 1
      BY <1>1
    <3>2. QED
      BY <1>6, <3>1 DEF Odd
  <2>2. QED
    BY <1>3, <2>1 DEF HostPiece
<1>9. HostPieces(long) = Append(Append(HostPieces(line), <<>>), <<x>>)
  <2> DEFINE one == HostPieces(long)
             start == HostPieces(line)
             next == Append(start, <<>>)
             other == Append(next, <<x>>)
  <2>1. <<x>> \in Lines /\ <<>> \in Lines
    BY <1>0 DEF Lines
  <2>2. one \in Seq(Lines) /\ Len(one) = n + 2 /\ start \in Seq(Lines) /\ Len(start) = n
    BY <1>3, HostPiecesType
  <2>3. \A p \in 1 .. n : one[p] = start[p]
    BY <1>1, <1>3, <1>5 DEF HostPieces
  <2>4. one[n + 1] = <<>> /\ one[n + 2] = <<x>>
    BY <1>1, <1>3, <1>7, <1>8 DEF HostPieces
  <2> HIDE DEF one, start, x
  <2>5. /\ next \in Seq(Lines) /\ Len(next) = n + 1 /\ next[n + 1] = <<>>
        /\ \A p \in 1 .. n : next[p] = start[p]
    BY <2>1, <2>2, AppendProperties
  <2> HIDE DEF next
  <2>6. /\ other \in Seq(Lines) /\ Len(other) = n + 2 /\ other[n + 2] = <<x>>
        /\ \A p \in 1 .. n + 1 : other[p] = next[p]
    <3>1. n + 1 + 1 = n + 2
      BY <1>1
    <3>2. QED
      BY <2>1, <2>5, <3>1, AppendProperties
  <2> HIDE DEF other
  <2>7. ASSUME NEW p \in 1 .. Len(one) PROVE one[p] = other[p]
    <3>1. p \in 1 .. n \/ p = n + 1 \/ p = n + 2
      BY <1>1, <2>2
    <3>2. CASE p \in 1 .. n
      <4>1. p \in 1 .. n + 1
        BY <1>1, <3>2
      <4>2. QED
        BY <2>3, <2>5, <2>6, <3>2, <4>1
    <3>3. CASE p = n + 1
      <4>1. p \in 1 .. n + 1
        BY <1>1, <3>3
      <4>2. QED
        BY <2>4, <2>5, <2>6, <3>3, <4>1
    <3>4. CASE p = n + 2
      BY <2>4, <2>6, <3>4
    <3>5. QED
      BY <3>1, <3>2, <3>3, <3>4
  <2>8. one = other
    BY <2>2, <2>6, <2>7, SeqEqual
  <2>9. QED
    BY <2>8 DEF one, other, next, start
<1>10. HostUnescapes(long) = HostUnescapes(line) \o <<x>>
  <2>1. /\ HostPieces(line) \in Seq(Seq(Tokens)) /\ <<x>> \in Seq(Tokens) /\ <<>> \in Seq(Tokens)
        /\ Append(HostPieces(line), <<>>) \in Seq(Seq(Tokens))
    <3>1. HostPieces(line) \in Seq(Seq(Tokens))
      BY HostPiecesType DEF Lines
    <3>2. <<x>> \in Seq(Tokens) /\ <<>> \in Seq(Tokens)
      BY <1>0
    <3>3. QED
      BY <3>1, <3>2
  <2> HIDE DEF x
  <2>2. /\ FlattenSeq(HostPieces(long)) = FlattenSeq(Append(HostPieces(line), <<>>)) \o <<x>>
        /\ FlattenSeq(Append(HostPieces(line), <<>>)) = FlattenSeq(HostPieces(line)) \o <<>>
    BY <1>9, <2>1, FlattenAppend
  <2>3. FlattenSeq(HostPieces(line)) \in Seq(Tokens)
    BY <2>1, FlattenIsSeq
  <2>4. FlattenSeq(HostPieces(line)) \o <<>> = FlattenSeq(HostPieces(line))
    BY <2>3, ConcatEmptySeq
  <2>5. QED
    BY <2>2, <2>4, HostUnescapesIs
<1>11. EvenEnd(long)
  <2>1. Backslashes(mid)[n + 1] % 2 = 1 /\ Backslashes(mid)[n + 1] \in Nat
    BY <1>1, <1>2, <1>4, <1>6
  <2>2. QED
    BY <1>3, <1>4, <2>1 DEF EvenEnd
<1>12. QED
  BY <1>10, <1>11 DEF long, mid, x

\* The host, which finds the escapes by the backslashes before a place and not from
\* left to right, reads an escaped text as it was (encode_host_text).
THEOREM HostReadsEscaped ==
  ASSUME NEW text \in Lines
  PROVE  HostUnescapes(Escaped(text)) = text
<1> DEFINE Whole(t) == HostUnescapes(Escaped(t)) = t /\ EvenEnd(Escaped(t))
           B == {t \in Lines : ~Whole(t)}
<1>0. PICK some : some \in Tokens
  BY SomeTokens
<1>1. <<>> \notin B
  <2>1. <<>> \in Lines /\ Len(<<>>) = 0
    BY DEF Lines
  <2>2. Escaped(<<>>) = <<>> /\ Backslashes(<<>>)[0] = 0
    BY <1>0, <2>1, EscapedAppend, BackslashesAppend
  <2>3. HostPieces(<<>>) = <<>>
    BY DEF HostPieces
  <2>4. HostUnescapes(<<>>) = <<>>
    BY <2>3, HostUnescapesIs, FlattenNothing
  <2>5. QED
    BY <2>1, <2>2, <2>4 DEF EvenEnd
<1>2. ASSUME NEW t \in Seq(Tokens), NEW c \in Tokens, Whole(t) PROVE Whole(Append(t, c))
  <2> DEFINE e == Escaped(t)
  <2>1. /\ e \in Lines /\ t \in Lines /\ e \in Seq(Tokens)
        /\ Escaped(Append(t, c)) = e \o EscapePiece[c]
    BY EscapedAppend DEF Lines
  <2>2. HostUnescapes(e) = t /\ EvenEnd(e)
    BY <1>2
  <2> HIDE DEF e
  <2>3. "\\" \in Tokens /\ "n" \in Tokens
    BY SomeTokens
  <2>4. CASE c = "\\"
    <3>1. EscapePiece[c] = <<"\\", "\\">>
      BY <2>4 DEF EscapePiece
    <3>2. Escaped(Append(t, c)) = Append(Append(e, "\\"), "\\")
      BY <2>1, <2>3, <3>1, PairAppend
    <3>3. /\ HostUnescapes(Append(Append(e, "\\"), "\\")) = t \o <<"\\">>
          /\ EvenEnd(Append(Append(e, "\\"), "\\"))
      BY <2>1, <2>2, HostReadsEscape
    <3>4. QED
      BY <2>3, <2>4, <3>2, <3>3, PairAppend
  <2>5. CASE c = "LF"
    <3>1. EscapePiece[c] = <<"\\", "n">>
      BY <2>5 DEF EscapePiece
    <3>2. Escaped(Append(t, c)) = Append(Append(e, "\\"), "n")
      BY <2>1, <2>3, <3>1, PairAppend
    <3>3. /\ HostUnescapes(Append(Append(e, "\\"), "n")) = t \o <<"LF">>
          /\ EvenEnd(Append(Append(e, "\\"), "n"))
      BY <2>1, <2>2, HostReadsEscape
    <3>4. QED
      BY <2>3, <2>5, <3>2, <3>3, PairAppend
  <2>6. CASE c \notin {"\\", "LF"}
    <3>1. EscapePiece[c] = <<c>>
      BY <2>6 DEF EscapePiece
    <3>2. Escaped(Append(t, c)) = Append(e, c)
      BY <2>1, <3>1, PairAppend
    <3>3. c # "\\"
      BY <2>6
    <3>4. HostUnescapes(Append(e, c)) = t \o <<c>> /\ EvenEnd(Append(e, c))
      BY <2>1, <2>2, <3>3, HostReadsToken
    <3>5. QED
      BY <3>2, <3>4, PairAppend
  <2>7. QED
    BY <2>4, <2>5, <2>6
<1>3. B = {}
  <2>1. SUFFICES ASSUME B # {} PROVE FALSE
    OBVIOUS
  <2>2. B \in SUBSET Seq(Tokens)
    BY DEF Lines
  <2> HIDE DEF B
  <2>3. PICK t \in Seq(Tokens), c \in Tokens : t \notin B /\ Append(t, c) \in B
    BY <1>1, <2>1, <2>2, FirstToFail
  <2>4. QED
    BY <1>2, <2>3 DEF B, Lines
<1>4. QED
  BY <1>3

-----------------------------------------------------------------------------
(* Lines without some of the tokens.                                       *)

LEMMA SeqWithin ==
  ASSUME NEW T, NEW U, NEW s \in Seq(T)
  PROVE  s \in Seq(U) <=> ToSet(s) \subseteq U
<1>1. Len(s) \in Nat /\ DOMAIN s = 1 .. Len(s) /\ s \in [1 .. Len(s) -> T]
  BY LenProperties
<1>2. ASSUME s \in Seq(U) PROVE ToSet(s) \subseteq U
  <2>1. \A k \in 1 .. Len(s) : s[k] \in U
    BY <1>2, ElementOfSeq
  <2>2. QED
    BY <1>1, <2>1 DEF ToSet
<1>3. ASSUME ToSet(s) \subseteq U PROVE s \in Seq(U)
  <2>1. \A k \in 1 .. Len(s) : s[k] \in U
    BY <1>1, <1>3 DEF ToSet
  <2>2. s = [k \in 1 .. Len(s) |-> s[k]]
    BY <1>1
  <2>3. [k \in 1 .. Len(s) |-> s[k]] \in Seq(U)
    BY <1>1, <2>1, IsASeq
  <2>4. QED
    BY <2>2, <2>3
<1>4. QED
  BY <1>2, <1>3

Without(tokens) == Seq(Tokens \ tokens)

LEMMA WithoutIs ==
  ASSUME NEW line \in Lines, NEW tokens
  PROVE  line \in Without(tokens) <=> ToSet(line) \cap tokens = {}
<1>1. line \in Seq(Tokens)
  BY DEF Lines
<1>2. line \in Seq(Tokens \ tokens) <=> ToSet(line) \subseteq Tokens \ tokens
  BY <1>1, SeqWithin
<1>3. ToSet(line) \subseteq Tokens
  BY <1>1, SeqWithin
<1>4. QED
  BY <1>2, <1>3 DEF Without

LEMMA WithoutType ==
  ASSUME NEW tokens
  PROVE  Without(tokens) \subseteq Lines
BY SeqMonotonic DEF Without, Lines

\* The host reads no CR where none is.
LEMMA HostUnescapesType ==
  ASSUME NEW line \in Without({"CR"})
  PROVE  HostUnescapes(line) \in Without({"CR"})
<1> DEFINE T == Tokens \ {"CR"}
           m == HostPieces(line)
<1>1. line \in Lines /\ line \in Seq(T)
  BY WithoutType DEF Without
<1>2. "LF" \in T
  BY SomeTokens
<1>3. Len(line) \in Nat /\ DOMAIN line = 1 .. Len(line)
      /\ \A k \in 1 .. Len(line) : line[k] \in T
  BY <1>1, LenProperties, ElementOfSeq
<1> HIDE DEF T
<1>4. ASSUME NEW p \in 1 .. Len(line) PROVE HostPiece(line, p) \in Seq(T)
  <2>1. line[p] \in T
    BY <1>3
  <2>2. <<>> \in Seq(T) /\ <<"LF">> \in Seq(T) /\ <<line[p]>> \in Seq(T)
    BY <1>2, <2>1
  <2>3. QED
    BY <2>2 DEF HostPiece
<1>5. m = [p \in 1 .. Len(line) |-> HostPiece(line, p)]
  BY <1>3 DEF HostPieces
<1>6. m \in Seq(Seq(T))
  BY <1>3, <1>4, <1>5, IsASeq
<1>7. FlattenSeq(m) \in Seq(T)
  BY <1>6, FlattenIsSeq
<1>8. QED
  BY <1>7, HostUnescapesIs DEF T, Without

LEMMA EscapedType ==
  ASSUME NEW text \in Without({"CR"})
  PROVE  Escaped(text) \in Without({"CR"})
<1> DEFINE T == Tokens \ {"CR"}
           piece == [c \in T |-> EscapePiece[c]]
<1>1. text \in Lines /\ text \in Seq(T)
  BY WithoutType DEF Without
<1>2. "\\" \in T /\ "n" \in T
  BY SomeTokens
<1> HIDE DEF T
<1>3. ASSUME NEW c \in T PROVE EscapePiece[c] \in Seq(T)
  <2>1. c \in Tokens
    BY DEF T
  <2>2. <<"\\", "\\">> \in Seq(T)
    BY <1>2
  <2>3. <<"\\", "n">> \in Seq(T)
    BY <1>2
  <2>4. <<c>> \in Seq(T)
    OBVIOUS
  <2>5. QED
    BY <2>1, <2>2, <2>3, <2>4 DEF EscapePiece
<1>4. piece \in [T -> Seq(T)]
  BY <1>3
<1>5. Pieces(text, piece) \in Seq(T)
  <2> HIDE DEF piece
  <2> QED BY <1>1, <1>4, SpreadIsSeq
<1>6. \A k \in DOMAIN text : text[k] \in T
  BY <1>1, ElementOfSeq, LenProperties
<1>7. Pieces(text, piece) = Pieces(text, EscapePiece)
  <2>1. [k \in DOMAIN text |-> piece[text[k]]] = [k \in DOMAIN text |-> EscapePiece[text[k]]]
    BY <1>6
  <2>2. QED
    BY <2>1 DEF Pieces
<1>8. QED
  BY <1>1, <1>5, <1>7, EscapedIs DEF T, Without

CrPiece == [c \in Tokens |-> IF c = "CR" THEN <<>> ELSE <<c>>]

LEMMA WithoutCrIs ==
  ASSUME NEW text \in Lines
  PROVE  WithoutCr(text) = Pieces(text, CrPiece) /\ WithoutCr(text) \in Without({"CR"})
<1> DEFINE T == Tokens \ {"CR"}
<1>1. \A p \in DOMAIN text : text[p] \in Tokens
  BY ElementOfSeq, LenProperties DEF Lines
<1>2. [p \in DOMAIN text |-> IF text[p] = "CR" THEN <<>> ELSE <<text[p]>>]
        = [p \in DOMAIN text |-> CrPiece[text[p]]]
  BY <1>1 DEF CrPiece
<1>3. ASSUME NEW c \in Tokens PROVE (IF c = "CR" THEN <<>> ELSE <<c>>) \in Seq(T)
  <2>1. CASE c = "CR"
    BY <2>1
  <2>2. CASE c # "CR"
    <3>1. c \in T
      BY <2>2
    <3> HIDE DEF T
    <3>2. <<c>> \in Seq(T)
      BY <3>1
    <3>3. QED
      BY <2>2, <3>2
  <2>3. QED
    BY <2>1, <2>2
<1>4. CrPiece \in [Tokens -> Seq(T)]
  BY <1>3 DEF CrPiece
<1> HIDE DEF T
<1>5. Pieces(text, CrPiece) \in Seq(T)
  BY <1>4, SpreadIsSeq DEF Lines
<1>6. QED
  BY <1>2, <1>5 DEF WithoutCr, Pieces, T, Without

LEMMA WithoutCrStays ==
  ASSUME NEW text \in Without({"CR"})
  PROVE  WithoutCr(text) = text
<1> DEFINE T == Tokens \ {"CR"}
           B == {t \in Seq(T) : WithoutCr(t) # t}
<1>1. <<>> \notin B
  <2>1. <<>> \in Lines
    BY DEF Lines
  <2>2. QED
    BY <2>1, WithoutCrIs, SpreadNothing
<1>2. ASSUME NEW t \in Seq(T), NEW c \in T, WithoutCr(t) = t
      PROVE  WithoutCr(Append(t, c)) = Append(t, c)
  <2>1. t \in Lines /\ c \in Tokens /\ c # "CR" /\ t \in Seq(Tokens)
    BY WithoutType DEF Without, Lines
  <2>2. Append(t, c) \in Lines
    BY <2>1 DEF Lines
  <2>3. CrPiece \in [Tokens -> Lines] /\ CrPiece[c] = <<c>>
    <3>1. ASSUME NEW d \in Tokens PROVE (IF d = "CR" THEN <<>> ELSE <<d>>) \in Lines
      BY DEF Lines
    <3>2. QED
      BY <2>1, <3>1 DEF CrPiece
  <2>4. Pieces(Append(t, c), CrPiece) = Pieces(t, CrPiece) \o <<c>>
    <3>1. CrPiece \in [Tokens -> Seq(Tokens)]
      BY <2>3 DEF Lines
    <3>2. Pieces(Append(t, c), CrPiece) = Pieces(t, CrPiece) \o CrPiece[c]
      BY <2>1, <3>1, SpreadAppend
    <3>3. QED
      BY <2>3, <3>2
  <2>5. Pieces(t, CrPiece) = t
    BY <1>2, <2>1, WithoutCrIs
  <2>6. QED
    BY <2>1, <2>2, <2>4, <2>5, WithoutCrIs, PairAppend
<1>3. B = {}
  <2>1. SUFFICES ASSUME B # {} PROVE FALSE
    OBVIOUS
  <2>2. B \in SUBSET Seq(T)
    OBVIOUS
  <2> HIDE DEF B
  <2>3. PICK t \in Seq(T), c \in T : t \notin B /\ Append(t, c) \in B
    BY <1>1, <2>1, <2>2, FirstToFail
  <2>4. QED
    BY <1>2, <2>3 DEF B
<1>4. QED
  BY <1>3 DEF Without

-----------------------------------------------------------------------------
(* The parts of a line, and what is joined of parts.                       *)

LEMMA GrownIs ==
  ASSUME NEW S, NEW front \in Seq(Seq(S)), NEW last \in Seq(S), NEW mark,
         NEW token \in S \cup {mark}
  PROVE  Grown(Append(front, last), token, mark)
           = IF token = mark THEN Append(Append(front, last), <<>>)
             ELSE Append(front, Append(last, token))
<1> DEFINE parts == Append(front, last)
           n == Len(front)
           one == [parts EXCEPT ![Len(parts)] = Append(parts[Len(parts)], token)]
           other == Append(front, Append(last, token))
<1>1. CASE token = mark
  BY <1>1 DEF Grown
<1>2. CASE token # mark
  <2>1. /\ parts \in Seq(Seq(S)) /\ Len(parts) = n + 1 /\ n \in Nat /\ parts[n + 1] = last
        /\ \A k \in 1 .. n : parts[k] = front[k]
    BY AppendProperties, LenProperties
  <2>2. Append(last, token) \in Seq(S)
    BY <1>2, AppendProperties
  <2>3. /\ other \in Seq(Seq(S)) /\ Len(other) = n + 1 /\ other[n + 1] = Append(last, token)
        /\ \A k \in 1 .. n : other[k] = front[k]
    BY <2>2, AppendProperties, LenProperties
  <2> HIDE DEF parts, other
  <2>4. n + 1 \in 1 .. Len(parts)
    BY <2>1
  <2>5. one = [parts EXCEPT ![n + 1] = Append(last, token)]
    BY <2>1
  <2>6. /\ one \in Seq(Seq(S)) /\ Len(one) = n + 1
        /\ \A k \in 1 .. n + 1 : one[k] = IF k = n + 1 THEN Append(last, token) ELSE parts[k]
    BY <2>1, <2>2, <2>4, <2>5, ExceptSeq
  <2> HIDE DEF one
  <2>7. ASSUME NEW k \in 1 .. Len(one) PROVE one[k] = other[k]
    <3>1. one[k] = IF k = n + 1 THEN Append(last, token) ELSE parts[k]
      BY <2>6
    <3>2. CASE k = n + 1
      BY <2>3, <3>1, <3>2
    <3>3. CASE k # n + 1
      <4>1. k \in 1 .. n
        BY <2>1, <2>6, <3>3
      <4>2. QED
        BY <2>1, <2>3, <3>1, <3>3, <4>1
    <3>4. QED
      BY <3>2, <3>3
  <2>8. one = other
    BY <2>3, <2>6, <2>7, SeqEqual
  <2>9. Grown(parts, token, mark) = one
    BY <1>2 DEF Grown, one
  <2>10. QED
    BY <1>2, <2>8, <2>9 DEF other, parts
<1>3. QED
  BY <1>1, <1>2

Some1(S) == Seq(S) \ {<<>>}

LEMMA GrownType ==
  ASSUME NEW T, NEW mark, NEW parts \in Some1(Seq(T \ {mark})), NEW token \in T
  PROVE  Grown(parts, token, mark) \in Some1(Seq(T \ {mark}))
<1> DEFINE S == T \ {mark}
<1>1. PICK front \in Seq(Seq(S)), last \in Seq(S) : parts = Append(front, last)
  BY SequenceEmptyOrAppend DEF Some1
<1>2. token \in S \cup {mark}
  OBVIOUS
<1> HIDE DEF S
<1>3. Grown(parts, token, mark)
        = IF token = mark THEN Append(Append(front, last), <<>>)
          ELSE Append(front, Append(last, token))
  BY <1>1, <1>2, GrownIs
<1>4. Append(front, last) \in Seq(Seq(S)) /\ <<>> \in Seq(S)
  OBVIOUS
<1>a. \A q \in Seq(Seq(S)), p \in Seq(S) : Append(q, p) \in Some1(Seq(S))
  <2>1. TAKE q \in Seq(Seq(S)), p \in Seq(S)
  <2>2. Append(q, p) \in Seq(Seq(S)) /\ Append(q, p) # <<>>
    BY AppendProperties
  <2>3. QED
    BY <2>2 DEF Some1
<1>5. Append(Append(front, last), <<>>) \in Some1(Seq(S))
  BY <1>4, <1>a
<1>6. CASE token # mark
  <2>1. Append(last, token) \in Seq(S)
    BY <1>2, <1>6
  <2>2. Append(front, Append(last, token)) \in Some1(Seq(S))
    BY <1>a, <2>1
  <2>3. QED
    BY <1>3, <1>6, <2>2 DEF S
<1>7. CASE token = mark
  BY <1>3, <1>5, <1>7 DEF S
<1>8. QED
  BY <1>6, <1>7

PartsUpTo(line, mark) ==
  CHOOSE f : f = [n \in 0 .. Len(line) |->
    IF n = 0 THEN << <<>> >> ELSE Grown(f[n - 1], line[n], mark)]
GrownFeed(T, mark) ==
  [x \in Some1(Seq(T \ {mark})) \X T |-> Grown(x[1], x[2], mark)]

LEMMA PartsUpToIs ==
  ASSUME NEW T, NEW line \in Seq(T), NEW mark
  PROVE  Feeds(PartsUpTo(line, mark), line, Some1(Seq(T \ {mark})), << <<>> >>,
               GrownFeed(T, mark))
<1> DEFINE Is(f) == f = [n \in 0 .. Len(line) |->
             IF n = 0 THEN << <<>> >> ELSE Grown(f[n - 1], line[n], mark)]
           g == PartsUpTo(line, mark)
           S == Some1(Seq(T \ {mark}))
           feed == GrownFeed(T, mark)
<1>0. << <<>> >> \in S
  <2>1. <<>> \in Seq(T \ {mark})
    OBVIOUS
  <2>2. << <<>> >> \in Seq(Seq(T \ {mark}))
    BY <2>1
  <2>3. QED
    BY <2>2 DEF Some1
<1>a. feed \in [S \X T -> S]
  BY GrownType DEF GrownFeed
<1>b. \A parts \in S, token \in T : feed[<<parts, token>>] = Grown(parts, token, mark)
  BY DEF GrownFeed
<1> HIDE DEF S, feed
<1>1. PICK f : Feeds(f, line, S, << <<>> >>, feed)
  BY <1>0, <1>a, FeedExists
<1>2. Len(line) \in Nat /\ \A k \in 1 .. Len(line) : line[k] \in T
  BY LenProperties, ElementOfSeq
<1>3. ASSUME NEW k \in 1 .. Len(line)
      PROVE  f[k] = Grown(f[k - 1], line[k], mark)
  <2>1. k - 1 \in 0 .. Len(line)
    BY <1>2
  <2>2. f[k - 1] \in S /\ f[k] = feed[<<f[k - 1], line[k]>>]
    BY <1>1, <2>1 DEF Feeds
  <2>3. QED
    BY <1>2, <1>b, <2>2
<1>4. Is(f)
  <2>1. f = [n \in 0 .. Len(line) |-> f[n]]
    BY <1>1 DEF Feeds
  <2>2. ASSUME NEW n \in 0 .. Len(line)
        PROVE  f[n] = IF n = 0 THEN << <<>> >> ELSE Grown(f[n - 1], line[n], mark)
    <3>1. n = 0 \/ n \in 1 .. Len(line)
      BY <1>2
    <3>2. CASE n = 0
      BY <1>1, <3>2 DEF Feeds
    <3>3. CASE n \in 1 .. Len(line) /\ n # 0
      BY <1>3, <3>3
    <3>4. QED
      BY <3>1, <3>2, <3>3
  <2>3. QED
    BY <2>1, <2>2, Zenon
<1>5. Is(g)
  BY <1>4 DEF PartsUpTo
<1> HIDE DEF g
<1>6. GoTogether(f, g, Len(line))
  <2>1. f[0] = g[0]
    BY <1>1, <1>2, <1>5 DEF Feeds
  <2>2. ASSUME NEW k \in 1 .. Len(line) PROVE g[k] = Grown(g[k - 1], line[k], mark)
    <3>1. k \in 0 .. Len(line) /\ k # 0
      BY <1>2
    <3>2. QED
      BY <1>5, <3>1
  <2>3. QED
    BY <1>3, <2>1, <2>2 DEF GoTogether
<1>7. \A k \in 0 .. Len(line) : f[k] = g[k]
  BY <1>2, <1>6, AgreeStepwise
<1>8. f = g
  BY <1>1, <1>5, <1>7 DEF Feeds
<1>9. QED
  BY <1>1, <1>8 DEF g, S, feed

LEMMA PartsType ==
  ASSUME NEW T, NEW line \in Seq(T), NEW mark
  PROVE  /\ Parts(line, mark) \in Some1(Seq(T \ {mark}))
         /\ Parts(<<>>, mark) = << <<>> >>
<1>1. /\ Feeds(PartsUpTo(line, mark), line, Some1(Seq(T \ {mark})), << <<>> >>,
               GrownFeed(T, mark))
      /\ Feeds(PartsUpTo(<<>>, mark), <<>>, Some1(Seq(T \ {mark})), << <<>> >>,
               GrownFeed(T, mark))
  <2>1. <<>> \in Seq(T)
    OBVIOUS
  <2>2. QED
    BY <2>1, PartsUpToIs
<1>2. Parts(line, mark) = PartsUpTo(line, mark)[Len(line)]
  BY DEF Parts, PartsUpTo
<1>3. Parts(<<>>, mark) = PartsUpTo(<<>>, mark)[0]
  BY DEF Parts, PartsUpTo
<1>4. Len(line) \in 0 .. Len(line)
  BY LenProperties
<1>5. QED
  BY <1>1, <1>2, <1>3, <1>4 DEF Feeds

LEMMA PartsAppend ==
  ASSUME NEW T, NEW line \in Seq(T), NEW c \in T, NEW mark
  PROVE  Parts(Append(line, c), mark) = Grown(Parts(line, mark), c, mark)
<1> DEFINE S == Some1(Seq(T \ {mark}))
           f == PartsUpTo(line, mark)
           g == PartsUpTo(Append(line, c), mark)
           feed == GrownFeed(T, mark)
<1>1. Append(line, c) \in Seq(T) /\ Len(Append(line, c)) = Len(line) + 1
  BY AppendProperties
<1>2. Feeds(f, line, S, << <<>> >>, feed) /\ Feeds(g, Append(line, c), S, << <<>> >>, feed)
  BY <1>1, PartsUpToIs
<1>3. g[Len(line) + 1] = feed[<<f[Len(line)], c>>]
  <2> HIDE DEF f, g, S, feed
  <2> QED BY <1>2, FeedAppend
<1>4. f[Len(line)] \in S
  BY PartsType DEF Parts, PartsUpTo
<1>5. g[Len(line) + 1] = Grown(f[Len(line)], c, mark)
  <2> HIDE DEF f, g
  <2> QED BY <1>3, <1>4 DEF GrownFeed
<1>6. Parts(line, mark) = f[Len(line)] /\ Parts(Append(line, c), mark) = g[Len(line) + 1]
  <2>1. Parts(Append(line, c), mark) = g[Len(Append(line, c))]
    BY DEF Parts, PartsUpTo
  <2>2. Parts(line, mark) = f[Len(line)]
    BY DEF Parts, PartsUpTo
  <2>3. QED
    BY <1>1, <2>1, <2>2
<1>7. QED
  BY <1>5, <1>6

\* Tokens that are no mark go to the last part.
EndsWith(T, S, line, mark, front, last) ==
  /\ S = T \ {mark} /\ line \in Seq(T) /\ front \in Seq(Seq(S)) /\ last \in Seq(S)
  /\ Parts(line, mark) = Append(front, last)

GoesOn(S, line, mark, front, last) ==
  \A word \in Seq(S) : Parts(line \o word, mark) = Append(front, last \o word)

LEMMA PartsOn ==
  ASSUME NEW T, NEW mark, NEW S, NEW line, NEW front, NEW last,
         EndsWith(T, S, line, mark, front, last)
  PROVE  GoesOn(S, line, mark, front, last)
<1> USE DEF EndsWith
<1> DEFINE Good(w) == Parts(line \o w, mark) = Append(front, last \o w)
           B == {w \in Seq(S) : ~Good(w)}
<1>1. <<>> \notin B
  <2>1. line \o <<>> = line /\ last \o <<>> = last
    BY ConcatEmptySeq
  <2>2. QED
    BY <2>1
<1>2. ASSUME NEW w \in Seq(S), NEW c \in S, Good(w) PROVE Good(Append(w, c))
  <2>0. w \in Seq(T) /\ c \in T /\ c # mark /\ c \in S \cup {mark} /\ S \subseteq T
    BY SeqMonotonic
  <2>1. line \o Append(w, c) = Append(line \o w, c) /\ line \o w \in Seq(T)
    BY <2>0
  <2>2. last \o Append(w, c) = Append(last \o w, c) /\ last \o w \in Seq(S)
    OBVIOUS
  <2>3. Parts(Append(line \o w, c), mark) = Grown(Append(front, last \o w), c, mark)
    BY <1>2, <2>0, <2>1, PartsAppend
  <2>4. Grown(Append(front, last \o w), c, mark) = Append(front, Append(last \o w, c))
    <3> DEFINE more == last \o w
    <3>1. front \in Seq(Seq(S)) /\ more \in Seq(S)
      BY <2>2
    <3> HIDE DEF more
    <3>2. Grown(Append(front, more), c, mark) = Append(front, Append(more, c))
      BY <2>0, <3>1, GrownIs
    <3>3. QED
      BY <3>2 DEF more
  <2>5. QED
    BY <2>1, <2>2, <2>3, <2>4
<1>3. B = {}
  <2>1. SUFFICES ASSUME B # {} PROVE FALSE
    OBVIOUS
  <2>2. B \in SUBSET Seq(S)
    OBVIOUS
  <2> HIDE DEF B
  <2>3. PICK w \in Seq(S), c \in S : w \notin B /\ Append(w, c) \in B
    BY <1>1, <2>1, <2>2, FirstToFail
  <2>4. QED
    BY <1>2, <2>3 DEF B
<1>4. ASSUME NEW word \in Seq(S) PROVE Good(word)
  BY <1>3
<1>5. QED
  BY <1>4 DEF GoesOn

\* The same for a part that begins.
LEMMA PartBegins ==
  ASSUME NEW T, NEW mark, NEW S, NEW line, NEW front,
         EndsWith(T, S, line, mark, front, <<>>), NEW word \in Seq(S)
  PROVE  Parts(line \o word, mark) = Append(front, word)
<1>1. GoesOn(S, line, mark, front, <<>>)
  BY PartsOn
<1>2. Parts(line \o word, mark) = Append(front, <<>> \o word)
  BY <1>1 DEF GoesOn
<1>3. <<>> \o word = word
  BY ConcatEmptySeq
<1>4. QED
  BY <1>2, <1>3

\* What is joined, before the first mark goes.
Marks(T, mark) == [unit \in Seq(T) |-> <<mark>> \o unit]

LEMMA JoinedIs ==
  ASSUME NEW T, NEW mark \in T, NEW parts \in Seq(Seq(T))
  PROVE  /\ Marks(T, mark) \in [Seq(T) -> Seq(T)]
         /\ Joined(parts, mark) = Tail(Pieces(parts, Marks(T, mark)))
<1>1. \A unit \in Seq(T) : <<mark>> \o unit \in Seq(T)
  OBVIOUS
<1>2. \A k \in DOMAIN parts : parts[k] \in Seq(T)
  BY ElementOfSeq, LenProperties
<1>3. [k \in DOMAIN parts |-> <<mark>> \o parts[k]]
        = [k \in DOMAIN parts |-> Marks(T, mark)[parts[k]]]
  BY <1>2 DEF Marks
<1>4. QED
  BY <1>1, <1>3 DEF Marks, Joined, Pieces

LEMMA MarkedAppend ==
  ASSUME NEW T, NEW mark \in T, NEW parts \in Seq(Seq(T)), NEW unit \in Seq(T)
  PROVE  /\ Pieces(parts, Marks(T, mark)) \in Seq(T)
         /\ Pieces(Append(parts, unit), Marks(T, mark))
              = Pieces(parts, Marks(T, mark)) \o (<<mark>> \o unit)
<1> DEFINE marks == Marks(T, mark)
           P == Seq(T)
<1>0. marks[unit] = <<mark>> \o unit
  BY DEF Marks
<1>1. marks \in [P -> Seq(T)] /\ parts \in Seq(P) /\ unit \in P
  BY JoinedIs
<1> HIDE DEF marks, P
<1>2. Pieces(parts, marks) \in Seq(T)
  BY <1>1, SpreadIsSeq
<1>3. Pieces(Append(parts, unit), marks) = Pieces(parts, marks) \o marks[unit]
  BY <1>1, SpreadAppend, SMTT(60)
<1>4. QED
  BY <1>0, <1>2, <1>3 DEF marks

LEMMA TailOn ==
  ASSUME NEW T, NEW s \in Seq(T), s # <<>>, NEW t \in Seq(T)
  PROVE  Tail(s \o t) = Tail(s) \o t
<1> DEFINE long == s \o t
           one == Tail(long)
           other == Tail(s) \o t
<1>1. Len(s) \in Nat /\ Len(s) >= 1 /\ Len(t) \in Nat
  BY LenProperties, EmptySeq
<1>2. /\ long \in Seq(T) /\ Len(long) = Len(s) + Len(t)
      /\ \A i \in 1 .. Len(s) + Len(t) : long[i] = IF i <= Len(s) THEN s[i] ELSE t[i - Len(s)]
  BY ConcatProperties
<1>3. long # <<>>
  BY <1>1, <1>2, EmptySeq
<1> HIDE DEF long
<1>4. /\ one \in Seq(T) /\ Len(one) = Len(long) - 1
      /\ \A i \in 1 .. Len(one) : one[i] = long[i + 1]
  BY <1>2, <1>3, HeadTailProperties
<1>5. /\ Tail(s) \in Seq(T) /\ Len(Tail(s)) = Len(s) - 1
      /\ \A i \in 1 .. Len(Tail(s)) : Tail(s)[i] = s[i + 1]
  BY HeadTailProperties
<1>6. /\ other \in Seq(T) /\ Len(other) = Len(s) - 1 + Len(t)
      /\ \A i \in 1 .. Len(s) - 1 + Len(t) :
           other[i] = IF i <= Len(s) - 1 THEN Tail(s)[i] ELSE t[i - (Len(s) - 1)]
  BY <1>5, ConcatProperties
<1> HIDE DEF one, other
<1>7. ASSUME NEW i \in 1 .. Len(one) PROVE one[i] = other[i]
  <2>1. one[i] = long[i + 1] /\ i \in Nat /\ i >= 1 /\ i <= Len(s) - 1 + Len(t)
    BY <1>1, <1>2, <1>4
  <2>2. other[i] = IF i <= Len(s) - 1 THEN Tail(s)[i] ELSE t[i - (Len(s) - 1)]
    BY <1>1, <1>6, <2>1
  <2>3. i + 1 \in 1 .. Len(s) + Len(t)
    BY <1>1, <2>1
  <2>4. long[i + 1] = IF i + 1 <= Len(s) THEN s[i + 1] ELSE t[i + 1 - Len(s)]
    BY <1>2, <2>3
  <2>5. CASE i <= Len(s) - 1
    <3>1. i \in 1 .. Len(Tail(s)) /\ i + 1 <= Len(s)
      BY <1>1, <1>5, <2>1, <2>5
    <3>2. QED
      BY <1>5, <2>1, <2>2, <2>4, <2>5, <3>1
  <2>6. CASE ~(i <= Len(s) - 1)
    <3>1. ~(i + 1 <= Len(s)) /\ i + 1 - Len(s) = i - (Len(s) - 1)
      BY <1>1, <2>1, <2>6
    <3>2. QED
      BY <2>1, <2>2, <2>4, <2>6, <3>1
  <2>7. QED
    BY <2>5, <2>6
<1>8. QED
  <2>1. Len(one) = Len(other)
    BY <1>1, <1>2, <1>4, <1>6
  <2>2. QED
    BY <1>4, <1>6, <1>7, <2>1, SeqEqual DEF one, other, long

LEMMA JoinedOne ==
  ASSUME NEW T, NEW mark \in T, NEW unit \in Seq(T)
  PROVE  Joined(<<unit>>, mark) = unit
<1> DEFINE marks == Marks(T, mark)
<1>1. <<>> \in Seq(Seq(T)) /\ <<unit>> \in Seq(Seq(T)) /\ Append(<<>>, unit) = <<unit>>
      /\ <<mark>> \o unit \in Seq(T)
  OBVIOUS
<1>2. marks \in [Seq(T) -> Seq(T)] /\ Joined(<<unit>>, mark) = Tail(Pieces(<<unit>>, marks))
  BY <1>1, JoinedIs
<1>4. Pieces(Append(<<>>, unit), marks) = Pieces(<<>>, marks) \o (<<mark>> \o unit)
  BY <1>1, MarkedAppend
<1> HIDE DEF marks
<1>5. Pieces(<<unit>>, marks) = <<mark>> \o unit
  <2>1. Pieces(<<>>, marks) = <<>>
    BY SpreadNothing
  <2>2. PICK first : first = <<mark>> \o unit
    OBVIOUS
  <2>3. first \in Seq(T)
    BY <1>1, <2>2
  <2>4. <<>> \o first = first
    BY <2>3, ConcatEmptySeq
  <2>5. QED
    BY <1>1, <1>4, <2>1, <2>2, <2>4
<1>6. Tail(<<mark>> \o unit) = Tail(<<mark>>) \o unit
  <2>1. <<mark>> \in Seq(T) /\ <<mark>> # <<>>
    OBVIOUS
  <2>2. QED
    BY <2>1, TailOn
<1>7. Tail(<<mark>>) = <<>> /\ <<>> \o unit = unit
  BY ConcatEmptySeq
<1>8. QED
  BY <1>2, <1>5, <1>6, <1>7

LEMMA JoinedAppend ==
  ASSUME NEW T, NEW mark \in T, NEW parts \in Some1(Seq(T)), NEW unit \in Seq(T)
  PROVE  /\ Joined(parts, mark) \in Seq(T)
         /\ Joined(Append(parts, unit), mark) = Joined(parts, mark) \o (<<mark>> \o unit)
<1> DEFINE marks == Marks(T, mark)
           sofar == Pieces(parts, marks)
<1>1. /\ parts \in Seq(Seq(T)) /\ Append(parts, unit) \in Seq(Seq(T))
      /\ <<mark>> \o unit \in Seq(T)
  BY DEF Some1
<1>2. /\ marks \in [Seq(T) -> Seq(T)] /\ Joined(parts, mark) = Tail(sofar)
      /\ Joined(Append(parts, unit), mark) = Tail(Pieces(Append(parts, unit), marks))
  BY <1>1, JoinedIs
<1>4. Pieces(Append(parts, unit), marks) = sofar \o (<<mark>> \o unit)
  BY <1>1, MarkedAppend
<1>5. sofar \in Seq(T) /\ sofar # <<>>
  <2>1. PICK front \in Seq(Seq(T)), last \in Seq(T) : parts = Append(front, last)
    BY SequenceEmptyOrAppend DEF Some1
  <2>2. sofar = Pieces(front, marks) \o (<<mark>> \o last) /\ Pieces(front, marks) \in Seq(T)
    BY <2>1, MarkedAppend
  <2> HIDE DEF marks
  <2>3. Pieces(front, marks) \in Seq(T) /\ <<mark>> \o last \in Seq(T) /\ <<mark>> \o last # <<>>
    <3>1. <<mark>> \in Seq(T) /\ <<mark>> # <<>>
      OBVIOUS
    <3>2. QED
      BY <2>2, <3>1, ConcatProperties, ConcatEqualIffEmpty
  <2>4. QED
    BY <2>2, <2>3, ConcatProperties, ConcatEqualIffEmpty
<1> HIDE DEF sofar
<1>6. Tail(sofar) \in Seq(T)
  BY <1>5, HeadTailProperties
<1>7. Tail(sofar \o (<<mark>> \o unit)) = Tail(sofar) \o (<<mark>> \o unit)
  BY <1>1, <1>5, TailOn
<1>8. QED
  BY <1>2, <1>4, <1>6, <1>7

\* The parts of what is joined are what was joined, when no part has the mark: what
\* the validation of modes and expressions is for (validate_track_syntax).
THEOREM PartsOfJoined ==
  ASSUME NEW T, NEW mark \in T, NEW parts \in Some1(Seq(T \ {mark}))
  PROVE  Parts(Joined(parts, mark), mark) = parts
<1> DEFINE S == T \ {mark}
           F == Seq(S)
           Good(ps) == Parts(Joined(ps, mark), mark) = ps
           B == {ps \in Some1(F) : ~Good(ps)}
<1>0. S \subseteq T /\ F \subseteq Seq(T) /\ <<>> \in F
  BY SeqMonotonic
<1>1. ASSUME NEW p \in F PROVE Good(<<p>>)
  <2>1. p \in Seq(T)
    BY <1>0
  <2>2. Joined(<<p>>, mark) = p
    BY <2>1, JoinedOne
  <2>3. Parts(<<>>, mark) = Append(<<>>, <<>>)
    <3>1. <<>> \in Seq(T)
      OBVIOUS
    <3>2. QED
      BY <3>1, PartsType
  <2>4. Parts(<<>> \o p, mark) = Append(<<>>, p)
    <3>1. <<>> \in Seq(T) /\ <<>> \in Seq(Seq(S)) /\ <<>> \in Seq(S) /\ p \in Seq(S)
      OBVIOUS
    <3>2. EndsWith(T, S, <<>>, mark, <<>>, <<>>)
      BY <2>3, <3>1 DEF EndsWith
    <3> HIDE DEF S, F
    <3>3. PICK none : none = <<>>
      OBVIOUS
    <3>4. EndsWith(T, S, none, mark, none, <<>>)
      BY <3>2, <3>3
    <3>5. Parts(none \o p, mark) = Append(none, p)
      BY <3>1, <3>4, PartBegins
    <3>6. QED
      BY <3>3, <3>5
  <2>5. <<>> \o p = p /\ Append(<<>>, p) = <<p>>
    BY ConcatEmptySeq
  <2>6. QED
    BY <2>2, <2>4, <2>5
<1>2. ASSUME NEW ps \in Some1(F), NEW p \in F, Good(ps) PROVE Good(Append(ps, p))
  <2> DEFINE line == Joined(ps, mark)
  <2>1. ps \in Some1(Seq(T)) /\ p \in Seq(T)
    <3>1. F \subseteq Seq(T) /\ ps \in Seq(F) /\ ps # <<>>
      BY <1>0 DEF Some1
    <3> HIDE DEF F
    <3>2. ps \in Seq(Seq(T))
      BY <3>1, SeqMonotonic
    <3>3. QED
      BY <3>1, <3>2 DEF Some1
  <2>2. line \in Seq(T) /\ Joined(Append(ps, p), mark) = line \o (<<mark>> \o p)
    BY <2>1, JoinedAppend
  <2>3. Parts(line, mark) = ps /\ ps \in Seq(Seq(T \ {mark}))
    BY <1>2 DEF Some1
  <2> HIDE DEF line
  <2>4. line \o (<<mark>> \o p) = Append(line, mark) \o p /\ Append(line, mark) \in Seq(T)
    <3>1. <<mark>> \in Seq(T) /\ Append(line, mark) \in Seq(T)
      BY <2>2
    <3>2. Append(line, mark) = line \o <<mark>>
      BY <2>2, AppendIsConcat
    <3>3. (line \o <<mark>>) \o p = line \o (<<mark>> \o p)
      BY <2>1, <2>2, <3>1, ConcatAssociative
    <3>4. QED
      BY <3>1, <3>2, <3>3
  <2>5. Parts(Append(line, mark), mark) = Append(ps, <<>>)
    BY <2>2, <2>3, PartsAppend DEF Grown
  <2>6. Parts(Append(line, mark) \o p, mark) = Append(ps, p)
    <3> DEFINE next == Append(line, mark)
    <3>1. <<>> \in Seq(S) /\ p \in Seq(S) /\ ps \in Seq(Seq(S)) /\ next \in Seq(T)
      BY <2>4 DEF Some1
    <3>2. EndsWith(T, S, next, mark, ps, <<>>)
      BY <2>5, <3>1 DEF EndsWith
    <3> HIDE DEF S, F, next
    <3>3. Parts(next \o p, mark) = Append(ps, p)
      BY <3>1, <3>2, PartBegins
    <3>4. QED
      BY <3>3 DEF next
  <2>7. QED
    BY <2>2, <2>4, <2>6
<1>3. B = {}
  <2>1. SUFFICES ASSUME B # {} PROVE FALSE
    OBVIOUS
  <2>2. B \in SUBSET Seq(F) /\ <<>> \notin B
    BY DEF Some1
  <2> HIDE DEF B
  <2>3. PICK ps \in Seq(F), p \in F : ps \notin B /\ Append(ps, p) \in B
    BY <2>1, <2>2, FirstToFail
  <2> HIDE DEF F, Good
  <2>4. CASE ps = <<>>
    <3>1. Append(ps, p) = <<p>>
      BY <2>4
    <3>2. QED
      BY <1>1, <2>3, <3>1 DEF B
  <2>5. CASE ps # <<>>
    <3>1. ps \in Some1(F)
      BY <2>5 DEF Some1
    <3>2. QED
      BY <1>2, <2>3, <3>1 DEF B
  <2>6. QED
    BY <2>4, <2>5
<1>4. QED
  BY <1>3

\* And the other way round, for all lines.
LEMMA JoinedOfParts ==
  ASSUME NEW T, NEW mark \in T, NEW line \in Seq(T)
  PROVE  Joined(Parts(line, mark), mark) = line
<1> DEFINE S == T \ {mark}
           Good(l) == Joined(Parts(l, mark), mark) = l
           B == {l \in Seq(T) : ~Good(l)}
<1>0. S \subseteq T /\ Seq(S) \subseteq Seq(T) /\ <<>> \in Seq(S) /\ <<>> \in Seq(T)
  BY SeqMonotonic
<1>1. Good(<<>>)
  BY <1>0, PartsType, JoinedOne
<1>2. ASSUME NEW l \in Seq(T), NEW c \in T, Good(l) PROVE Good(Append(l, c))
  <2>1. Parts(l, mark) \in Some1(Seq(S))
    BY PartsType
  <2> HIDE DEF S
  <2>2. PICK front \in Seq(Seq(S)), last \in Seq(S) : Parts(l, mark) = Append(front, last)
    <3> DEFINE F == Seq(S)
               ps == Parts(l, mark)
    <3>1. ps \in Seq(F) /\ ps # <<>>
      BY <2>1 DEF Some1
    <3> HIDE DEF F, ps
    <3>2. \E f \in Seq(F), e \in F : ps = Append(f, e)
      BY <3>1, SequenceEmptyOrAppend
    <3>3. QED
      BY <3>2 DEF F, ps
  <2>3. front \in Seq(Seq(T)) /\ last \in Seq(T)
    BY <1>0, SeqMonotonic
  <2>4. Parts(Append(l, c), mark) = Grown(Append(front, last), c, mark)
    BY <2>2, PartsAppend
  <2>5. c \in S \cup {mark}
    BY DEF S
  <2>6. Parts(Append(l, c), mark)
          = IF c = mark THEN Append(Append(front, last), <<>>) ELSE Append(front, Append(last, c))
    BY <2>4, <2>5, GrownIs
  <2>7. CASE c = mark
    <3>1. Append(front, last) \in Some1(Seq(T))
      <4>1. Append(front, last) \in Seq(Seq(T)) /\ Append(front, last) # <<>>
        BY <2>3, AppendProperties
      <4>2. QED
        BY <4>1 DEF Some1
    <3>2. Joined(Append(Append(front, last), <<>>), mark)
            = Joined(Append(front, last), mark) \o (<<mark>> \o <<>>)
      BY <1>0, <3>1, JoinedAppend
    <3>3. Joined(Append(front, last), mark) = l
      BY <1>2, <2>2
    <3>4. <<mark>> \o <<>> = <<mark>> /\ l \o <<mark>> = Append(l, mark)
      BY AppendIsConcat
    <3>5. QED
      BY <2>6, <2>7, <3>2, <3>3, <3>4
  <2>8. CASE c # mark
    <3>1. Append(last, c) \in Seq(T)
      BY <2>3
    <3>2. CASE front = <<>>
      <4>1. Append(front, last) = <<last>> /\ Append(front, Append(last, c)) = <<Append(last, c)>>
        BY <3>2
      <4>2. Joined(<<last>>, mark) = last /\ Joined(<<Append(last, c)>>, mark) = Append(last, c)
        BY <2>3, <3>1, JoinedOne
      <4>3. QED
        BY <1>2, <2>2, <2>6, <2>8, <4>1, <4>2
    <3>3. CASE front # <<>>
      <4> DEFINE start == Joined(front, mark)
      <4>1. front \in Some1(Seq(T))
        BY <2>3, <3>3 DEF Some1
      <4>2. /\ start \in Seq(T)
            /\ Joined(Append(front, last), mark) = start \o (<<mark>> \o last)
            /\ Joined(Append(front, Append(last, c)), mark)
                 = start \o (<<mark>> \o Append(last, c))
        BY <2>3, <3>1, <4>1, JoinedAppend
      <4> HIDE DEF start
      <4>3. <<mark>> \o Append(last, c) = Append(<<mark>> \o last, c) /\ <<mark>> \o last \in Seq(T)
        BY <2>3
      <4>4. start \o Append(<<mark>> \o last, c) = Append(start \o (<<mark>> \o last), c)
        <5> DEFINE more == <<mark>> \o last
        <5>1. more \in Seq(T)
          BY <4>3
        <5> HIDE DEF more
        <5>2. start \o Append(more, c) = Append(start \o more, c)
          BY <4>2, <5>1
        <5>3. QED
          BY <5>2 DEF more
      <4>5. QED
        BY <1>2, <2>2, <2>6, <2>8, <4>2, <4>3, <4>4
    <3>4. QED
      BY <3>2, <3>3
  <2>9. QED
    BY <2>7, <2>8
<1>3. B = {}
  <2>1. SUFFICES ASSUME B # {} PROVE FALSE
    OBVIOUS
  <2>2. B \in SUBSET Seq(T) /\ <<>> \notin B
    BY <1>1
  <2> HIDE DEF B
  <2>3. PICK l \in Seq(T), c \in T : l \notin B /\ Append(l, c) \in B
    BY <2>1, <2>2, FirstToFail
  <2>4. QED
    BY <1>2, <2>3 DEF B
<1>4. QED
  BY <1>3

-----------------------------------------------------------------------------
(* Numbers, and the first section of a movement.                           *)

Clean == Tokens \ {",", "|"}

LEMMA NumeralIs ==
  ASSUME NEW n \in Numbers
  PROVE  /\ <<Numeral[n]>> \in Seq(Clean) /\ <<Numeral[n]>> \in Without(Controls)
         /\ IsNumber(<<Numeral[n]>>) /\ NumberOf(<<Numeral[n]>>) = n
<1>1. Numeral[n] \in Tokens \ {",", "|", "\\", "n", "LF", "CR"} /\ Numeral[n] \in Numerals
  BY SomeTokens DEF Numerals
<1>2. <<Numeral[n]>> \in Seq(Clean)
  <2>1. Numeral[n] \in Clean
    BY <1>1 DEF Clean
  <2>2. QED
    BY <2>1
<1>3. <<Numeral[n]>> \in Without(Controls)
  <2> DEFINE T == Tokens \ Controls
  <2>1. Numeral[n] \in T
    BY <1>1 DEF Controls
  <2> HIDE DEF T
  <2>2. <<Numeral[n]>> \in Seq(T)
    BY <2>1
  <2>3. QED
    BY <2>2 DEF Without, T
<1>4. Len(<<Numeral[n]>>) = 1 /\ <<Numeral[n]>>[1] = Numeral[n]
  OBVIOUS
<1>5. NumberOf(<<Numeral[n]>>) = n
  <2>1. \A k \in Numbers : Numeral[k] = Numeral[n] <=> k = n
    BY SpellingAssumption
  <2>2. QED
    BY <1>4, <2>1 DEF NumberOf
<1>6. QED
  BY <1>1, <1>2, <1>3, <1>4, <1>5 DEF IsNumber

LEMMA NumberIs ==
  ASSUME NEW T, NEW field \in Seq(T), IsNumber(field)
  PROVE  NumberOf(field) \in Numbers /\ field = <<Numeral[NumberOf(field)]>>
<1>1. PICK n \in Numbers : Numeral[n] = field[1]
  BY DEF IsNumber, Numerals
<1>2. NumberOf(field) \in Numbers /\ Numeral[NumberOf(field)] = field[1]
  BY <1>1 DEF NumberOf
<1>3. field = <<field[1]>>
  BY DEF IsNumber
<1>4. QED
  BY <1>2, <1>3

\* Spelled one by one.
LEMMA SpelledIs ==
  ASSUME NEW numbers \in Seq(Numbers)
  PROVE  /\ Spelled(numbers) \in Seq(Seq(Clean)) /\ Len(Spelled(numbers)) = Len(numbers)
         /\ \A k \in 1 .. Len(numbers) :
              /\ Spelled(numbers)[k] = <<Numeral[numbers[k]]>> /\ numbers[k] \in Numbers
              /\ IsNumber(Spelled(numbers)[k])
         /\ NumbersOf(Spelled(numbers)) = numbers
<1> DEFINE fields == Spelled(numbers)
           S == Seq(Clean)
<1>1. /\ Len(numbers) \in Nat /\ DOMAIN numbers = 1 .. Len(numbers)
      /\ numbers \in [1 .. Len(numbers) -> Numbers]
  BY LenProperties
<1>2. \A k \in 1 .. Len(numbers) : <<Numeral[numbers[k]]>> \in S
  BY <1>1, NumeralIs
<1>3. fields = [k \in 1 .. Len(numbers) |-> <<Numeral[numbers[k]]>>]
  BY <1>1 DEF Spelled
<1> HIDE DEF fields, S
<1>4. fields \in Seq(S)
  BY <1>1, <1>2, <1>3, IsASeq
<1>5. DOMAIN fields = 1 .. Len(numbers) /\ Len(fields) = Len(numbers)
  BY <1>1, <1>3, <1>4, LenProperties
<1>6. ASSUME NEW k \in 1 .. Len(numbers)
      PROVE  /\ fields[k] = <<Numeral[numbers[k]]>> /\ numbers[k] \in Numbers
             /\ IsNumber(fields[k]) /\ NumberOf(fields[k]) = numbers[k]
  BY <1>1, <1>3, NumeralIs
<1>7. NumbersOf(fields) = numbers
  <2>1. NumbersOf(fields) = [k \in 1 .. Len(numbers) |-> NumberOf(fields[k])]
    BY <1>5 DEF NumbersOf
  <2>2. NumbersOf(fields) = [k \in 1 .. Len(numbers) |-> numbers[k]]
    BY <1>6, <2>1
  <2>3. QED
    BY <1>1, <2>2
<1>8. QED
  BY <1>4, <1>5, <1>6, <1>7 DEF fields, S

LEMMA NumbersOfIs ==
  ASSUME NEW T, NEW fields \in Seq(Seq(T)), \A k \in 1 .. Len(fields) : IsNumber(fields[k])
  PROVE  /\ NumbersOf(fields) \in Seq(Numbers) /\ Len(NumbersOf(fields)) = Len(fields)
         /\ Spelled(NumbersOf(fields)) = fields
<1> DEFINE numbers == NumbersOf(fields)
           n == Len(fields)
<1>1. /\ n \in Nat /\ DOMAIN fields = 1 .. n /\ \A k \in 1 .. n : fields[k] \in Seq(T)
      /\ fields = [k \in 1 .. n |-> fields[k]]
  BY LenProperties, ElementOfSeq
<1>2. \A k \in 1 .. n : NumberOf(fields[k]) \in Numbers
                        /\ fields[k] = <<Numeral[NumberOf(fields[k])]>>
  BY <1>1, NumberIs
<1>3. numbers = [k \in 1 .. n |-> NumberOf(fields[k])]
  BY <1>1 DEF NumbersOf
<1> HIDE DEF numbers, n
<1>4. numbers \in Seq(Numbers)
  <2>1. \A k \in 1 .. n : NumberOf(fields[k]) \in Numbers
    BY <1>2
  <2>0. n \in Nat
    BY <1>1
  <2>2. numbers \in [1 .. n -> Numbers]
    BY <1>3, <2>1
  <2>3. QED
    BY <2>0, <2>2, SeqDef
<1>5. DOMAIN numbers = 1 .. n /\ Len(numbers) = n
  BY <1>1, <1>3, <1>4, LenProperties
<1>6. Spelled(numbers) = fields
  <2>1. Spelled(numbers) = [k \in 1 .. n |-> <<Numeral[numbers[k]]>>]
    BY <1>5 DEF Spelled
  <2>2. \A k \in 1 .. n : <<Numeral[numbers[k]]>> = fields[k]
    BY <1>2, <1>3
  <2>3. QED
    BY <1>1, <2>1, <2>2
<1>7. QED
  BY <1>4, <1>5, <1>6 DEF numbers, n

LEMMA JoinedType ==
  ASSUME NEW T, NEW mark \in T, NEW parts \in Some1(Seq(T))
  PROVE  Joined(parts, mark) \in Seq(T)
<1>1. <<>> \in Seq(T)
  OBVIOUS
<1>2. QED
  BY <1>1, JoinedAppend

Sections == Seq(Tokens \ {"|"})

\* The mode of the host, as a field.
LEMMA ModeIs ==
  ASSUME NEW mode \in HostModes
  PROVE  /\ mode \in Seq(Clean) /\ mode \in Without(Controls) /\ mode # <<>> /\ ~IsNumber(mode)
         /\ ToSet(mode) \cap Controls = {}
<1>1. mode \in Lines /\ ToSet(mode) \cap Controls = {} /\ ToSet(mode) \cap {",", "|"} = {}
      /\ mode # <<>> /\ ~IsNumber(mode)
  BY ItemAssumption DEF Plain
<1>2. mode \in Without(Controls) /\ mode \in Without({",", "|"})
  BY <1>1, WithoutIs
<1>3. QED
  BY <1>1, <1>2 DEF Without, Clean

FieldsOf(values, mode, flags) == Spelled(values) \o <<mode>> \o Spelled(<<flags>>)

LEMMA FieldsAre ==
  ASSUME NEW values \in Seq(Numbers), NEW mode \in HostModes, NEW flags \in Numbers
  PROVE  LET fields == FieldsOf(values, mode, flags)
             n == Len(values) + 2
         IN /\ fields \in Some1(Seq(Clean)) /\ Len(fields) = n /\ n \in Nat /\ n >= 2
            /\ fields[n] = <<Numeral[flags]>> /\ fields[n - 1] = mode
            /\ SubSeq(fields, 1, n - 2) = Spelled(values)
            /\ \A k \in 1 .. n - 2 : IsNumber(fields[k])
<1> DEFINE fields == FieldsOf(values, mode, flags)
           n == Len(values) + 2
           V == Spelled(values)
           W == Spelled(<<flags>>)
           F == Seq(Clean)
           rest == <<mode>> \o W
<1>1. V \in Seq(F) /\ Len(V) = Len(values) /\ \A k \in 1 .. Len(values) : IsNumber(V[k])
  BY SpelledIs
<1>2. W \in Seq(F) /\ Len(W) = 1 /\ W[1] = <<Numeral[flags]>>
  <2>1. <<flags>> \in Seq(Numbers) /\ Len(<<flags>>) = 1 /\ <<flags>>[1] = flags
    OBVIOUS
  <2>2. 1 \in 1 .. 1
    OBVIOUS
  <2>3. QED
    BY <2>1, <2>2, SpelledIs
<1>3. mode \in F /\ Len(values) \in Nat
  BY ModeIs, LenProperties
<1>4. fields = (V \o <<mode>>) \o W
  BY DEF FieldsOf
<1> HIDE DEF fields, V, W, F
<1>5. /\ V \o <<mode>> \in Seq(F) /\ Len(V \o <<mode>>) = Len(V) + 1
      /\ (V \o <<mode>>)[Len(V) + 1] = mode
      /\ \A k \in 1 .. Len(V) : (V \o <<mode>>)[k] = V[k]
  <2>1. V \o <<mode>> = Append(V, mode)
    BY <1>1, <1>3, AppendIsConcat
  <2>2. QED
    BY <1>1, <1>3, <2>1, AppendProperties
<1>6. /\ fields \in Seq(F) /\ Len(fields) = n /\ n \in Nat /\ n >= 2
      /\ fields[n] = W[1] /\ fields[n - 1] = mode
      /\ \A k \in 1 .. Len(V) : fields[k] = V[k]
  <2> DEFINE P == V \o <<mode>>
  <2>1. P \in Seq(F) /\ Len(P) = Len(values) + 1 /\ P[Len(values) + 1] = mode
        /\ \A k \in 1 .. Len(values) : P[k] = V[k]
    BY <1>1, <1>5
  <2> HIDE DEF P
  <2>2. /\ P \o W \in Seq(F) /\ Len(P \o W) = Len(P) + Len(W)
        /\ \A i \in 1 .. Len(P) + Len(W) : (P \o W)[i] = IF i <= Len(P) THEN P[i] ELSE W[i - Len(P)]
    BY <1>2, <2>1, ConcatProperties
  <2>3. fields = P \o W
    BY <1>4 DEF P
  <2> DEFINE L == P \o W
  <2> HIDE DEF L
  <2>4. /\ L \in Seq(F) /\ Len(L) = Len(values) + 2
        /\ \A i \in 1 .. Len(values) + 2 :
             L[i] = IF i <= Len(values) + 1 THEN P[i] ELSE W[i - (Len(values) + 1)]
    BY <1>2, <1>3, <2>1, <2>2 DEF L
  <2>5. L[Len(values) + 2] = W[1] /\ L[Len(values) + 1] = mode
    <3>1. Len(values) + 2 \in 1 .. Len(values) + 2 /\ Len(values) + 1 \in 1 .. Len(values) + 2
          /\ Len(values) + 2 - (Len(values) + 1) = 1
      BY <1>3
    <3>2. QED
      BY <1>3, <2>1, <2>4, <3>1
  <2>6. \A k \in 1 .. Len(V) : L[k] = V[k]
    <3>1. TAKE k \in 1 .. Len(V)
    <3>2. k \in 1 .. Len(values)
      BY <1>1
    <3>3. k \in 1 .. Len(values) + 2 /\ k <= Len(values) + 1
      BY <1>3, <3>2
    <3>4. P[k] = V[k]
      BY <2>1, <3>2
    <3>5. L[k] = P[k]
      BY <2>4, <3>3
    <3>6. QED
      BY <3>4, <3>5
  <2>7. n - 1 = Len(values) + 1 /\ n \in Nat /\ n >= 2
    BY <1>3
  <2>8. QED
    BY <2>3, <2>4, <2>5, <2>6, <2>7 DEF L
<1>7. \A k \in 1 .. n - 2 : fields[k] = V[k] /\ fields[k] \in F
  BY <1>1, <1>3, <1>6, ElementOfSeq
<1>8. SubSeq(fields, 1, n - 2) = V
  <2> DEFINE s == SubSeq(fields, 1, n - 2)
  <2>1. n - 2 = Len(V) /\ n - 2 \in Int /\ 1 \in Int
    BY <1>1, <1>3
  <2>2. /\ s \in Seq(F) /\ Len(s) = IF 1 <= n - 2 THEN n - 2 - 1 + 1 ELSE 0
        /\ \A i \in 1 .. n - 2 - 1 + 1 : s[i] = fields[1 + i - 1]
    BY <1>7, <2>1, SubSeqProperties
  <2> HIDE DEF s
  <2>3. Len(s) = Len(V) /\ \A i \in 1 .. Len(V) : s[i] = V[i]
    BY <1>1, <1>3, <1>7, <2>1, <2>2
  <2>4. QED
    BY <1>1, <2>2, <2>3, SeqEqual DEF s
<1>9. \A k \in 1 .. n - 2 : IsNumber(fields[k])
  BY <1>1, <1>3, <1>7
<1>10. fields \in Some1(F)
  BY <1>6, EmptySeq DEF Some1
<1>11. QED
  BY <1>2, <1>6, <1>8, <1>9, <1>10 DEF fields, V, F

LEMMA FirstSectionIs ==
  ASSUME NEW values \in Seq(Numbers), NEW mode \in HostModes, NEW flags \in Numbers
  PROVE  /\ FirstSection(values, <<mode>>, flags) \in Sections
         /\ Parts(FirstSection(values, <<mode>>, flags), ",") = FieldsOf(values, mode, flags)
<1> DEFINE fields == FieldsOf(values, mode, flags)
           T == Tokens \ {"|"}
<1>1. fields \in Some1(Seq(Clean))
  BY FieldsAre
<1>2. "," \in T /\ T \ {","} = Clean /\ Seq(Clean) \subseteq Seq(T)
  <2>1. "," \in Tokens /\ "," # "|"
    BY SomeTokens
  <2>2. QED
    BY <2>1, SeqMonotonic DEF Clean
<1>3. fields \in Some1(Seq(T))
  <2>1. fields \in Seq(Seq(T)) /\ fields # <<>>
    BY <1>1, <1>2, SeqMonotonic DEF Some1
  <2>2. QED
    BY <2>1 DEF Some1
<1>4. FirstSection(values, <<mode>>, flags) = Joined(fields, ",")
  BY DEF FirstSection, FieldsOf
<1> HIDE DEF fields, T
<1>5. Joined(fields, ",") \in Seq(T)
  BY <1>2, <1>3, JoinedType
<1>6. Parts(Joined(fields, ","), ",") = fields
  BY <1>1, <1>2, PartsOfJoined
<1>7. QED
  BY <1>4, <1>5, <1>6 DEF fields, T, Sections

-----------------------------------------------------------------------------
(* A line of a movement, and of a number, as both sides read it.           *)

\* A line that is one part.
LEMMA OnePart ==
  ASSUME NEW T, NEW mark, NEW line \in Seq(T \ {mark})
  PROVE  Parts(line, mark) = <<line>>
<1> DEFINE S == T \ {mark}
<1>1. PICK none : none = <<>>
  OBVIOUS
<1>2. EndsWith(T, S, none, mark, none, <<>>)
  <2>1. <<>> \in Seq(T) /\ <<>> \in Seq(S) /\ <<>> \in Seq(Seq(S))
    OBVIOUS
  <2>2. Parts(<<>>, mark) = << <<>> >>
    BY <2>1, PartsType
  <2>3. Append(<<>>, <<>>) = << <<>> >>
    OBVIOUS
  <2>4. QED
    BY <1>1, <2>1, <2>2, <2>3 DEF EndsWith
<1>3. line \in Seq(S)
  OBVIOUS
<1> HIDE DEF S
<1>4. Parts(none \o line, mark) = Append(none, line)
  BY <1>2, <1>3, PartBegins
<1>5. <<>> \o line = line /\ Append(<<>>, line) = <<line>>
  BY <1>3, ConcatEmptySeq
<1>6. QED
  BY <1>1, <1>4, <1>5

LEMMA NumberLine ==
  ASSUME NEW n \in Numbers
  PROVE  /\ <<Numeral[n]>> \in Lines
         /\ DecodedTrack(<<Numeral[n]>>) = Readable(Static(n))
         /\ HostReads(<<Numeral[n]>>) = Number(n)
<1> DEFINE line == <<Numeral[n]>>
<1>1. line \in Seq(Clean) /\ IsNumber(line) /\ NumberOf(line) = n
  BY NumeralIs
<1> HIDE DEF line
<1>2. line \in Seq(Tokens \ {"|"}) /\ line \in Seq(Tokens \ {","}) /\ line \in Lines
  BY <1>1, SeqMonotonic DEF Clean, Lines
<1>3. Parts(line, "|") = <<line>> /\ Parts(line, ",") = <<line>>
  BY <1>2, OnePart
<1>4. Head(<<line>>) = line /\ Tail(<<line>>) = <<>> /\ Len(<<line>>) = 1 /\ <<line>>[1] = line
  OBVIOUS
<1>5. DecodedTrack(line) = DecodedFields(<<line>>, <<>>)
      /\ HostReads(line) = HostReadsFields(<<line>>, <<>>)
  BY <1>3, <1>4 DEF DecodedTrack, DecodedSections, HostReads, HostReadsParts
<1>6. DecodedFields(<<line>>, <<>>) = Readable(Static(n))
  BY <1>1, <1>4 DEF DecodedFields
<1>7. HostReadsFields(<<line>>, <<>>) = Number(n)
  BY <1>1, <1>4 DEF HostReadsFields
<1>8. QED
  BY <1>2, <1>5, <1>6, <1>7 DEF line

LineOf(values, mode, flags, rest) ==
  Joined(<<FirstSection(values, <<mode>>, flags)>> \o rest, "|")

LEMMA LineIs ==
  ASSUME NEW values \in Seq(Numbers), values # <<>>, NEW mode \in HostModes,
         NEW flags \in Numbers, NEW rest \in Seq(Sections)
  PROVE  /\ LineOf(values, mode, flags, rest) \in Lines
         /\ DecodedTrack(LineOf(values, mode, flags, rest))
              = DecodedMovement(Spelled(values), mode, flags, rest)
         /\ HostReads(LineOf(values, mode, flags, rest))
              = Movement(values, mode, flags, NotEmpty(rest))
<1> DEFINE first == FirstSection(values, <<mode>>, flags)
           parts == <<first>> \o rest
           line == LineOf(values, mode, flags, rest)
           fields == FieldsOf(values, mode, flags)
           n == Len(values) + 2
<1>1. first \in Sections /\ Parts(first, ",") = fields
  BY FirstSectionIs
<1>2. /\ fields \in Some1(Seq(Clean)) /\ Len(fields) = n /\ n \in Nat
      /\ fields[n] = <<Numeral[flags]>> /\ fields[n - 1] = mode
      /\ SubSeq(fields, 1, n - 2) = Spelled(values)
      /\ \A k \in 1 .. n - 2 : IsNumber(fields[k])
  BY FieldsAre
<1>3. n > 2
  BY EmptySeq
<1> HIDE DEF first, n
<1>4. parts \in Some1(Sections) /\ Head(parts) = first /\ Tail(parts) = rest
  <2>1. <<first>> \in Seq(Sections) /\ <<first>> # <<>> /\ Len(<<first>>) = 1
    <3>1. first \in Sections
      BY <1>1
    <3>2. <<first>> \in Seq(Sections)
      BY <3>1
    <3>3. <<first>> # <<>> /\ Len(<<first>>) = 1
      OBVIOUS
    <3>4. QED
      BY <3>2, <3>3
  <2>2. parts \in Seq(Sections) /\ parts # <<>>
    BY <2>1, ConcatProperties, ConcatEqualIffEmpty
  <2>3. Tail(parts) = Tail(<<first>>) \o rest
    <3> HIDE DEF parts
    <3> QED BY <2>1, TailOn DEF parts
  <2>4. Tail(<<first>>) = <<>> /\ <<>> \o rest = rest
    BY ConcatEmptySeq
  <2>5. parts[1] = first /\ Head(parts) = parts[1]
    <3>1. parts[1] = IF 1 <= 1 THEN <<first>>[1] ELSE rest[1 - 1]
      <4>1. 1 \in 1 .. 1 + Len(rest)
        BY LenProperties
      <4>2. QED
        BY <2>1, <4>1, ConcatProperties
    <3>2. Head(parts) = parts[1]
      OBVIOUS
    <3>3. QED
      BY <3>1, <3>2
  <2>6. QED
    BY <2>2, <2>3, <2>4, <2>5 DEF Some1
<1> HIDE DEF parts
<1>5. "|" \in Tokens /\ Sections \subseteq Seq(Tokens)
  BY SomeTokens, SeqMonotonic DEF Sections
<1>6. line = Joined(parts, "|")
  BY DEF LineOf, parts, first
<1> HIDE DEF line
<1>7. line \in Lines
  <2>1. parts \in Seq(Seq(Tokens)) /\ parts # <<>>
    BY <1>4, <1>5, SeqMonotonic DEF Some1
  <2>2. parts \in Some1(Seq(Tokens))
    BY <2>1 DEF Some1
  <2>3. QED
    BY <1>5, <1>6, <2>2, JoinedType DEF Lines
<1>8. Parts(line, "|") = parts
  BY <1>4, <1>5, <1>6, PartsOfJoined DEF Sections
<1>9. DecodedTrack(line) = DecodedFields(fields, rest) /\ HostReads(line) = HostReadsFields(fields, rest)
  BY <1>1, <1>4, <1>8 DEF DecodedTrack, DecodedSections, HostReads, HostReadsParts
<1>10. IsNumber(fields[n]) /\ NumberOf(fields[n]) = flags
  BY <1>2, NumeralIs
<1>11. mode # <<>> /\ ~IsNumber(mode) /\ ToSet(mode) \cap Controls = {}
  BY ModeIs
<1>12. NumbersOf(Spelled(values)) = values
  BY SpelledIs
<1> HIDE DEF fields
<1>13. DecodedFields(fields, rest) = DecodedMovement(Spelled(values), mode, flags, rest)
  <2>1. n # 1 /\ ~(n < 3)
    BY <1>2, <1>3
  <2>2. QED
    BY <1>2, <1>10, <1>11, <2>1 DEF DecodedFields
<1>14. HostReadsFields(fields, rest) = Movement(values, mode, flags, NotEmpty(rest))
  <2>1. n # 1 /\ n > 2
    BY <1>2, <1>3
  <2>2. QED
    BY <1>2, <1>10, <1>12, <2>1 DEF HostReadsFields
<1>15. QED
  BY <1>7, <1>9, <1>13, <1>14 DEF line

-----------------------------------------------------------------------------
(* Flags.                                                                  *)

LEMMA FlagsSplit ==
  ASSUME NEW flags \in Nat
  PROVE  (flags % 8) + (IF HasBit(flags, 8) THEN 8 ELSE 0) + (flags \div 16) * 16 = flags
<1> DEFINE q == flags \div 8
           r == flags % 8
<1>1. q \in Nat /\ r \in 0 .. 7 /\ flags = 8 * q + r
  OBVIOUS
<1>2. q = 2 * (q \div 2) + (q % 2) /\ q % 2 \in {0, 1} /\ q \div 2 \in Nat
  BY <1>1
<1>3. flags \div 16 = q \div 2
  BY <1>1, <1>2
<1>4. QED
  BY <1>1, <1>2, <1>3 DEF HasBit

LEMMA NoLowBits ==
  ASSUME NEW n \in Nat, \A bit \in {1, 2, 4, 8} : ~HasBit(n, bit)
  PROVE  n % 16 = 0
<1>1. ~HasBit(n, 1) /\ ~HasBit(n, 2) /\ ~HasBit(n, 4) /\ ~HasBit(n, 8)
  OBVIOUS
<1>2. n % 2 # 1 /\ (n \div 2) % 2 # 1 /\ (n \div 4) % 2 # 1 /\ (n \div 8) % 2 # 1
  BY <1>1 DEF HasBit
<1>3. QED
  BY <1>2

LEMMA FlagsOf ==
  ASSUME NEW named \in 0 .. 7, NEW reserved \in Nat, reserved % 16 = 0, NEW e \in {0, 8}
  PROVE  /\ HasBit(named + e + reserved, 8) <=> e = 8
         /\ (named + e + reserved) % 8 = named /\ ((named + e + reserved) \div 16) * 16 = reserved
<1>1. PICK k \in Nat : reserved = 16 * k
  OBVIOUS
<1>2. (named + e + reserved) \div 8 = 2 * k + (e \div 8)
  BY <1>1
<1>3. (named + e + reserved) \div 16 = k
  BY <1>1
<1>4. (named + e + reserved) % 8 = named
  BY <1>1
<1>5. QED
  BY <1>1, <1>2, <1>3, <1>4 DEF HasBit

-----------------------------------------------------------------------------
(* The sections after the first.                                           *)

Filled == Sections \ {<<>>}
Whether(parts) == [unit \in parts |-> IF unit = <<>> THEN <<>> ELSE <<unit>>]

LEMMA NotEmptyIs ==
  ASSUME NEW parts \in Seq(Sections)
  PROVE  /\ NotEmpty(parts) \in Seq(Filled) /\ NotEmpty(<<>>) = <<>>
         /\ \A unit \in Sections :
              NotEmpty(Append(parts, unit))
                = IF unit = <<>> THEN NotEmpty(parts) ELSE Append(NotEmpty(parts), unit)
<1> DEFINE W == Whether(Sections)
<1>1. \A unit \in Sections : (IF unit = <<>> THEN <<>> ELSE <<unit>>) \in Seq(Filled)
  <2>1. TAKE unit \in Sections
  <2>2. CASE unit = <<>>
    BY <2>2
  <2>3. CASE unit # <<>>
    <3>1. unit \in Filled
      BY <2>3 DEF Filled
    <3>2. <<unit>> \in Seq(Filled)
      BY <3>1
    <3>3. QED
      BY <2>3, <3>2
  <2>4. QED
    BY <2>2, <2>3
<1>2. /\ W \in [Sections -> Seq(Filled)]
      /\ \A unit \in Sections : W[unit] = IF unit = <<>> THEN <<>> ELSE <<unit>>
  BY <1>1 DEF Whether
<1>3. \A ps \in Seq(Sections) : NotEmpty(ps) = Pieces(ps, W)
  <2>1. TAKE ps \in Seq(Sections)
  <2>2. \A k \in DOMAIN ps : ps[k] \in Sections
    BY ElementOfSeq, LenProperties
  <2>3. [k \in DOMAIN ps |-> IF ps[k] = <<>> THEN <<>> ELSE <<ps[k]>>] = [k \in DOMAIN ps |-> W[ps[k]]]
    BY <1>2, <2>2
  <2>4. QED
    BY <2>3 DEF NotEmpty, Pieces
<1> HIDE DEF W
<1>4. NotEmpty(parts) \in Seq(Filled)
  BY <1>2, <1>3, SpreadIsSeq
<1>5. NotEmpty(<<>>) = <<>>
  <2>1. <<>> \in Seq(Sections)
    OBVIOUS
  <2>2. QED
    BY <1>3, <2>1, SpreadNothing
<1>6. ASSUME NEW unit \in Sections
      PROVE  NotEmpty(Append(parts, unit))
               = IF unit = <<>> THEN NotEmpty(parts) ELSE Append(NotEmpty(parts), unit)
  <2>1. Append(parts, unit) \in Seq(Sections)
    OBVIOUS
  <2>2. Pieces(Append(parts, unit), W) = Pieces(parts, W) \o W[unit]
    <3>1. W \in [Sections -> Seq(Filled)]
      BY <1>2
    <3>2. QED
      BY <3>1, SpreadAppend, SMTT(30)
  <2>3. NotEmpty(Append(parts, unit)) = NotEmpty(parts) \o W[unit]
    BY <1>3, <2>1, <2>2
  <2> DEFINE start == NotEmpty(parts)
  <2>4. start \in Seq(Filled)
    BY <1>4
  <2> HIDE DEF start
  <2>5. CASE unit = <<>>
    <3>1. start \o <<>> = start
      BY <2>4, ConcatEmptySeq
    <3>2. QED
      BY <1>2, <2>3, <2>5, <3>1 DEF start
  <2>6. CASE unit # <<>>
    <3>1. unit \in Filled
      BY <2>6 DEF Filled
    <3>2. start \o <<unit>> = Append(start, unit)
      BY <2>4, <3>1, AppendIsConcat
    <3>3. QED
      BY <1>2, <2>3, <2>6, <3>2 DEF start
  <2>7. QED
    BY <2>5, <2>6
<1>7. QED
  BY <1>4, <1>5, <1>6

LEMMA NotEmptyStays ==
  ASSUME NEW parts \in Seq(Filled)
  PROVE  NotEmpty(parts) = parts
<1> DEFINE B == {ps \in Seq(Filled) : NotEmpty(ps) # ps}
<1>0. Filled \subseteq Sections
  BY DEF Filled
<1>1. <<>> \notin B
  <2>1. <<>> \in Seq(Sections)
    OBVIOUS
  <2>2. QED
    BY <2>1, NotEmptyIs
<1>2. ASSUME NEW ps \in Seq(Filled), NEW p \in Filled, NotEmpty(ps) = ps
      PROVE  NotEmpty(Append(ps, p)) = Append(ps, p)
  <2>1. ps \in Seq(Sections) /\ p \in Sections /\ p # <<>>
    BY <1>0, SeqMonotonic DEF Filled
  <2>2. QED
    BY <1>2, <2>1, NotEmptyIs
<1>3. B = {}
  <2>1. SUFFICES ASSUME B # {} PROVE FALSE
    OBVIOUS
  <2>2. B \in SUBSET Seq(Filled)
    OBVIOUS
  <2> HIDE DEF B
  <2>3. PICK ps \in Seq(Filled), p \in Filled : ps \notin B /\ Append(ps, p) \in B
    BY <1>1, <2>1, <2>2, FirstToFail
  <2>4. QED
    BY <1>2, <2>3 DEF B
<1>4. QED
  BY <1>3

LEMMA FilledIs ==
  ASSUME NEW parts
  PROVE  parts \in Seq(Filled) <=>
           /\ parts \in Seq(Lines)
           /\ \A k \in DOMAIN parts : parts[k] # <<>> /\ "|" \notin ToSet(parts[k])
<1>1. \A unit : unit \in Filled <=> unit \in Lines /\ unit # <<>> /\ "|" \notin ToSet(unit)
  <2>1. \A unit \in Lines : unit \in Sections <=> "|" \notin ToSet(unit)
    <3>1. TAKE unit \in Lines
    <3>2. unit \in Without({"|"}) <=> ToSet(unit) \cap {"|"} = {}
      BY WithoutIs
    <3>3. QED
      BY <3>2 DEF Without, Sections
  <2>2. Sections \subseteq Lines
    BY SeqMonotonic DEF Sections, Lines
  <2>3. QED
    BY <2>1, <2>2 DEF Filled
<1>2. Filled \subseteq Lines
  BY <1>1
<1>3. ASSUME parts \in Seq(Filled)
      PROVE  /\ parts \in Seq(Lines)
             /\ \A k \in DOMAIN parts : parts[k] # <<>> /\ "|" \notin ToSet(parts[k])
  <2>1. \A k \in DOMAIN parts : parts[k] \in Filled
    BY <1>3, ElementOfSeq, LenProperties
  <2>2. QED
    BY <1>1, <1>2, <1>3, <2>1, SeqMonotonic
<1>4. ASSUME parts \in Seq(Lines),
             \A k \in DOMAIN parts : parts[k] # <<>> /\ "|" \notin ToSet(parts[k])
      PROVE  parts \in Seq(Filled)
  <2>1. Len(parts) \in Nat /\ DOMAIN parts = 1 .. Len(parts) /\ parts \in [1 .. Len(parts) -> Lines]
    BY <1>4, LenProperties
  <2>2. \A k \in 1 .. Len(parts) : parts[k] \in Filled
    BY <1>1, <1>4, <2>1
  <2>3. parts \in [1 .. Len(parts) -> Filled]
    BY <2>1, <2>2
  <2>4. QED
    BY <2>1, <2>3, SeqDef
<1>5. QED
  BY <1>3, <1>4

-----------------------------------------------------------------------------
(* Parameters, and movements as they are read.                             *)

ParamsText(params) == Joined(Spelled(params), ",")

LEMMA ParamsTextIs ==
  ASSUME NEW params \in Seq(Numbers), params # <<>>
  PROVE  /\ ParamsText(params) \in Filled /\ Parts(ParamsText(params), ",") = Spelled(params)
         /\ NumberList(ParamsText(params))
<1> DEFINE fields == Spelled(params)
           T == Tokens \ {"|"}
           text == Joined(fields, ",")
<1>1. fields \in Seq(Seq(Clean)) /\ Len(fields) = Len(params) /\ Len(params) # 0
      /\ \A k \in 1 .. Len(fields) : IsNumber(fields[k])
  <2>1. Len(params) # 0
    BY EmptySeq
  <2>2. QED
    BY <2>1, SpelledIs
<1>2. fields \in Some1(Seq(Clean))
  <2> HIDE DEF fields
  <2>1. fields # <<>>
    BY <1>1, EmptySeq
  <2>2. QED
    BY <1>1, <2>1 DEF Some1
<1>3. "," \in T /\ T \ {","} = Clean /\ Seq(Clean) \subseteq Seq(T)
  <2>1. "," \in Tokens /\ "," # "|"
    BY SomeTokens
  <2>2. QED
    BY <2>1, SeqMonotonic DEF Clean
<1> HIDE DEF fields, T
<1>4. fields \in Some1(Seq(T))
  <2>1. fields \in Seq(Seq(T)) /\ fields # <<>>
    BY <1>2, <1>3, SeqMonotonic DEF Some1
  <2>2. QED
    BY <2>1 DEF Some1
<1>5. text \in Seq(T)
  BY <1>3, <1>4, JoinedType
<1>6. Parts(text, ",") = fields
  BY <1>2, <1>3, PartsOfJoined
<1>7. text # <<>>
  <2>1. SUFFICES ASSUME text = <<>> PROVE FALSE
    OBVIOUS
  <2>2. <<>> \in Seq(T)
    OBVIOUS
  <2>3. Parts(<<>>, ",") = << <<>> >>
    BY <2>2, PartsType
  <2>4. fields = << <<>> >>
    BY <1>6, <2>1, <2>3
  <2>5. IsNumber(fields[1])
    BY <1>1, <2>4
  <2>6. QED
    BY <2>4, <2>5 DEF IsNumber
<1>8. NumberList(text)
  <2>1. \A field \in ToSet(fields) : IsNumber(field)
    BY <1>1, LenProperties DEF ToSet
  <2>2. QED
    BY <1>6, <2>1 DEF NumberList
<1>9. QED
  BY <1>5, <1>6, <1>7, <1>8 DEF ParamsText, fields, Filled, Sections, T

\* Parameters that are read are spelled as they were.
LEMMA ParamsReadIs ==
  ASSUME NEW text \in Lines, NumberList(text)
  PROVE  LET params == NumbersOf(Parts(text, ","))
         IN /\ params \in Seq(Numbers) /\ params # <<>> /\ ParamsText(params) = text
            /\ Spelled(params) = Parts(text, ",")
<1> DEFINE fields == Parts(text, ",")
           params == NumbersOf(fields)
           T == Tokens \ {","}
<1>1. fields \in Some1(Seq(T))
  BY PartsType DEF Lines
<1>2. \A k \in 1 .. Len(fields) : IsNumber(fields[k])
  <2>1. \A field \in ToSet(fields) : IsNumber(field)
    BY DEF NumberList
  <2> HIDE DEF fields, T
  <2>2. \A k \in 1 .. Len(fields) : fields[k] \in ToSet(fields)
    BY <1>1, LenProperties DEF ToSet, Some1
  <2>3. QED
    BY <2>1, <2>2
<1> HIDE DEF T
<1>3. params \in Seq(Numbers) /\ Len(params) = Len(fields) /\ Spelled(params) = fields
  <2> HIDE DEF fields
  <2>1. fields \in Seq(Seq(T))
    BY <1>1 DEF Some1
  <2>2. QED
    BY <1>2, <2>1, NumbersOfIs
<1>4. params # <<>>
  <2> HIDE DEF fields, params
  <2>1. Len(fields) # 0
    BY <1>1, EmptySeq DEF Some1
  <2>2. QED
    BY <1>3, <2>1
<1>5. Joined(fields, ",") = text
  BY SomeTokens, JoinedOfParts DEF Lines
<1>6. QED
  BY <1>3, <1>4, <1>5 DEF ParamsText

LEMMA NumbersAreNat == Numbers \subseteq Nat
<1>1. MaxNumber \in Nat
  BY SpellingAssumption
<1>2. QED
  BY <1>1 DEF Numbers

LEMMA JustOne ==
  ASSUME NEW S, NEW s \in Seq(S), s # <<>>, ~(Len(s) > 1)
  PROVE  Len(s) = 1 /\ DOMAIN s = 1 .. 1 /\ s[1] \in S /\ s = <<s[1]>>
<1>1. Len(s) \in Nat \ {0} /\ DOMAIN s = 1 .. Len(s)
  BY EmptySeq, LenProperties
<1>2. Len(s) = 1
  BY <1>1
<1>3. s[1] \in S
  BY <1>2, ElementOfSeq
<1>4. QED
  BY <1>1, <1>2, <1>3

\* What a movement is read as before its parameters are.
Base(values, mode, flags, expression) ==
  [values |-> values, mode |-> Some(mode), params |-> <<>>, named |-> flags % 8,
   reserved |-> (flags \div 16) * 16, expression |-> expression]

Announces(flags, expression) == HasBit(flags, 8) <=> expression # None

LEMMA BaseFlags ==
  ASSUME NEW values, NEW mode, NEW flags \in Nat, NEW expression, Announces(flags, expression)
  PROVE  FlagBits(Base(values, mode, flags, expression)) = flags
BY FlagsSplit DEF Base, FlagBits, None, Announces

Unreadable(flags, rest) ==
  HasBit(flags, 8) /\ (rest = <<>> \/ rest[1] = <<>> \/ ToSet(rest[1]) \cap Controls # {})

LEMMA DecodedIs ==
  ASSUME NEW values \in Seq(Numbers), NEW mode, NEW flags, NEW rest
  PROVE  DecodedMovement(Spelled(values), mode, flags, rest)
           = IF Unreadable(flags, rest) \/ Len(values) < 2 THEN NotRepresentable
             ELSE DecodedParams(
                    Base(values, mode, flags, IF HasBit(flags, 8) THEN Some(rest[1]) ELSE None),
                    IF HasBit(flags, 8) THEN Tail(rest) ELSE rest)
<1>1. /\ Len(Spelled(values)) = Len(values) /\ NumbersOf(Spelled(values)) = values
      /\ \A k \in 1 .. Len(values) : IsNumber(Spelled(values)[k])
      /\ Spelled(values) \in Seq(Seq(Clean))
  BY SpelledIs
<1> DEFINE V == Spelled(values)
<1> HIDE DEF V
<1>2. \A f \in ToSet(V) : IsNumber(f)
  BY <1>1, LenProperties DEF ToSet, V
<1>3. QED
  BY <1>1, <1>2 DEF DecodedMovement, Unreadable, Base, V

-----------------------------------------------------------------------------
(* Movements as an item holds them.                                        *)

\* The expression and the parameters make the rest.
LEMMA HeldParts ==
  ASSUME NEW values, NEW mode, NEW flags, NEW rest \in Seq(Filled)
  PROVE  LET kept == Movement(values, mode, flags, rest)
         IN /\ ExpressionOf(kept) \in Seq(Filled) /\ ParamsOf(kept) \in Seq(Filled)
            /\ ExpressionOf(kept) \o ParamsOf(kept) = rest
            /\ IF HasBit(flags, 8) /\ rest # <<>>
               THEN ExpressionOf(kept) = <<rest[1]>> /\ ParamsOf(kept) = Tail(rest)
               ELSE ExpressionOf(kept) = <<>> /\ ParamsOf(kept) = rest
<1> DEFINE kept == Movement(values, mode, flags, rest)
<1>1. kept.flags = flags /\ kept.rest = rest
  BY DEF Movement
<1> HIDE DEF kept
<1>2. CASE HasBit(flags, 8) /\ rest # <<>>
  <2>1. Announced(kept) = 1
    BY <1>1, <1>2 DEF Announced
  <2>2. ExpressionOf(kept) = SubSeq(rest, 1, 1) /\ ParamsOf(kept) = SubSeq(rest, 2, Len(rest))
    BY <1>1, <2>1 DEF ExpressionOf, ParamsOf
  <2>3. Tail(rest) = SubSeq(rest, 2, Len(rest)) /\ Tail(rest) \in Seq(Filled)
    BY <1>2, TailIsSubSeq, HeadTailProperties
  <2>4. 1 \in 1 .. Len(rest) /\ Len(rest) \in Nat
    BY <1>2, EmptySeq, LenProperties
  <2>5. rest[1] \in Filled
    BY <2>4, ElementOfSeq
  <2>6. SubSeq(rest, 1, 1) = <<rest[1]>>
    <3> DEFINE s == SubSeq(rest, 1, 1)
    <3>0. 1 \in Int /\ \A i \in 1 .. 1 : rest[i] \in Filled
      BY <2>5
    <3>1. /\ s \in Seq(Filled) /\ Len(s) = IF 1 <= 1 THEN 1 - 1 + 1 ELSE 0
          /\ \A i \in 1 .. 1 - 1 + 1 : s[i] = rest[1 + i - 1]
      BY <3>0, SubSeqProperties
    <3> HIDE DEF s
    <3>2. Len(s) = 1 /\ s[1] = rest[1]
      BY <3>1
    <3>3. s = <<s[1]>>
      BY <3>1, <3>2
    <3>4. QED
      BY <3>2, <3>3 DEF s
  <2>7. rest = <<rest[1]>> \o Tail(rest) /\ <<rest[1]>> \in Seq(Filled)
    <3>1. Len(rest) \in 1 .. Len(rest)
      BY <2>4
    <3>2. SubSeq(rest, 1, Len(rest)) = <<rest[1]>> \o SubSeq(rest, 1 + 1, Len(rest))
      BY <2>4, <3>1, SubSeqRecursiveFirst
    <3>3. SubSeq(rest, 1, Len(rest)) = rest /\ 1 + 1 = 2
      BY SubSeqFull
    <3>4. <<rest[1]>> \in Seq(Filled)
      BY <2>5
    <3>5. QED
      BY <2>3, <3>2, <3>3, <3>4
  <2>8. QED
    BY <1>2, <2>2, <2>3, <2>6, <2>7 DEF kept
<1>3. CASE ~(HasBit(flags, 8) /\ rest # <<>>)
  <2>1. Announced(kept) = 0
    BY <1>1, <1>3 DEF Announced
  <2>2. ExpressionOf(kept) = SubSeq(rest, 1, 0) /\ ParamsOf(kept) = SubSeq(rest, 1, Len(rest))
    BY <1>1, <2>1 DEF ExpressionOf, ParamsOf
  <2>3. SubSeq(rest, 1, 0) = <<>>
    BY SubSeqEmpty
  <2>4. SubSeq(rest, 1, Len(rest)) = rest
    BY SubSeqFull
  <2>5. <<>> \o rest = rest /\ <<>> \in Seq(Filled)
    BY ConcatEmptySeq
  <2>6. QED
    BY <1>3, <2>2, <2>3, <2>4, <2>5 DEF kept
<1>4. QED
  BY <1>2, <1>3

Ending(rest) == IF rest = <<>> THEN << <<>> >> ELSE rest
NumberTypes == {"track", "range", "check"}

LEMMA HeldSpelled ==
  ASSUME NEW values \in Seq(Numbers), values # <<>>, NEW mode \in HostModes,
         NEW flags \in Numbers, NEW rest \in Seq(Filled), NEW type \in NumberTypes
  PROVE  LET line == HostSpells(type, Movement(values, mode, flags, rest))
         IN /\ line = LineOf(values, mode, flags, Ending(rest)) /\ line \in Lines
            /\ HostReads(line) = Movement(values, mode, flags, rest)
            /\ DecodedTrack(line) = DecodedMovement(Spelled(values), mode, flags, Ending(rest))
<1> DEFINE line == HostSpells(type, Movement(values, mode, flags, rest))
           end == Ending(rest)
<1>1. line = LineOf(values, mode, flags, end)
  <2> DEFINE kept == Movement(values, mode, flags, rest)
  <2>1. kept.values = values /\ kept.mode = <<mode>> /\ kept.flags = flags /\ kept.rest = rest
    BY DEF Movement, Some
  <2>2. kept.mode # None
    BY <2>1 DEF None
  <2> HIDE DEF kept
  <2>3. HostSpells(type, kept) = LineOf(values, mode, flags, end)
    <3>1. type # "text" /\ type \in {"track", "range", "check"}
      BY DEF NumberTypes
    <3>2. QED
      BY <2>1, <2>2, <3>1 DEF HostSpells, LineOf, Ending
  <2>4. QED
    BY <2>3 DEF kept
<1>2. Filled \subseteq Sections /\ <<>> \in Sections
  BY DEF Filled, Sections
<1>3. end \in Seq(Sections)
  <2>1. << <<>> >> \in Seq(Sections)
    BY <1>2
  <2>2. rest \in Seq(Sections)
    BY <1>2, SeqMonotonic
  <2>3. QED
    BY <2>1, <2>2 DEF Ending
<1>4. NotEmpty(end) = rest
  <2>1. CASE rest = <<>>
    <3>1. PICK none : none = <<>>
      OBVIOUS
    <3>2. none \in Seq(Sections) /\ none \in Sections /\ Append(none, none) = << <<>> >>
      BY <1>2, <3>1
    <3>3. NotEmpty(Append(none, none)) = NotEmpty(none) /\ NotEmpty(<<>>) = <<>>
      BY <3>1, <3>2, NotEmptyIs
    <3>4. QED
      BY <2>1, <3>1, <3>2, <3>3 DEF Ending
  <2>2. CASE rest # <<>>
    BY <2>2, NotEmptyStays DEF Ending
  <2>3. QED
    BY <2>1, <2>2
<1> HIDE DEF end, line
<1>5. /\ LineOf(values, mode, flags, end) \in Lines
      /\ DecodedTrack(LineOf(values, mode, flags, end))
           = DecodedMovement(Spelled(values), mode, flags, end)
      /\ HostReads(LineOf(values, mode, flags, end))
           = Movement(values, mode, flags, NotEmpty(end))
  BY <1>3, LineIs
<1>6. QED
  BY <1>1, <1>4, <1>5 DEF line, end

LEMMA HeldDecoded ==
  ASSUME NEW values \in Seq(Numbers), values # <<>>, NEW mode \in HostModes,
         NEW flags \in Numbers, NEW rest \in Seq(Filled), NEW type \in NumberTypes
  PROVE  LET kept == Movement(values, mode, flags, rest)
             base == Base(values, mode, flags, ExpressionOf(kept))
         IN /\ DecodedTrack(HostSpells(type, kept))
                 = IF Unreadable(flags, Ending(rest)) \/ Len(values) < 2 THEN NotRepresentable
                   ELSE IF ParamsOf(kept) = <<>> THEN Readable(base)
                   ELSE DecodedParams(base, ParamsOf(kept))
            /\ ~Unreadable(flags, Ending(rest)) =>
                 (HasBit(flags, 8) <=> ExpressionOf(kept) # None)
<1> DEFINE kept == Movement(values, mode, flags, rest)
           end == Ending(rest)
           line == HostSpells(type, kept)
<1>1. DecodedTrack(line) = DecodedMovement(Spelled(values), mode, flags, end)
  BY HeldSpelled
<1>2. DecodedTrack(line)
        = IF Unreadable(flags, end) \/ Len(values) < 2 THEN NotRepresentable
          ELSE DecodedParams(
                 Base(values, mode, flags, IF HasBit(flags, 8) THEN Some(end[1]) ELSE None),
                 IF HasBit(flags, 8) THEN Tail(end) ELSE end)
  BY <1>1, DecodedIs
<1>3. IF HasBit(flags, 8) /\ rest # <<>>
      THEN ExpressionOf(kept) = <<rest[1]>> /\ ParamsOf(kept) = Tail(rest)
      ELSE ExpressionOf(kept) = <<>> /\ ParamsOf(kept) = rest
  BY HeldParts
<1>4. \A v : DecodedParams(v, <<>>) = Readable(v) /\ DecodedParams(v, << <<>> >>) = Readable(v)
  BY DEF DecodedParams
<1> HIDE DEF kept, line
<1>5. CASE HasBit(flags, 8)
  <2>1. CASE rest = <<>>
    <3>1. end[1] = <<>>
      BY <2>1 DEF Ending
    <3>2. Unreadable(flags, end)
      BY <1>5, <3>1 DEF Unreadable
    <3>3. QED
      BY <1>2, <3>2 DEF kept, line
  <2>2. CASE rest # <<>>
    <3>1. end = rest
      BY <2>2 DEF Ending
    <3>2. Some(end[1]) = ExpressionOf(kept) /\ Tail(end) = ParamsOf(kept) /\ ExpressionOf(kept) # None
      <4>1. ExpressionOf(kept) = <<rest[1]>> /\ ParamsOf(kept) = Tail(rest)
        BY <1>3, <1>5, <2>2
      <4>2. <<rest[1]>> # <<>>
        OBVIOUS
      <4> HIDE DEF end
      <4>3. QED
        BY <3>1, <4>1, <4>2 DEF Some, None
    <3> HIDE DEF end
    <3>3. DecodedTrack(line)
            = IF Unreadable(flags, end) \/ Len(values) < 2 THEN NotRepresentable
              ELSE DecodedParams(Base(values, mode, flags, ExpressionOf(kept)), ParamsOf(kept))
      BY <1>2, <1>5, <3>2
    <3>4. ParamsOf(kept) = <<>> =>
            DecodedParams(Base(values, mode, flags, ExpressionOf(kept)), ParamsOf(kept))
              = Readable(Base(values, mode, flags, ExpressionOf(kept)))
      BY <1>4
    <3>5. QED
      BY <1>5, <3>2, <3>3, <3>4 DEF kept, line, end
  <2>3. QED
    BY <2>1, <2>2
<1>6. CASE ~HasBit(flags, 8)
  <2>1. ExpressionOf(kept) = None /\ ParamsOf(kept) = rest
    BY <1>3, <1>6 DEF None
  <2>2. DecodedParams(Base(values, mode, flags, None), end)
          = IF rest = <<>> THEN Readable(Base(values, mode, flags, None))
            ELSE DecodedParams(Base(values, mode, flags, None), rest)
    BY <1>4 DEF Ending
  <2> HIDE DEF end
  <2>3. DecodedTrack(line)
          = IF Unreadable(flags, end) \/ Len(values) < 2 THEN NotRepresentable
            ELSE DecodedParams(Base(values, mode, flags, None), end)
    BY <1>2, <1>6
  <2>4. QED
    BY <1>6, <2>1, <2>2, <2>3 DEF kept, line, end
<1>7. QED
  BY <1>5, <1>6

\* A movement that is read is read as it is.
LEMMA HeldRead ==
  ASSUME NEW values \in Seq(Numbers), values # <<>>, NEW mode \in HostModes,
         NEW flags \in Numbers, NEW rest \in Seq(Filled), NEW type \in NumberTypes,
         DecodedTrack(HostSpells(type, Movement(values, mode, flags, rest))).is = "value"
  PROVE  LET kept == Movement(values, mode, flags, rest)
             v == DecodedTrack(HostSpells(type, kept)).value
         IN /\ DecodedTrack(HostSpells(type, kept)) = Readable(v)
            /\ v.values = values /\ v.mode = Some(mode) /\ FlagBits(v) = flags
            /\ v.expression = ExpressionOf(kept) /\ Len(values) >= 2
            /\ v.params \in Seq(Numbers)
            /\ ParamsOf(kept) = IF v.params = <<>> THEN <<>> ELSE <<ParamsText(v.params)>>
<1> DEFINE kept == Movement(values, mode, flags, rest)
           base == Base(values, mode, flags, ExpressionOf(kept))
           track == DecodedTrack(HostSpells(type, kept))
           params == ParamsOf(kept)
           list == NumbersOf(Parts(params[1], ","))
<1>1. /\ track = IF Unreadable(flags, Ending(rest)) \/ Len(values) < 2 THEN NotRepresentable
                 ELSE IF params = <<>> THEN Readable(base)
                 ELSE DecodedParams(base, params)
      /\ ~Unreadable(flags, Ending(rest)) => (HasBit(flags, 8) <=> ExpressionOf(kept) # None)
  BY HeldDecoded
<1>2. track.is = "value"
  OBVIOUS
<1>3. params \in Seq(Filled)
  BY HeldParts
<1>4. flags \in Nat /\ Len(values) \in Nat
  <2>1. flags \in Nat
    BY NumbersAreNat
  <2>2. Len(values) \in Nat
    BY LenProperties
  <2>3. QED
    BY <2>1, <2>2
<1> HIDE DEF track, params, kept
<1>5. ~Unreadable(flags, Ending(rest)) /\ Len(values) >= 2
  <2>1. NotRepresentable.is # "value"
    BY DEF NotRepresentable
  <2>2. QED
    BY <1>1, <1>2, <1>4, <2>1
<1>6. FlagBits(base) = flags /\ FlagBits([base EXCEPT !.params = list]) = flags
  <2>1. HasBit(flags, 8) <=> ExpressionOf(kept) # None
    BY <1>1, <1>5
  <2> DEFINE expression == ExpressionOf(kept)
  <2> HIDE DEF expression, list, base
  <2>2. HasBit(flags, 8) <=> expression # None
    BY <2>1 DEF expression
  <2>3. FlagBits(Base(values, mode, flags, expression)) = flags
    <3>1. flags \in Nat /\ Announces(flags, expression)
      BY <1>4, <2>2 DEF Announces
    <3>2. QED
      BY <3>1, BaseFlags
  <2>4. FlagBits([Base(values, mode, flags, expression) EXCEPT !.params = list])
          = FlagBits(Base(values, mode, flags, expression))
    BY DEF FlagBits, Base
  <2>5. QED
    BY <2>3, <2>4 DEF expression, base
<1>7. CASE params = <<>>
  <2>1. track = Readable(base)
    BY <1>1, <1>5, <1>7
  <2>2. track.value = base /\ base.params = <<>> /\ <<>> \in Seq(Numbers)
    BY <2>1 DEF Readable, Base
  <2>3. base.values = values /\ base.mode = Some(mode) /\ base.expression = ExpressionOf(kept)
    BY DEF Base
  <2>4. QED
    BY <1>5, <1>6, <1>7, <2>1, <2>2, <2>3 DEF track, params, kept
<1>8. CASE params # <<>>
  <2>1. track = DecodedParams(base, params)
    BY <1>1, <1>5, <1>8
  <2>2. NotAMovement.is # "value"
    BY DEF NotAMovement
  <2>3. Len(params) >= 1 /\ Len(params) \in Nat
    BY <1>3, <1>8, EmptySeq
  <2>4. params[1] \in Filled
    <3>1. 1 \in 1 .. Len(params)
      BY <2>3
    <3>2. QED
      BY <1>3, <3>1, ElementOfSeq
  <2>5. params # << <<>> >>
    BY <2>4 DEF Filled
  <2>6. ~(Len(params) > 1) /\ (\A f \in ToSet(Parts(params[1], ",")) : IsNumber(f))
        /\ track = Readable([base EXCEPT !.params = list])
    BY <1>2, <1>8, <2>1, <2>2, <2>5 DEF DecodedParams
  <2>7. params[1] \in Lines /\ NumberList(params[1])
    <3>1. Filled \subseteq Lines
      BY SeqMonotonic DEF Filled, Sections, Lines
    <3>2. QED
      BY <2>4, <2>6, <3>1 DEF NumberList
  <2>8. list \in Seq(Numbers) /\ list # <<>> /\ ParamsText(list) = params[1]
    BY <2>7, ParamsReadIs
  <2>9. params = <<params[1]>>
    <3>0. ~(Len(params) > 1)
      BY <2>6
    <3>1. QED
      BY <1>3, <1>8, <3>0, JustOne
  <2> HIDE DEF list
  <2>10. track.value = [base EXCEPT !.params = list]
    BY <2>6 DEF Readable
  <2>11. /\ [base EXCEPT !.params = list].params = list
         /\ [base EXCEPT !.params = list].values = values
         /\ [base EXCEPT !.params = list].mode = Some(mode)
         /\ [base EXCEPT !.params = list].expression = ExpressionOf(kept)
    BY DEF Base
  <2>12. params = <<ParamsText(list)>>
    BY <2>8, <2>9
  <2>13. QED
    BY <1>5, <1>6, <2>6, <2>8, <2>10, <2>11, <2>12 DEF track, params, kept
<1>9. QED
  BY <1>7, <1>8

\* A movement that is held is none to the reader only for its parameters.
LEMMA HeldMoves ==
  ASSUME NEW values \in Seq(Numbers), values # <<>>, NEW mode \in HostModes,
         NEW flags \in Numbers, NEW rest \in Seq(Filled), NEW type \in NumberTypes
  PROVE  LET kept == Movement(values, mode, flags, rest)
             line == HostSpells(type, kept)
         IN /\ ~IsNumber(line)
            /\ HasReadableParams(kept) => HoldsMovement(DecodedTrack(line))
<1> DEFINE kept == Movement(values, mode, flags, rest)
           base == Base(values, mode, flags, ExpressionOf(kept))
           line == HostSpells(type, kept)
           track == DecodedTrack(line)
           params == ParamsOf(kept)
<1>1. track = IF Unreadable(flags, Ending(rest)) \/ Len(values) < 2 THEN NotRepresentable
              ELSE IF params = <<>> THEN Readable(base)
              ELSE DecodedParams(base, params)
  BY HeldDecoded
<1>2. track.is = "value" => track.value.mode = Some(mode)
  BY HeldRead
<1>3. line \in Lines /\ params \in Seq(Filled)
  BY HeldSpelled, HeldParts
<1> HIDE DEF line, kept
<1>4. ~IsNumber(line)
  <2>1. SUFFICES ASSUME IsNumber(line) PROVE FALSE
    OBVIOUS
  <2>2. line = <<Numeral[NumberOf(line)]>> /\ NumberOf(line) \in Numbers
    BY <1>3, <2>1, NumberIs DEF Lines
  <2>3. track = Readable(Static(NumberOf(line)))
    BY <2>2, NumberLine
  <2>4. track.is = "value" /\ track.value.mode = None
    BY <2>3 DEF Readable, Static
  <2>5. QED
    BY <1>2, <2>4 DEF Some, None
<1>5. ASSUME HasReadableParams(kept) PROVE HoldsMovement(track)
  <2>0. Some(mode) # None
    BY DEF Some, None
  <2>1. track = NotRepresentable => HoldsMovement(track)
    BY DEF NotRepresentable, HoldsMovement
  <2>2. track.is = "value" => HoldsMovement(track)
    <3> HIDE DEF track
    <3> QED BY <1>2, <2>0 DEF HoldsMovement, ReadsAsMovement
  <2>3. params # <<>> => DecodedParams(base, params).is = "value"
    <3>1. SUFFICES ASSUME params # <<>> PROVE DecodedParams(base, params).is = "value"
      OBVIOUS
    <3>2. Len(params) <= 1 /\ \A text \in ToSet(params) : NumberList(text)
      BY <1>5 DEF HasReadableParams
    <3> HIDE DEF params
    <3>3. Len(params) = 1 /\ DOMAIN params = 1 .. Len(params)
      <4>1. ~(Len(params) > 1)
        <5>1. Len(params) <= 1 /\ Len(params) \in Nat
          BY <1>3, <3>2, LenProperties
        <5>2. QED
          BY <5>1
      <4>2. QED
        BY <1>3, <3>1, <4>1, JustOne
    <3>4. NumberList(params[1])
      BY <3>2, <3>3 DEF ToSet
    <3>5. ~(Len(params) > 1 \/ \E f \in ToSet(Parts(params[1], ",")) : ~IsNumber(f))
      <4>1. ~(Len(params) > 1)
        BY <3>3
      <4>2. \A f \in ToSet(Parts(params[1], ",")) : IsNumber(f)
        BY <3>4 DEF NumberList
      <4>3. QED
        BY <4>1, <4>2
    <3> HIDE DEF base
    <3>6. DecodedParams(base, params)
            \in {Readable(base), Readable([base EXCEPT !.params = NumbersOf(Parts(params[1], ","))])}
      BY <3>5 DEF DecodedParams
    <3>7. \A v : Readable(v).is = "value"
      BY DEF Readable
    <3>8. QED
      BY <3>6, <3>7
  <2>4. Readable(base).is = "value"
    BY DEF Readable
  <2>5. QED
    BY <1>1, <2>1, <2>2, <2>3, <2>4
<1>6. QED
  BY <1>4, <1>5 DEF kept, line

-----------------------------------------------------------------------------
(* Movements as they are written.                                          *)

LEMMA SingleIsSeq ==
  ASSUME NEW S, NEW x \in S
  PROVE  <<x>> \in Seq(S) /\ Len(<<x>>) = 1 /\ <<x>>[1] = x /\ <<x>> # <<>>
OBVIOUS

\* The value of a movement, asked for or read, that the host can take.
IsTrack(v) ==
  /\ v.values \in Seq(Numbers) /\ Len(v.values) >= 2 /\ v.params \in Seq(Numbers)
  /\ \E mode \in HostModes : v.mode = Some(mode)
  /\ FlagBits(v) \in Numbers /\ Announces(FlagBits(v), v.expression)
  /\ v.expression = None
     \/ \E e \in Filled : v.expression = Some(e) /\ ToSet(e) \cap Controls = {}

ParamsPart(v) == IF v.params = <<>> THEN <<>> ELSE <<ParamsText(v.params)>>
RestOf(v) == v.expression \o ParamsPart(v)

LEMMA RestIs ==
  ASSUME NEW v, IsTrack(v)
  PROVE  /\ ParamsPart(v) \in Seq(Filled) /\ v.expression \in Seq(Filled)
         /\ RestOf(v) \in Seq(Filled) /\ RestOf(v) \in Seq(Sections)
         /\ \A w : DecodedParams(w, ParamsPart(v))
                     = Readable(IF v.params = <<>> THEN w ELSE [w EXCEPT !.params = v.params])
<1>0. v.expression \in Seq(Filled)
  <2>1. CASE v.expression = None
    BY <2>1, EmptySeq DEF None
  <2>2. CASE v.expression # None
    <3>1. PICK e \in Filled : v.expression = <<e>>
      BY <2>2 DEF IsTrack, Some
    <3>2. <<e>> \in Seq(Filled)
      BY SingleIsSeq
    <3>3. QED
      BY <3>1, <3>2
  <2>3. QED
    BY <2>1, <2>2
<1>1. CASE v.params = <<>>
  <2>1. ParamsPart(v) = <<>>
    BY <1>1 DEF ParamsPart
  <2>2. \A w : DecodedParams(w, <<>>) = Readable(w)
    BY DEF DecodedParams
  <2>3. ParamsPart(v) \in Seq(Filled)
    BY <2>1
  <2>4. v.expression \in Seq(Filled)
    BY <1>0
  <2>5. v.expression \o ParamsPart(v) = v.expression
    BY <2>1, <2>4, ConcatEmptySeq
  <2>6. Filled \subseteq Sections
    BY DEF Filled
  <2>7. QED
    BY <1>1, <2>1, <2>2, <2>3, <2>4, <2>5, <2>6, SeqMonotonic DEF RestOf
<1>2. CASE v.params # <<>>
  <2> DEFINE text == ParamsText(v.params)
  <2>1. ParamsPart(v) = <<text>>
    BY <1>2 DEF ParamsPart
  <2>2. text \in Filled /\ Parts(text, ",") = Spelled(v.params) /\ NumberList(text)
        /\ NumbersOf(Spelled(v.params)) = v.params
    BY <1>2, ParamsTextIs, SpelledIs DEF IsTrack
  <2> HIDE DEF text
  <2>3. ASSUME NEW w PROVE DecodedParams(w, <<text>>) = Readable([w EXCEPT !.params = v.params])
    <3>1. <<text>> \notin {<<>>, << <<>> >>} /\ Len(<<text>>) = 1 /\ <<text>>[1] = text
      BY <2>2 DEF Filled
    <3>2. \A f \in ToSet(Parts(text, ",")) : IsNumber(f)
      BY <2>2 DEF NumberList
    <3>3. ~(Len(<<text>>) > 1 \/ \E f \in ToSet(Parts(<<text>>[1], ",")) : ~IsNumber(f))
      <4>1. ~(Len(<<text>>) > 1)
        BY <3>1
      <4>2. \A f \in ToSet(Parts(<<text>>[1], ",")) : IsNumber(f)
        BY <3>1, <3>2
      <4>3. QED
        BY <4>1, <4>2
    <3>4. NumbersOf(Parts(<<text>>[1], ",")) = v.params
      BY <2>2
    <3>5. QED
      BY <3>1, <3>3, <3>4 DEF DecodedParams
  <2>4. ParamsPart(v) \in Seq(Filled)
    BY <2>1, <2>2, SingleIsSeq
  <2>5. v.expression \in Seq(Filled)
    BY <1>0
  <2>6. v.expression \o ParamsPart(v) \in Seq(Filled)
    BY <2>4, <2>5, ConcatProperties
  <2>7. Filled \subseteq Sections
    BY DEF Filled
  <2>8. QED
    BY <1>2, <2>1, <2>3, <2>4, <2>5, <2>6, <2>7, SeqMonotonic DEF RestOf
<1>3. QED
  BY <1>1, <1>2

LEMMA EncodedIs ==
  ASSUME NEW v, IsTrack(v), NEW mode \in HostModes, v.mode = Some(mode)
  PROVE  /\ EncodedTrack(v) = LineOf(v.values, mode, FlagBits(v), RestOf(v))
         /\ EncodedTrack(v) \in Lines
         /\ HostReads(EncodedTrack(v)) = Movement(v.values, mode, FlagBits(v), RestOf(v))
         /\ DecodedTrack(EncodedTrack(v))
              = DecodedMovement(Spelled(v.values), mode, FlagBits(v), RestOf(v))
<1> DEFINE first == FirstSection(v.values, <<mode>>, FlagBits(v))
<1>1. /\ v.values \in Seq(Numbers) /\ v.values # <<>> /\ FlagBits(v) \in Numbers
      /\ ParamsPart(v) \in Seq(Filled) /\ v.expression \in Seq(Filled)
      /\ RestOf(v) \in Seq(Filled) /\ RestOf(v) \in Seq(Sections)
  <2>1. v.values # <<>>
    <3>1. Len(<<>>) = 0
      OBVIOUS
    <3>2. QED
      BY <3>1 DEF IsTrack
  <2>2. QED
    BY <2>1, RestIs DEF IsTrack
<1>2. first \in Sections
  BY <1>1, FirstSectionIs
<1> HIDE DEF first
<1>3. (<<first>> \o v.expression) \o ParamsPart(v) = <<first>> \o RestOf(v)
  <2>1. Filled \subseteq Sections
    BY DEF Filled
  <2>2. <<first>> \in Seq(Sections) /\ v.expression \in Seq(Sections)
        /\ ParamsPart(v) \in Seq(Sections)
    <3>1. <<first>> \in Seq(Sections)
      BY <1>2
    <3>2. QED
      BY <1>1, <2>1, <3>1, SeqMonotonic
  <2> DEFINE one == <<first>>
             two == v.expression
             three == ParamsPart(v)
  <2> HIDE DEF one, two, three
  <2>3. one \in Seq(Sections) /\ two \in Seq(Sections) /\ three \in Seq(Sections)
    BY <2>2 DEF one, two, three
  <2>4. (one \o two) \o three = one \o (two \o three)
    BY <2>3, ConcatAssociative
  <2>5. QED
    BY <2>4 DEF RestOf, one, two, three
<1>4. EncodedTrack(v) = LineOf(v.values, mode, FlagBits(v), RestOf(v))
  <2>1. v.mode = <<mode>> /\ v.mode # None
    BY DEF Some, None
  <2>2. EncodedTrack(v) = Joined(<<first>> \o v.expression \o ParamsPart(v), "|")
    BY <2>1 DEF EncodedTrack, ParamsPart, ParamsText, first
  <2>3. QED
    BY <1>3, <2>2 DEF LineOf, first
<1>5. /\ LineOf(v.values, mode, FlagBits(v), RestOf(v)) \in Lines
      /\ HostReads(LineOf(v.values, mode, FlagBits(v), RestOf(v)))
           = Movement(v.values, mode, FlagBits(v), NotEmpty(RestOf(v)))
      /\ DecodedTrack(LineOf(v.values, mode, FlagBits(v), RestOf(v)))
           = DecodedMovement(Spelled(v.values), mode, FlagBits(v), RestOf(v))
  BY <1>1, LineIs
<1>6. NotEmpty(RestOf(v)) = RestOf(v)
  BY <1>1, NotEmptyStays
<1>7. QED
  BY <1>4, <1>5, <1>6

\* A movement that is written is read as it was meant, by the rules of the plugin
\* (encode_track_value, decode_track_value).
THEOREM EncodedRead ==
  ASSUME NEW v, IsTrack(v)
  PROVE  LET track == DecodedTrack(EncodedTrack(v))
         IN /\ track.is = "value" /\ track.value.values = v.values /\ track.value.mode = v.mode
            /\ FlagBits(track.value) = FlagBits(v) /\ track.value.params = v.params
<1>1. PICK mode \in HostModes : v.mode = Some(mode)
  BY DEF IsTrack
<1> DEFINE flags == FlagBits(v)
           rest == RestOf(v)
           base == Base(v.values, mode, flags, v.expression)
           whole == IF v.params = <<>> THEN base ELSE [base EXCEPT !.params = v.params]
           track == DecodedTrack(EncodedTrack(v))
<1>2. track = DecodedMovement(Spelled(v.values), mode, flags, rest)
  BY <1>1, EncodedIs
<1>3. /\ v.values \in Seq(Numbers) /\ ~(Len(v.values) < 2) /\ flags \in Nat
      /\ Announces(flags, v.expression)
  <2>1. v.values \in Seq(Numbers) /\ Len(v.values) >= 2 /\ flags \in Nat
    BY NumbersAreNat DEF IsTrack
  <2>2. Len(v.values) \in Nat
    BY <2>1, LenProperties
  <2>3. ~(Len(v.values) < 2)
    BY <2>1, <2>2
  <2>4. QED
    BY <2>1, <2>3 DEF IsTrack
<1>4. track = IF Unreadable(flags, rest) THEN NotRepresentable
              ELSE DecodedParams(
                     Base(v.values, mode, flags, IF HasBit(flags, 8) THEN Some(rest[1]) ELSE None),
                     IF HasBit(flags, 8) THEN Tail(rest) ELSE rest)
  <2> HIDE DEF flags, rest, track
  <2> QED BY <1>2, <1>3, DecodedIs
<1>5. ParamsPart(v) \in Seq(Filled) /\ v.expression \in Seq(Filled)
      /\ DecodedParams(base, ParamsPart(v)) = Readable(whole)
  BY RestIs
<1>6. track = DecodedParams(base, ParamsPart(v))
  <2>1. CASE v.expression = None
    <3>1. ~HasBit(flags, 8)
      BY <1>3, <2>1 DEF Announces
    <3>2. rest = ParamsPart(v)
      <4>1. <<>> \o ParamsPart(v) = ParamsPart(v)
        BY <1>5, ConcatEmptySeq
      <4>2. QED
        BY <2>1, <4>1 DEF RestOf, None
    <3> HIDE DEF rest, flags, track
    <3>3. ~Unreadable(flags, rest)
      BY <3>1 DEF Unreadable
    <3>4. QED
      BY <1>4, <2>1, <3>1, <3>2, <3>3
  <2>2. CASE v.expression # None
    <3>1. HasBit(flags, 8)
      BY <1>3, <2>2 DEF Announces
    <3>2. PICK e \in Filled : v.expression = <<e>> /\ ToSet(e) \cap Controls = {}
      BY <2>2 DEF IsTrack, Some
    <3>3. rest = <<e>> \o ParamsPart(v)
      BY <3>2 DEF RestOf
    <3>4. rest # <<>> /\ rest[1] = e /\ Tail(rest) = ParamsPart(v)
      <4> DEFINE one == <<e>>
                 more == ParamsPart(v)
      <4>1. one \in Seq(Filled) /\ one # <<>> /\ Len(one) = 1 /\ one[1] = e /\ Tail(one) = <<>>
        BY SingleIsSeq
      <4>2. more \in Seq(Filled)
        BY <1>5
      <4>3. rest = one \o more
        BY <3>3
      <4> HIDE DEF one, more, rest
      <4>4. Tail(one \o more) = Tail(one) \o more
        BY <4>1, <4>2, TailOn
      <4>5. Tail(one) \o more = more
        BY <4>1, <4>2, ConcatEmptySeq
      <4>6. one \o more # <<>>
        BY <4>1, <4>2, ConcatEqualIffEmpty
      <4>7. (one \o more)[1] = e
        <5>1. 1 \in 1 .. Len(one) + Len(more) /\ 1 <= Len(one)
          BY <4>1, <4>2, LenProperties
        <5>2. QED
          BY <4>1, <4>2, <5>1, ConcatProperties
      <4>8. QED
        BY <4>3, <4>4, <4>5, <4>6, <4>7 DEF more
    <3> HIDE DEF rest, flags, track
    <3>5. ~Unreadable(flags, rest)
      BY <3>2, <3>4 DEF Unreadable, Filled
    <3>6. QED
      BY <1>4, <3>1, <3>2, <3>4, <3>5 DEF Some
  <2>3. QED
    BY <2>1, <2>2
<1>7. track = Readable(whole)
  BY <1>5, <1>6
<1>8. track.is = "value" /\ track.value = whole
  <2> HIDE DEF track, whole
  <2> QED BY <1>7 DEF Readable
<1>9. /\ whole.values = v.values /\ whole.mode = Some(mode) /\ whole.params = v.params
      /\ FlagBits(whole) = FlagBits(base)
  BY DEF Base, FlagBits
<1>10. FlagBits(base) = flags
  <2> HIDE DEF flags
  <2> QED BY <1>3, BaseFlags
<1> HIDE DEF track, whole, base
<1>11. QED
  BY <1>1, <1>8, <1>9, <1>10 DEF track
-----------------------------------------------------------------------------
(* What items hold.                                                        *)

HeldValues == Seq(0 .. TopValue) \ {<<>>}
HeldNumbers == {Number(n) : n \in 0 .. TopValue}

\* What an item of the type may come to hold.
Holds(type, kept) ==
  /\ type \in NumberTypes => kept \in HeldNumbers \/ IsMovement(kept)
  /\ type = "text" => kept = HeldText(kept.text) /\ kept.text \in Without({"CR"})
  /\ type = "color" =>
       \E word \in DOMAIN Lowered : kept = HeldText(<<word>>) /\ IsLowered(word)
  /\ type \in {"word", "data"} => kept = HeldText(kept.text) /\ Plain(kept.text)

LEMMA ValuesAre ==
  ASSUME NEW values \in HeldValues
  PROVE  values \in Seq(Numbers) /\ values # <<>> /\ values[1] \in 0 .. TopValue
<1>1. TopValue \in Numbers /\ MaxNumber \in Nat
  BY ItemAssumption, SpellingAssumption
<1>2. 0 .. TopValue \subseteq Numbers
  BY <1>1 DEF Numbers
<1>3. values \in Seq(0 .. TopValue) /\ values # <<>>
  BY DEF HeldValues
<1>4. values[1] \in 0 .. TopValue
  <2>1. Len(values) \in Nat /\ Len(values) # 0
    BY <1>3, EmptySeq, LenProperties
  <2>2. 1 \in 1 .. Len(values)
    BY <2>1
  <2>3. QED
    BY <1>3, <2>2, ElementOfSeq
<1>5. values \in Seq(Numbers)
  <2>1. ToSet(values) \subseteq 0 .. TopValue
    BY <1>3, SeqWithin
  <2>2. QED
    BY <1>2, <1>3, <2>1, SeqWithin
<1>6. QED
  BY <1>3, <1>4, <1>5

\* A movement is made of its parts.
LEMMA MovementIs ==
  ASSUME NEW kept
  PROVE  IsMovement(kept) <=>
           \E values \in HeldValues, mode \in HostModes, flags \in Numbers, rest \in Seq(Filled) :
             kept = Movement(values, mode, flags, rest)
<1>1. ASSUME IsMovement(kept)
      PROVE  \E values \in HeldValues, mode \in HostModes, flags \in Numbers, rest \in Seq(Filled) :
               kept = Movement(values, mode, flags, rest)
  <2>1. PICK mode \in HostModes : kept.mode = Some(mode)
    BY <1>1 DEF IsMovement
  <2>2. kept.mode[1] = mode
    BY <2>1 DEF Some
  <2>3. kept.rest \in Seq(Filled)
    BY <1>1, FilledIs DEF IsMovement
  <2>4. kept.values \in HeldValues /\ kept.flags \in Numbers
        /\ kept = Movement(kept.values, mode, kept.flags, kept.rest)
    BY <1>1, <2>2 DEF IsMovement, HeldValues
  <2>5. QED
    BY <2>3, <2>4
<1>2. ASSUME NEW values \in HeldValues, NEW mode \in HostModes, NEW flags \in Numbers,
             NEW rest \in Seq(Filled), kept = Movement(values, mode, flags, rest)
      PROVE  IsMovement(kept)
  <2>1. /\ kept.values = values /\ kept.mode = Some(mode) /\ kept.flags = flags
        /\ kept.rest = rest
    BY <1>2 DEF Movement
  <2>2. kept.mode[1] = mode
    BY <2>1 DEF Some
  <2>3. /\ kept.rest \in Seq(Lines)
        /\ \A k \in DOMAIN kept.rest : kept.rest[k] # <<>> /\ "|" \notin ToSet(kept.rest[k])
    <3>1. rest \in Seq(Lines) /\ \A k \in DOMAIN rest : rest[k] # <<>> /\ "|" \notin ToSet(rest[k])
      BY FilledIs
    <3>2. QED
      BY <2>1, <3>1
  <2>4. kept.values \in HeldValues /\ kept.mode \in {Some(m) : m \in HostModes}
    BY <2>1
  <2>5. kept = Movement(kept.values, kept.mode[1], kept.flags, kept.rest)
    BY <1>2, <2>1, <2>2
  <2>6. QED
    BY <2>1, <2>3, <2>4, <2>5 DEF IsMovement, HeldValues
<1>3. QED
  BY <1>1, <1>2

\* What it is that something held is: none of the others.
LEMMA HeldAre ==
  /\ \A n : /\ Number(n).mode = None /\ Number(n).values = <<n>> /\ Number(n).flags = 0
            /\ Number(n).rest = <<>> /\ Number(n).text = <<>> /\ Number(n) # Crash
  /\ \A text : /\ HeldText(text).mode = None /\ HeldText(text).text = text
               /\ HeldText(text).flags = 0 /\ HeldText(text).rest = <<>>
               /\ HeldText(text) # Crash /\ HeldText(text).values = <<0>>
  /\ \A values, mode, flags, rest :
       LET kept == Movement(values, mode, flags, rest)
       IN /\ kept.mode = Some(mode) /\ kept.mode # None /\ kept.mode[1] = mode
          /\ kept.values = values /\ kept.flags = flags /\ kept.rest = rest /\ kept # Crash
<1>1. \A n : /\ Number(n).mode = None /\ Number(n).values = <<n>> /\ Number(n).flags = 0
             /\ Number(n).rest = <<>> /\ Number(n).text = <<>>
  BY DEF Number
<1>2. Crash.values = <<>> /\ Crash.mode = None
  BY DEF Crash, Number
<1>3. \A text : /\ HeldText(text).mode = None /\ HeldText(text).text = text
                /\ HeldText(text).flags = 0 /\ HeldText(text).rest = <<>>
                /\ HeldText(text).values = <<0>>
  BY DEF HeldText, Number
<1>4. \A values, mode, flags, rest :
       LET kept == Movement(values, mode, flags, rest)
       IN /\ kept.mode = Some(mode) /\ kept.mode # None /\ kept.mode[1] = mode
          /\ kept.values = values /\ kept.flags = flags /\ kept.rest = rest
  BY DEF Movement, Some, None
<1>5. QED
  BY <1>1, <1>2, <1>3, <1>4

LEMMA TypesAre ==
  ASSUME NEW type \in ItemTypes
  PROVE  type \in NumberTypes \/ type = "text" \/ type = "color"
         \/ type \in {"word", "data"}
BY DEF ItemTypes, NumberTypes

LEMMA NumberSpelled ==
  ASSUME NEW n, NEW type \in NumberTypes
  PROVE  HostSpells(type, Number(n)) = <<Numeral[n]>>
<1>1. Number(n).mode = None /\ Number(n).values[1] = n
  BY HeldAre
<1>2. type # "text" /\ type \in {"track", "range", "check"}
  BY DEF NumberTypes
<1>3. QED
  BY <1>1, <1>2 DEF HostSpells

LEMMA TopIsNumber == TopValue \in Numbers /\ TopValue \in Nat /\ 0 .. TopValue \subseteq Numbers
<1>1. TopValue \in Numbers /\ MaxNumber \in Nat
  BY ItemAssumption, SpellingAssumption
<1>2. QED
  BY <1>1 DEF Numbers

\* What an item of numbers is given as is read as that.
LEMMA HeldReadBack ==
  ASSUME NEW type \in NumberTypes, NEW kept, Holds(type, kept)
  PROVE  HostSpells(type, kept) \in Lines /\ HostReads(HostSpells(type, kept)) = kept
<1>1. kept \in HeldNumbers \/ IsMovement(kept)
  BY DEF Holds
<1>2. CASE kept \in HeldNumbers
  <2>1. PICK n \in 0 .. TopValue : kept = Number(n)
    BY <1>2 DEF HeldNumbers
  <2>2. n \in Numbers
    BY TopIsNumber
  <2>3. QED
    BY <2>1, <2>2, NumberSpelled, NumberLine
<1>3. CASE IsMovement(kept)
  <2>1. PICK values \in HeldValues, mode \in HostModes, flags \in Numbers, rest \in Seq(Filled) :
          kept = Movement(values, mode, flags, rest)
    BY <1>3, MovementIs
  <2>2. values \in Seq(Numbers) /\ values # <<>>
    BY ValuesAre
  <2>3. QED
    BY <2>1, <2>2, HeldSpelled
<1>4. QED
  BY <1>1, <1>2, <1>3

Cap(n) == IF n > TopValue THEN TopValue ELSE n
Capped(values) == [k \in DOMAIN values |-> Cap(values[k])]

LEMMA CappedIs ==
  ASSUME NEW values \in Seq(Numbers), values # <<>>
  PROVE  /\ Capped(values) \in HeldValues /\ Len(Capped(values)) = Len(values)
         /\ values \in HeldValues => Capped(values) = values
<1> DEFINE n == Len(values)
           capped == [k \in 1 .. n |-> Cap(values[k])]
<1>1. n \in Nat /\ n # 0 /\ DOMAIN values = 1 .. n
  BY EmptySeq, LenProperties
<1>2. Capped(values) = capped
  BY <1>1 DEF Capped
<1>3. \A k \in 1 .. n : Cap(values[k]) \in 0 .. TopValue
  <2>1. SUFFICES ASSUME NEW k \in 1 .. n PROVE Cap(values[k]) \in 0 .. TopValue
    OBVIOUS
  <2>2. values[k] \in Nat
    BY NumbersAreNat, ElementOfSeq
  <2>3. QED
    BY <2>2, TopIsNumber DEF Cap
<1> HIDE DEF n
<1>4. capped \in [1 .. n -> 0 .. TopValue]
  BY <1>3
<1>5. capped \in Seq(0 .. TopValue) /\ Len(capped) = n
  BY <1>1, <1>4, SeqDef, LenProperties
<1>6. capped # <<>>
  <2> HIDE DEF capped
  <2> QED BY <1>1, <1>5, EmptySeq
<1>7. ASSUME values \in HeldValues PROVE capped = values
  <2>1. values \in Seq(0 .. TopValue)
    BY <1>7 DEF HeldValues
  <2>2. values \in [1 .. n -> 0 .. TopValue]
    BY <2>1, LenProperties DEF n
  <2>3. \A k \in 1 .. n : Cap(values[k]) = values[k]
    BY <2>2, TopIsNumber DEF Cap
  <2>4. QED
    BY <2>2, <2>3
<1> HIDE DEF capped
<1>8. QED
  BY <1>2, <1>5, <1>6, <1>7 DEF HeldValues, n

LEMMA KeepsIs ==
  /\ \A n \in Numbers : HostKeeps(Number(n)) = Number(Cap(n)) /\ Cap(n) \in 0 .. TopValue
                        /\ (n \in 0 .. TopValue => Cap(n) = n)
  /\ \A values, mode, flags, rest :
       HostKeeps(Movement(values, mode, flags, rest))
         = IF mode \in LostModes THEN Number(Capped(values)[1])
           ELSE Movement(Capped(values), mode, flags, rest)
  /\ HostKeeps(Crash) = Crash
<1>1. ASSUME NEW n \in Numbers
      PROVE  HostKeeps(Number(n)) = Number(Cap(n)) /\ Cap(n) \in 0 .. TopValue
             /\ (n \in 0 .. TopValue => Cap(n) = n)
  <2>1. n \in Nat /\ TopValue \in Nat
    BY NumbersAreNat, TopIsNumber
  <2>2. Cap(n) \in 0 .. TopValue /\ (n \in 0 .. TopValue => Cap(n) = n)
    BY <2>1 DEF Cap
  <2>3. Number(n) # Crash /\ Number(n).mode = None /\ Number(n).values = <<n>>
    BY HeldAre
  <2>4. DOMAIN <<n>> = 1 .. 1 /\ <<n>>[1] = n
    OBVIOUS
  <2>5. HostKeeps(Number(n)) = Number([k \in DOMAIN <<n>> |-> Cap(<<n>>[k])][1])
    BY <2>3 DEF HostKeeps, Cap
  <2>6. [k \in DOMAIN <<n>> |-> Cap(<<n>>[k])][1] = Cap(n)
    BY <2>4
  <2>7. QED
    BY <2>2, <2>5, <2>6
<1>2. ASSUME NEW values, NEW mode, NEW flags, NEW rest
      PROVE  HostKeeps(Movement(values, mode, flags, rest))
               = IF mode \in LostModes THEN Number(Capped(values)[1])
                 ELSE Movement(Capped(values), mode, flags, rest)
  <2> DEFINE kept == Movement(values, mode, flags, rest)
  <2>1. /\ kept # Crash /\ kept.mode # None /\ kept.mode[1] = mode /\ kept.values = values
    BY HeldAre
  <2>2. [kept EXCEPT !.values = Capped(values)] = Movement(Capped(values), mode, flags, rest)
    BY DEF Movement
  <2>3. HostKeeps(kept) = IF mode \notin LostModes THEN [kept EXCEPT !.values = Capped(values)]
                          ELSE Number(Capped(values)[1])
    <3> HIDE DEF kept
    <3> QED BY <2>1 DEF HostKeeps, Capped, Cap
  <2>4. QED
    BY <2>2, <2>3
<1>3. HostKeeps(Crash) = Crash
  BY DEF HostKeeps
<1>4. QED
  BY <1>1, <1>2, <1>3

LEMMA DefaultIs ==
  ASSUME NEW mode \in HostModes, DefaultParams[mode] # <<>>
  PROVE  DefaultParams[mode] \in Filled /\ NumberList(DefaultParams[mode])
<1>1. /\ DefaultParams[mode] \in Lines /\ NumberList(DefaultParams[mode])
      /\ "|" \notin ToSet(DefaultParams[mode])
  BY ItemAssumption
<1>2. DefaultParams[mode] \in Without({"|"})
  BY <1>1, WithoutIs
<1>3. QED
  BY <1>1, <1>2 DEF Without, Filled, Sections

Replaced(kept, mode) ==
  /\ DefaultParams[mode] # <<>> /\ ~(HasBit(kept.flags, 8) /\ kept.rest = <<>>)
  /\ ~(Len(ParamsOf(kept)) = 1
       /\ Len(Parts(ParamsOf(kept)[1], ",")) = Len(Parts(DefaultParams[mode], ",")))

LEMMA SettledOne ==
  ASSUME NEW kept
  PROVE  /\ kept.mode = None => Settled(kept) = kept
         /\ \A mode : kept.mode = Some(mode) =>
              Settled(kept) = IF Replaced(kept, mode)
                              THEN [kept EXCEPT !.rest = ExpressionOf(kept) \o <<DefaultParams[mode]>>]
                              ELSE kept
<1>1. ASSUME kept.mode = None PROVE Settled(kept) = kept
  BY <1>1 DEF Settled
<1>2. ASSUME NEW mode, kept.mode = Some(mode)
      PROVE  Settled(kept) = IF Replaced(kept, mode)
                             THEN [kept EXCEPT !.rest = ExpressionOf(kept) \o <<DefaultParams[mode]>>]
                             ELSE kept
  <2>1. kept.mode # None /\ kept.mode[1] = mode
    BY <1>2 DEF Some, None
  <2>2. QED
    BY <2>1 DEF Settled, Replaced
<1>3. QED
  BY <1>1, <1>2

LEMMA OtherRest ==
  ASSUME NEW values, NEW mode, NEW flags, NEW rest, NEW more
  PROVE  [Movement(values, mode, flags, rest) EXCEPT !.rest = more]
           = Movement(values, mode, flags, more)
BY DEF Movement

\* What is replaced in a movement that settles: its parameters only, and once.
LEMMA SettledMovement ==
  ASSUME NEW values, NEW mode \in HostModes, NEW flags, NEW rest \in Seq(Filled)
  PROVE  LET kept == Movement(values, mode, flags, rest)
         IN \E more \in Seq(Filled) :
              /\ Settled(kept) = Movement(values, mode, flags, more)
              /\ Settled(Settled(kept)) = Settled(kept)
              /\ ExpressionOf(Settled(kept)) = ExpressionOf(kept)
              /\ HasReadableParams(kept) => HasReadableParams(Settled(kept))
              /\ rest = <<>> /\ HasBit(flags, 8) => more = <<>>
<1> DEFINE kept == Movement(values, mode, flags, rest)
           default == DefaultParams[mode]
<1>1. kept.mode = Some(mode) /\ kept.flags = flags /\ kept.rest = rest
  BY HeldAre
<1>2. Settled(kept) = IF Replaced(kept, mode) THEN [kept EXCEPT !.rest = ExpressionOf(kept) \o <<default>>]
                      ELSE kept
  <2> HIDE DEF kept
  <2> QED BY <1>1, SettledOne
<1>3. CASE ~Replaced(kept, mode)
  <2>1. Settled(kept) = kept
    BY <1>2, <1>3
  <2>2. QED
    BY <2>1
<1>4. CASE Replaced(kept, mode)
  <2> DEFINE expression == ExpressionOf(kept)
             more == expression \o <<default>>
             new == Movement(values, mode, flags, more)
  <2>1. default # <<>> /\ ~(HasBit(flags, 8) /\ rest = <<>>)
    <3> HIDE DEF kept
    <3> QED BY <1>1, <1>4 DEF Replaced
  <2>2. default \in Filled /\ NumberList(default)
    BY <2>1, DefaultIs
  <2>3. Settled(kept) = new
    <3>1. [kept EXCEPT !.rest = more] = new
      <4> HIDE DEF more
      <4> QED BY OtherRest
    <3>2. QED
      BY <1>2, <1>4, <3>1
  <2>4. expression \in Seq(Filled)
        /\ IF HasBit(flags, 8) /\ rest # <<>> THEN expression = <<rest[1]>> ELSE expression = <<>>
    BY HeldParts
  <2> DEFINE last == <<default>>
  <2>5. last \in Seq(Filled) /\ Len(last) = 1 /\ last[1] = default /\ DOMAIN last = {1} /\ last # <<>>
    BY <2>2, SingleIsSeq
  <2> HIDE DEF expression, last
  <2>6. expression \o last \in Seq(Filled)
    BY <2>4, <2>5, ConcatProperties
  <2>7. ExpressionOf(new) = expression /\ ParamsOf(new) = last
    <3> DEFINE whole == expression \o last
    <3>1. whole \in Seq(Filled) /\ more = whole
      BY <2>6 DEF last
    <3>2. IF HasBit(flags, 8) /\ whole # <<>>
          THEN ExpressionOf(new) = <<whole[1]>> /\ ParamsOf(new) = Tail(whole)
          ELSE ExpressionOf(new) = <<>> /\ ParamsOf(new) = whole
      <4>1. new = Movement(values, mode, flags, whole)
        BY <3>1
      <4> HIDE DEF whole, new
      <4>2. QED
        BY <3>1, <4>1, HeldParts
    <3> HIDE DEF new
    <3>3. CASE ~HasBit(flags, 8)
      <4>1. expression = <<>>
        BY <2>4, <3>3
      <4>2. whole = last
        BY <2>5, <4>1, ConcatEmptySeq
      <4>3. QED
        BY <3>2, <3>3, <4>1, <4>2
    <3>4. CASE HasBit(flags, 8)
      <4>1. rest # <<>>
        BY <2>1, <3>4
      <4>2. expression = <<rest[1]>>
        BY <2>4, <3>4, <4>1
      <4>3. expression # <<>> /\ Len(expression) = 1 /\ expression[1] = rest[1]
        BY <4>2
      <4>4. Tail(expression) = <<>>
        BY <4>2
      <4>5. Tail(whole) = Tail(expression) \o last
        BY <2>4, <2>5, <4>3, TailOn
      <4>6. Tail(whole) = last
        BY <2>5, <4>4, <4>5, ConcatEmptySeq
      <4>7. whole # <<>>
        BY <2>4, <2>5, <4>3, ConcatEqualIffEmpty
      <4>8. whole[1] = expression[1]
        <5>1. 1 \in 1 .. Len(expression) + Len(last) /\ 1 <= Len(expression)
          BY <2>5, <4>3
        <5>2. QED
          BY <2>4, <2>5, <5>1, ConcatProperties
      <4>9. QED
        BY <3>2, <3>4, <4>2, <4>3, <4>6, <4>7, <4>8
    <3>5. QED
      BY <3>3, <3>4
  <2>8. ~Replaced(new, mode)
    <3>1. Len(ParamsOf(new)) = 1 /\ ParamsOf(new)[1] = default
      BY <2>5, <2>7
    <3> HIDE DEF new, default
    <3>2. QED
      BY <3>1 DEF Replaced, default
  <2>9. Settled(new) = new
    <3>1. new.mode = Some(mode)
      BY HeldAre
    <3> HIDE DEF new
    <3>2. QED
      BY <2>8, <3>1, SettledOne
  <2>10. HasReadableParams(new)
    <3>1. Len(last) <= 1 /\ ToSet(last) = {default}
      <4>1. ToSet(last) = {last[k] : k \in DOMAIN last}
        BY DEF ToSet
      <4>2. QED
        BY <2>5, <4>1
    <3>2. QED
      BY <2>2, <2>7, <3>1 DEF HasReadableParams
  <2>11. more \in Seq(Filled)
    BY <2>6 DEF last
  <2> HIDE DEF kept, new, more
  <2>12. Settled(Settled(kept)) = Settled(kept) /\ ExpressionOf(Settled(kept)) = expression
         /\ HasReadableParams(Settled(kept))
    BY <2>3, <2>7, <2>9, <2>10
  <2>13. QED
    BY <2>1, <2>3, <2>11, <2>12 DEF expression, kept, new
<1>5. QED
  BY <1>3, <1>4

\* A text that is held, and the line it is given as.
LEMMA HeldTextIs ==
  ASSUME NEW type \in ItemTypes \ NumberTypes, NEW kept, Holds(type, kept)
  PROVE  /\ kept = HeldText(kept.text) /\ kept.text \in Lines
         /\ kept.mode = None /\ kept # Crash
         /\ HostSpells(type, kept) = IF type = "text" THEN Escaped(kept.text) ELSE kept.text
<1>1. type \in {"text", "color", "word", "data"} /\ type \notin {"track", "range", "check"}
  BY DEF ItemTypes, NumberTypes
<1>2. kept = HeldText(kept.text) /\ kept.text \in Lines
  <2>1. CASE type = "text"
    BY <2>1, WithoutType DEF Holds
  <2>2. CASE type = "color"
    <3>1. PICK word \in DOMAIN Lowered : kept = HeldText(<<word>>)
      BY <2>2 DEF Holds
    <3>2. kept.text = <<word>>
      BY <3>1, HeldAre
    <3>3. word \in Tokens
      BY SpellingAssumption
    <3>4. QED
      BY <3>1, <3>2, <3>3, SingleIsSeq DEF Lines
  <2>3. CASE type \in {"word", "data"}
    BY <2>3 DEF Holds, Plain
  <2>4. QED
    BY <1>1, <2>1, <2>2, <2>3
<1>3. kept.mode = None /\ kept # Crash
  BY <1>2, HeldAre
<1>4. HostSpells(type, kept) = IF type = "text" THEN Escaped(kept.text) ELSE kept.text
  BY <1>1 DEF HostSpells
<1>5. QED
  BY <1>2, <1>3, <1>4

\* Two different things an item may hold are never given as one line: to compare the
\* line with the one that was there tells whether it was restored
\* (restore_after_failed_verification).
THEOREM SpelledApart ==
  ASSUME NEW type \in ItemTypes, NEW one, NEW other, Holds(type, one), Holds(type, other),
         HostSpells(type, one) = HostSpells(type, other)
  PROVE  one = other
<1>1. CASE type \in NumberTypes
  <2>1. HostReads(HostSpells(type, one)) = one /\ HostReads(HostSpells(type, other)) = other
    BY <1>1, HeldReadBack
  <2>2. QED
    BY <2>1
<1>2. CASE type \notin NumberTypes
  <2>1. /\ one = HeldText(one.text) /\ one.text \in Lines
        /\ HostSpells(type, one) = IF type = "text" THEN Escaped(one.text) ELSE one.text
    BY <1>2, HeldTextIs
  <2>2. /\ other = HeldText(other.text) /\ other.text \in Lines
        /\ HostSpells(type, other) = IF type = "text" THEN Escaped(other.text) ELSE other.text
    BY <1>2, HeldTextIs
  <2>3. one.text = other.text
    <3>1. CASE type = "text"
      <4>1. Unescaped(Escaped(one.text)) = one.text /\ Unescaped(Escaped(other.text)) = other.text
        BY <2>1, <2>2, EscapedIsReadBack
      <4>2. QED
        BY <2>1, <2>2, <3>1, <4>1
    <3>2. CASE type # "text"
      BY <2>1, <2>2, <3>2
    <3>3. QED
      BY <3>1, <3>2
  <2>4. QED
    BY <2>1, <2>2, <2>3
<1>3. QED
  BY <1>1, <1>2

LEMMA NumberHolds ==
  ASSUME NEW type \in NumberTypes
  PROVE  /\ \A n \in 0 .. TopValue : Holds(type, Number(n))
         /\ \A values \in HeldValues, mode \in HostModes, flags \in Numbers, rest \in Seq(Filled) :
              Holds(type, Movement(values, mode, flags, rest))
<1>1. type \notin {"text", "color", "word", "data"}
  BY DEF NumberTypes
<1>2. \A n \in 0 .. TopValue : Number(n) \in HeldNumbers
  BY DEF HeldNumbers
<1>3. \A values \in HeldValues, mode \in HostModes, flags \in Numbers, rest \in Seq(Filled) :
        IsMovement(Movement(values, mode, flags, rest))
  BY MovementIs
<1>4. QED
  BY <1>1, <1>2, <1>3 DEF Holds

\* An item of numbers holds one, or a movement.
LEMMA HeldIs ==
  ASSUME NEW type \in NumberTypes, NEW kept, Holds(type, kept)
  PROVE  /\ \/ kept.mode = None /\ \E n \in 0 .. TopValue : kept = Number(n)
            \/ /\ kept.mode # None
               /\ \E values \in HeldValues, mode \in HostModes, flags \in Numbers, rest \in Seq(Filled) :
                    kept = Movement(values, mode, flags, rest)
         /\ kept # Crash
<1>1. kept \in HeldNumbers \/ IsMovement(kept)
  BY DEF Holds
<1>2. CASE kept \in HeldNumbers
  <2>1. PICK n \in 0 .. TopValue : kept = Number(n)
    BY <1>2 DEF HeldNumbers
  <2>2. QED
    BY <2>1, HeldAre
<1>3. CASE IsMovement(kept)
  <2>1. PICK values \in HeldValues, mode \in HostModes, flags \in Numbers, rest \in Seq(Filled) :
          kept = Movement(values, mode, flags, rest)
    BY <1>3, MovementIs
  <2>2. kept.mode # None /\ kept # Crash
    BY <2>1, HeldAre
  <2>3. QED
    BY <2>1, <2>2
<1>4. QED
  BY <1>1, <1>2, <1>3

\* What has settled is held, and stays as it is.
LEMMA SettledHolds ==
  ASSUME NEW type \in ItemTypes, NEW kept, Holds(type, kept)
  PROVE  /\ Holds(type, Settled(kept)) /\ Settled(Settled(kept)) = Settled(kept)
         /\ ExpressionOf(Settled(kept)) = ExpressionOf(kept)
         /\ kept.mode = None => Settled(kept) = kept
         /\ kept # Crash
<1>1. kept.mode = None => Settled(kept) = kept
  BY SettledOne
<1>2. CASE kept.mode = None
  <2>1. kept # Crash
    <3>1. CASE type \in NumberTypes
      BY <3>1, HeldIs
    <3>2. CASE type \notin NumberTypes
      BY <3>2, HeldTextIs
    <3>3. QED
      BY <3>1, <3>2
  <2>2. QED
    BY <1>1, <1>2, <2>1
<1>3. CASE kept.mode # None
  <2>1. type \in NumberTypes
    BY <1>3, HeldTextIs
  <2>2. PICK values \in HeldValues, mode \in HostModes, flags \in Numbers, rest \in Seq(Filled) :
          kept = Movement(values, mode, flags, rest)
    BY <1>3, <2>1, HeldIs
  <2>3. PICK more \in Seq(Filled) :
          /\ Settled(kept) = Movement(values, mode, flags, more)
          /\ Settled(Settled(kept)) = Settled(kept)
          /\ ExpressionOf(Settled(kept)) = ExpressionOf(kept)
    BY <2>2, SettledMovement
  <2>4. Holds(type, Settled(kept))
    BY <2>1, <2>3, NumberHolds
  <2>5. kept # Crash
    BY <2>2, HeldAre
  <2>6. QED
    BY <1>3, <2>3, <2>4, <2>5
<1>4. QED
  BY <1>2, <1>3

-----------------------------------------------------------------------------
(* What the host takes.                                                    *)

FieldsIn(line) == Parts(Head(Parts(line, "|")), ",")
AfterIn(line) == Tail(Parts(line, "|"))

LEMMA FieldsInLine ==
  ASSUME NEW line \in Lines
  PROVE  /\ FieldsIn(line) \in Seq(Sections) /\ FieldsIn(line) # <<>>
         /\ AfterIn(line) \in Seq(Sections)
         /\ HostReads(line) = HostReadsFields(FieldsIn(line), AfterIn(line))
         /\ DecodedTrack(line) = DecodedFields(FieldsIn(line), AfterIn(line))
<1> DEFINE bars == Parts(line, "|")
<1>1. bars \in Seq(Sections) /\ bars # <<>>
  BY PartsType DEF Lines, Sections, Some1
<1> HIDE DEF bars
<1>2. Head(bars) \in Sections /\ Tail(bars) \in Seq(Sections)
  BY <1>1, HeadTailProperties
<1>3. Parts(Head(bars), ",") \in Some1(Seq((Tokens \ {"|"}) \ {","}))
  BY <1>2, PartsType DEF Sections
<1>4. Seq((Tokens \ {"|"}) \ {","}) \subseteq Sections
  BY SeqMonotonic DEF Sections
<1>5. Parts(Head(bars), ",") \in Seq(Sections) /\ Parts(Head(bars), ",") # <<>>
  BY <1>3, <1>4, SeqMonotonic DEF Some1
<1>6. QED
  BY <1>2, <1>5
     DEF FieldsIn, AfterIn, HostReads, HostReadsParts, DecodedTrack, DecodedSections, bars

LEMMA Beginning ==
  ASSUME NEW S, NEW s \in Seq(S), NEW m \in Nat, m <= Len(s)
  PROVE  /\ SubSeq(s, 1, m) \in Seq(S) /\ Len(SubSeq(s, 1, m)) = m
         /\ \A k \in 1 .. m : SubSeq(s, 1, m)[k] = s[k]
<1>1. SubSeq(s, 1, m) \in Seq(S)
  OBVIOUS
<1>2. Len(SubSeq(s, 1, m)) = m
  OBVIOUS
<1>3. ASSUME NEW k \in 1 .. m PROVE SubSeq(s, 1, m)[k] = s[k]
  OBVIOUS
<1>4. QED
  BY <1>1, <1>2, <1>3

\* What the host makes of any line: nothing, a number, or a movement.
LEMMA HostReadsSome ==
  ASSUME NEW line \in Lines
  PROVE  \/ HostReads(line) = Crash
         \/ \E n \in Numbers : HostReads(line) = Number(n)
         \/ \E values \in Seq(Numbers), mode \in HostModes, flags \in Numbers, rest \in Seq(Filled) :
              values # <<>> /\ HostReads(line) = Movement(values, mode, flags, rest)
<1> DEFINE fields == FieldsIn(line)
           after == AfterIn(line)
           n == Len(fields)
<1>1. /\ fields \in Seq(Sections) /\ fields # <<>> /\ after \in Seq(Sections)
      /\ HostReads(line) = HostReadsFields(fields, after)
  BY FieldsInLine
<1> HIDE DEF fields, after
<1>2. n \in Nat /\ \A k \in 1 .. n : fields[k] \in Sections
  BY <1>1, LenProperties, ElementOfSeq
<1> DEFINE first == n = 1 /\ after = <<>> /\ IsNumber(fields[1])
           second == /\ n > 2 /\ fields[n - 1] \in HostModes /\ IsNumber(fields[n])
                     /\ \A k \in 1 .. n - 2 : IsNumber(fields[k])
           middle == SubSeq(fields, 1, n - 2)
           moved == Movement(NumbersOf(middle), fields[n - 1], NumberOf(fields[n]), NotEmpty(after))
<1>3. HostReads(line) = CASE first -> Number(NumberOf(fields[1])) [] second -> moved
                          [] OTHER -> Crash
  BY <1>1 DEF HostReadsFields
<1>4. CASE first
  <2>1. NumberOf(fields[1]) \in Numbers
    <3>1. fields[1] \in Seq(Tokens \ {"|"}) /\ IsNumber(fields[1])
      BY <1>2, <1>4 DEF Sections
    <3>2. QED
      BY <3>1, NumberIs
  <2>2. ~second
    BY <1>4
  <2>3. HostReads(line) = Number(NumberOf(fields[1]))
    <3> HIDE DEF first, second, moved
    <3> QED BY <1>3, <1>4, <2>2
  <2>4. QED
    BY <2>1, <2>3
<1>5. CASE second
  <2>1. ~first
    BY <1>5
  <2>2. n - 2 \in Nat /\ n - 2 <= n /\ n - 2 # 0 /\ n \in 1 .. n
    BY <1>2, <1>5
  <2>3. middle \in Seq(Sections) /\ Len(middle) = n - 2 /\ \A k \in 1 .. n - 2 : middle[k] = fields[k]
    BY <1>1, <2>2, Beginning
  <2> HIDE DEF middle
  <2>4. \A k \in 1 .. Len(middle) : IsNumber(middle[k])
    BY <1>5, <2>3
  <2>5. NumbersOf(middle) \in Seq(Numbers) /\ Len(NumbersOf(middle)) = n - 2
    BY <2>3, <2>4, NumbersOfIs DEF Sections
  <2>6. NumbersOf(middle) # <<>>
    BY <2>2, <2>5, EmptySeq
  <2>7. NumberOf(fields[n]) \in Numbers
    <3>1. fields[n] \in Seq(Tokens \ {"|"}) /\ IsNumber(fields[n])
      BY <1>2, <1>5, <2>2 DEF Sections
    <3>2. QED
      BY <3>1, NumberIs
  <2>8. NotEmpty(after) \in Seq(Filled)
    BY <1>1, NotEmptyIs
  <2>9. HostReads(line) = moved
    <3> HIDE DEF first, second, moved
    <3> QED BY <1>3, <1>5, <2>1
  <2>10. fields[n - 1] \in HostModes
    BY <1>5
  <2>11. QED
    BY <2>5, <2>6, <2>7, <2>8, <2>9, <2>10
<1>6. CASE ~first /\ ~second
  <2> HIDE DEF first, second, moved
  <2> QED BY <1>3, <1>6
<1>7. QED
  BY <1>4, <1>5, <1>6

\* What an item holds after the host took a line.
LEMMA KeepsHolds ==
  ASSUME NEW type \in NumberTypes, NEW line \in Lines
  PROVE  /\ HostReads(line) = Crash => HostKeeps(HostReads(line)) = Crash
         /\ HostReads(line) # Crash => Holds(type, HostKeeps(HostReads(line)))
<1>1. CASE HostReads(line) = Crash
  BY <1>1, KeepsIs
<1>2. ASSUME NEW n \in Numbers, HostReads(line) = Number(n)
      PROVE  Holds(type, HostKeeps(HostReads(line))) /\ HostReads(line) # Crash
  <2>1. HostKeeps(Number(n)) = Number(Cap(n)) /\ Cap(n) \in 0 .. TopValue
    BY KeepsIs
  <2>2. Number(n) # Crash
    BY HeldAre
  <2>3. QED
    BY <1>2, <2>1, <2>2, NumberHolds
<1>3. ASSUME NEW values \in Seq(Numbers), NEW mode \in HostModes, NEW flags \in Numbers,
             NEW rest \in Seq(Filled), values # <<>>,
             HostReads(line) = Movement(values, mode, flags, rest)
      PROVE  Holds(type, HostKeeps(HostReads(line))) /\ HostReads(line) # Crash
  <2>1. HostKeeps(Movement(values, mode, flags, rest))
          = IF mode \in LostModes THEN Number(Capped(values)[1])
            ELSE Movement(Capped(values), mode, flags, rest)
    BY KeepsIs
  <2>2. Capped(values) \in HeldValues
    BY <1>3, CappedIs
  <2>3. Capped(values)[1] \in 0 .. TopValue
    BY <2>2, ValuesAre
  <2>4. Movement(values, mode, flags, rest) # Crash
    BY HeldAre
  <2>5. Holds(type, Number(Capped(values)[1])) /\ Holds(type, Movement(Capped(values), mode, flags, rest))
    BY <2>2, <2>3, NumberHolds
  <2>6. QED
    BY <1>3, <2>1, <2>4, <2>5
<1>4. QED
  BY <1>1, <1>2, <1>3, HostReadsSome

LEMMA WordHolds ==
  ASSUME NEW kept, NEW word \in DOMAIN Lowered, kept = HeldText(<<word>>), IsLowered(word)
  PROVE  Holds("color", kept)
BY DEF Holds, NumberTypes

LEMMA PlainHolds ==
  ASSUME NEW type \in {"word", "data"}, NEW line, Plain(line)
  PROVE  Holds(type, HeldText(line))
<1>1. HeldText(line).text = line
  BY HeldAre
<1>2. type \notin NumberTypes /\ type \notin {"text", "color"}
  BY DEF NumberTypes
<1>3. QED
  BY <1>1, <1>2 DEF Holds

LEMMA TextHolds ==
  ASSUME NEW line \in Without({"CR"})
  PROVE  Holds("text", HeldText(line))
<1>1. HeldText(line).text = line
  BY HeldAre
<1>2. "text" \notin NumberTypes
  BY DEF NumberTypes
<1>3. QED
  BY <1>1, <1>2 DEF Holds

LEMMA TakesHolds ==
  ASSUME NEW type \in ItemTypes, NEW line \in Lines, NEW kept,
         type \in {"word", "data"} => Holds(type, kept), type = "text" => line \in Without({"CR"})
  PROVE  LET taken == HostTakes(type, line, kept)
         IN taken # Crash => Holds(type, taken)
<1> DEFINE taken == HostTakes(type, line, kept)
<1>1. CASE type \in NumberTypes
  <2>1. taken = HostKeeps(HostReads(line))
    BY <1>1 DEF HostTakes, NumberTypes
  <2> HIDE DEF taken
  <2>2. QED
    BY <1>1, <2>1, KeepsHolds DEF taken
<1>2. CASE type = "text"
  <2>1. taken = HeldText(HostUnescapes(line))
    BY <1>2 DEF HostTakes
  <2>2. HostUnescapes(line) \in Without({"CR"})
    BY <1>2, HostUnescapesType
  <2>3. QED
    BY <1>2, <2>1, <2>2, TextHolds
<1>3. CASE type = "color"
  <2> DEFINE word == IF Len(line) = 1 /\ line[1] \in Offered \cap DOMAIN Lowered
                     THEN Lowered[line[1]] ELSE "black"
  <2>1. taken = HeldText(<<word>>)
    BY <1>3 DEF HostTakes
  <2>2. word \in DOMAIN Lowered /\ IsLowered(word)
    <3>1. IsLowered("black") /\ \A w \in Offered \cap DOMAIN Lowered : Lowered[w] \in Offered
      BY ItemAssumption
    <3>2. \A w \in DOMAIN Lowered : Lowered[w] \in DOMAIN Lowered /\ Lowered[Lowered[w]] = Lowered[w]
      BY SpellingAssumption
    <3>3. QED
      BY <3>1, <3>2 DEF IsLowered
  <2> HIDE DEF word, taken
  <2>3. QED
    BY <1>3, <2>1, <2>2, WordHolds DEF taken
<1>4. CASE type \in {"word", "data"}
  <2>1. taken = IF line \in {<<w>> : w \in Offered} THEN HeldText(line) ELSE kept
    BY <1>4 DEF HostTakes
  <2>2. ASSUME line \in {<<w>> : w \in Offered} PROVE Plain(line)
    <3>1. PICK w \in Offered : line = <<w>>
      BY <2>2
    <3>2. w \in Tokens \ Controls
      BY ItemAssumption
    <3>3. ToSet(line) = {w}
      <4>1. ToSet(<<w>>) = {<<w>>[k] : k \in DOMAIN <<w>>}
        BY DEF ToSet
      <4>2. DOMAIN <<w>> = {1} /\ <<w>>[1] = w
        OBVIOUS
      <4>3. ToSet(<<w>>) = {w}
        BY <4>1, <4>2
      <4>4. QED
        BY <3>1, <4>3
    <3>4. QED
      BY <3>2, <3>3 DEF Plain
  <2>3. QED
    BY <1>4, <2>1, <2>2, PlainHolds
<1>5. QED
  BY <1>1, <1>2, <1>3, <1>4, TypesAre

-----------------------------------------------------------------------------
(* What is written.                                                        *)

LEMMA ToSetOne ==
  ASSUME NEW x
  PROVE  ToSet(<<x>>) = {x}
<1>1. ToSet(<<x>>) = {<<x>>[k] : k \in DOMAIN <<x>>}
  BY DEF ToSet
<1>2. DOMAIN <<x>> = {1} /\ <<x>>[1] = x
  OBVIOUS
<1>3. QED
  BY <1>1, <1>2

\* A sequence of at most one.
LEMMA OptionalIs ==
  ASSUME NEW S, NEW s \in Seq(S), Len(s) <= 1, s # None
  PROVE  s[1] \in S /\ s = Some(s[1]) /\ ToSet(s) = {s[1]}
<1>1. s # <<>> /\ ~(Len(s) > 1)
  <2>1. Len(s) \in Nat
    BY LenProperties
  <2>2. QED
    BY <2>1 DEF None
<1>2. s[1] \in S /\ s = <<s[1]>>
  BY <1>1, JustOne
<1>3. QED
  BY <1>2, ToSetOne DEF Some

LEMMA LengthOne ==
  ASSUME NEW S, NEW s \in Seq(S), Len(s) = 1
  PROVE  s[1] \in S /\ s = <<s[1]>>
<1>1. s # <<>>
  BY EmptySeq
<1>2. ~(Len(s) > 1)
  OBVIOUS
<1>3. QED
  BY <1>1, <1>2, JustOne

IsStill(v) ==
  /\ \E n \in Numbers : v.values = <<n>>
  /\ v.mode = None /\ v.params = <<>> /\ FlagBits(v) = 0 /\ v.expression = None

\* A value as it reaches the host.
Fit(type, value) ==
  /\ value.kind \in Accepts(type) /\ value.text \in Lines
  /\ value.kind \in {"number", "bool"} => \E n \in Numbers : value.track = Static(n)
  /\ value.kind = "track" => IsStill(value.track) \/ IsTrack(value.track)
  /\ value.kind = "color" /\ Len(value.text) = 1 => value.text[1] \in DOMAIN Lowered

LEMMA StillIs ==
  ASSUME NEW v, v.values \in Seq(Numbers), v.mode = None, v.named \in Nat, v.reserved \in Nat,
         TrackSyntax(v)
  PROVE  IsStill(v)
<1>1. Len(v.values) = 1 /\ v.params = <<>> /\ FlagBits(v) = 0
  BY DEF TrackSyntax
<1>2. v.expression = None
  BY <1>1 DEF FlagBits
<1>3. \E n \in Numbers : v.values = <<n>>
  <2>2. v.values[1] \in Numbers /\ v.values = <<v.values[1]>>
    BY <1>1, LengthOne
  <2>3. QED
    BY <2>2
<1>4. QED
  BY <1>1, <1>2, <1>3 DEF IsStill

LEMMA RequestedTrack ==
  ASSUME NEW v, NEW some, NEW modes \in SUBSET HostModes, TrackFits(v, some, modes),
         v.values \in Seq(Numbers), v.params \in Seq(Numbers),
         v.mode \in Seq(Lines), Len(v.mode) <= 1,
         v.expression \in Seq(Lines), Len(v.expression) <= 1,
         v.named \in 0 .. 7, v.reserved \in Nat, FlagBits(v) \in Numbers
  PROVE  IsStill(v) \/ IsTrack(v)
<1>0. TrackSyntax(v)
  BY DEF TrackFits
<1>1. CASE v.mode = None
  <2>1. v.named \in Nat
    OBVIOUS
  <2>2. QED
    BY <1>0, <1>1, <2>1, StillIs
<1>2. CASE v.mode # None
  <2>1. v.mode = Some(v.mode[1]) /\ v.mode[1] \in HostModes
    BY <1>2, OptionalIs DEF TrackFits
  <2>2. /\ \A bit \in {1, 2, 4, 8} : ~HasBit(v.reserved, bit)
        /\ \A text \in ToSet(v.expression) :
             OneLine(text) /\ text # <<>> /\ "|" \notin ToSet(text)
        /\ Len(v.values) >= 2
    BY <1>0, <1>2 DEF TrackSyntax
  <2>3. v.expression = None
        \/ \E e \in Filled : v.expression = Some(e) /\ ToSet(e) \cap Controls = {}
    <3>1. SUFFICES ASSUME v.expression # None
                   PROVE  \E e \in Filled : v.expression = Some(e) /\ ToSet(e) \cap Controls = {}
      OBVIOUS
    <3>2. v.expression[1] \in Lines /\ v.expression = Some(v.expression[1])
          /\ v.expression[1] \in ToSet(v.expression)
      BY <3>1, OptionalIs
    <3>3. /\ OneLine(v.expression[1]) /\ v.expression[1] # <<>>
          /\ "|" \notin ToSet(v.expression[1])
      BY <2>2, <3>2
    <3>4. v.expression[1] \in Filled
      <4>1. v.expression[1] \in Without({"|"})
        BY <3>2, <3>3, WithoutIs
      <4>2. QED
        BY <3>3, <4>1 DEF Filled, Sections, Without
    <3>5. ToSet(v.expression[1]) \cap Controls = {}
      BY <3>3 DEF OneLine
    <3>6. QED
      BY <3>2, <3>4, <3>5
  <2>4. Announces(FlagBits(v), v.expression)
    <3>1. v.reserved % 16 = 0
      BY <2>2, NoLowBits
    <3>2. \A e \in {0, 8} : HasBit(v.named + e + v.reserved, 8) <=> e = 8
      BY <3>1, FlagsOf
    <3>3. HasBit(v.named + (IF v.expression = None THEN 0 ELSE 8) + v.reserved, 8)
          <=> v.expression # None
      BY <3>2
    <3>4. QED
      BY <3>3 DEF Announces, FlagBits
  <2>5. QED
    BY <2>1, <2>2, <2>3, <2>4 DEF IsTrack
<1>3. QED
  BY <1>1, <1>2

LEMMA RequestIsFit ==
  ASSUME NEW type, NEW value, NEW some, NEW modes \in SUBSET HostModes,
         IsRequest(value), CanEncode(type, value, some, modes)
  PROVE  Fit(type, value)
<1>1. /\ value.kind \in Accepts(type) /\ value.text \in Lines
      /\ value.kind \in {"number", "bool"} => \E n \in Numbers : value.track = Static(n)
      /\ value.kind = "color" /\ Len(value.text) = 1 => value.text[1] \in DOMAIN Lowered
  BY DEF IsRequest, CanEncode
<1>2. ASSUME value.kind = "track" PROVE IsStill(value.track) \/ IsTrack(value.track)
  <2>1. TrackFits(value.track, some, modes)
    BY <1>2 DEF CanEncode
  <2>2. /\ value.track.mode \in Seq(Lines) /\ Len(value.track.mode) <= 1
        /\ value.track.expression \in Seq(Lines) /\ Len(value.track.expression) <= 1
    BY DEF IsRequest
  <2>3. /\ value.track.values \in Seq(Numbers) /\ value.track.params \in Seq(Numbers)
        /\ value.track.named \in 0 .. 7 /\ value.track.reserved \in Nat
        /\ FlagBits(value.track) \in Numbers
    BY DEF IsRequest
  <2>4. QED
    BY <2>1, <2>2, <2>3, RequestedTrack
<1>3. QED
  BY <1>1, <1>2 DEF Fit

LEMMA StillEncoded ==
  ASSUME NEW v, IsStill(v)
  PROVE  \E n \in Numbers : /\ v.values = <<n>> /\ EncodedTrack(v) = <<Numeral[n]>>
                            /\ EncodedTrack(v) \in Lines /\ HostReads(EncodedTrack(v)) = Number(n)
                            /\ DecodedTrack(EncodedTrack(v)) = Readable(Static(n))
<1>1. PICK n \in Numbers : v.values = <<n>>
  BY DEF IsStill
<1>2. EncodedTrack(v) = Spelled(<<n>>)[1]
  BY <1>1 DEF EncodedTrack, IsStill
<1>3. Spelled(<<n>>)[1] = <<Numeral[n]>>
  BY DEF Spelled
<1>4. QED
  BY <1>1, <1>2, <1>3, NumberLine

LEMMA StaticIsStill ==
  ASSUME NEW n \in Numbers
  PROVE  IsStill(Static(n))
<1>1. /\ Static(n).values = <<n>> /\ Static(n).mode = None /\ Static(n).params = <<>>
      /\ Static(n).expression = None /\ Static(n).named = 0 /\ Static(n).reserved = 0
  BY DEF Static, None
<1>2. FlagBits(Static(n)) = 0
  BY <1>1 DEF FlagBits
<1>3. QED
  BY <1>1, <1>2 DEF IsStill

\* The values an item of numbers takes: all are a number or a movement.
LEMMA FitNumber ==
  ASSUME NEW type \in NumberTypes, NEW value, Fit(type, value)
  PROVE  /\ value.kind \in {"number", "bool", "track"} /\ Encoded(value) = EncodedTrack(value.track)
         /\ IsStill(value.track) \/ (value.kind = "track" /\ IsTrack(value.track))
         /\ value.kind # "track" => \E n \in Numbers : value.track = Static(n)
<1>1. value.kind \in {"number", "bool", "track"}
  BY DEF Fit, NumberTypes, Accepts
<1>2. Encoded(value) = EncodedTrack(value.track)
  BY <1>1 DEF Encoded
<1>3. IsStill(value.track) \/ (value.kind = "track" /\ IsTrack(value.track))
  BY <1>1, StaticIsStill DEF Fit
<1>4. QED
  BY <1>1, <1>2, <1>3 DEF Fit

LEMMA FitNumberLine ==
  ASSUME NEW type \in NumberTypes, NEW value, Fit(type, value)
  PROVE  Encoded(value) \in Lines /\ HostReads(Encoded(value)) # Crash
<1>1. /\ Encoded(value) = EncodedTrack(value.track)
      /\ IsStill(value.track) \/ IsTrack(value.track)
  BY FitNumber
<1>2. CASE IsStill(value.track)
  BY <1>1, <1>2, StillEncoded, HeldAre
<1>3. CASE IsTrack(value.track)
  <2>1. PICK mode \in HostModes : value.track.mode = Some(mode)
    BY <1>3 DEF IsTrack
  <2>2. /\ EncodedTrack(value.track) \in Lines
        /\ HostReads(EncodedTrack(value.track))
             = Movement(value.track.values, mode, FlagBits(value.track), RestOf(value.track))
    BY <1>3, <2>1, EncodedIs
  <2>3. QED
    BY <1>1, <2>2, HeldAre
<1>4. QED
  BY <1>1, <1>2, <1>3

\* The values the other items take are texts.
LEMMA FitText ==
  ASSUME NEW type \in ItemTypes \ NumberTypes, NEW value, Fit(type, value)
  PROVE  /\ type \in {"text", "color", "word"} /\ value.kind = type
         /\ Encoded(value) = IF type = "text" THEN Escaped(WithoutCr(value.text)) ELSE value.text
         /\ Encoded(value) \in Lines /\ (type = "text" => Encoded(value) \in Without({"CR"}))
<1>1. type \in {"text", "color", "word", "data"}
  BY DEF ItemTypes, NumberTypes
<1>2. type \in {"text", "color", "word"} /\ value.kind = type
  <2>1. type # "data"
    BY DEF Fit, Accepts
  <2>2. Accepts(type) = {type}
    BY <1>1, <2>1 DEF Accepts
  <2>3. QED
    BY <1>1, <2>1, <2>2 DEF Fit
<1>3. Encoded(value) = IF type = "text" THEN Escaped(WithoutCr(value.text)) ELSE value.text
  BY <1>2 DEF Encoded
<1>4. value.text \in Lines
  BY DEF Fit
<1>5. ASSUME type = "text" PROVE Encoded(value) \in Without({"CR"})
  <2>1. WithoutCr(value.text) \in Without({"CR"})
    BY <1>4, WithoutCrIs
  <2>2. Escaped(WithoutCr(value.text)) \in Without({"CR"})
    BY <2>1, EscapedType
  <2>3. QED
    BY <1>3, <1>5, <2>2
<1>6. Encoded(value) \in Lines
  BY <1>3, <1>4, <1>5, WithoutType
<1>7. QED
  BY <1>2, <1>3, <1>5, <1>6

\* No line the plugin composed is one the host cannot take apart, and what the host
\* makes of it is what an item of the type can hold (encode_value).
THEOREM WrittenIsHeld ==
  ASSUME NEW type \in ItemTypes, NEW value, NEW kept, Fit(type, value), Holds(type, kept)
  PROVE  LET taken == HostTakes(type, Encoded(value), kept)
         IN taken # Crash /\ Holds(type, taken)
<1> DEFINE taken == HostTakes(type, Encoded(value), kept)
<1>1. CASE type \in NumberTypes
  <2>1. Encoded(value) \in Lines /\ HostReads(Encoded(value)) # Crash
    BY <1>1, FitNumberLine
  <2>2. taken = HostKeeps(HostReads(Encoded(value)))
    BY <1>1 DEF HostTakes, NumberTypes
  <2>3. Holds(type, HostKeeps(HostReads(Encoded(value))))
    BY <1>1, <2>1, KeepsHolds
  <2> HIDE DEF taken
  <2>4. Holds(type, taken)
    BY <2>2, <2>3
  <2>5. QED
    BY <2>4, SettledHolds DEF taken
<1>2. CASE type \notin NumberTypes
  <2>1. type \in {"text", "color", "word"} /\ Encoded(value) \in Lines
        /\ (type = "text" => Encoded(value) \in Without({"CR"}))
    BY <1>2, FitText
  <2>2. taken # Crash => Holds(type, taken)
    BY <2>1, TakesHolds
  <2>3. taken # Crash
    <3>1. CASE type = "text"
      BY <3>1, HeldAre DEF HostTakes
    <3>2. CASE type = "color"
      BY <3>2, HeldAre DEF HostTakes
    <3>3. CASE type = "word"
      <4>1. taken = HeldText(Encoded(value)) \/ taken = kept
        BY <3>3 DEF HostTakes
      <4>2. kept # Crash
        BY SettledHolds
      <4>3. QED
        BY <4>1, <4>2, HeldAre
    <3>4. QED
      BY <2>1, <3>1, <3>2, <3>3
  <2>4. QED
    BY <2>2, <2>3
<1>3. QED
  BY <1>1, <1>2

LEMMA HeadOn ==
  ASSUME NEW S, NEW e \in S, NEW more \in Seq(S)
  PROVE  LET whole == <<e>> \o more
         IN whole \in Seq(S) /\ whole # <<>> /\ whole[1] = e /\ Tail(whole) = more
<1> DEFINE one == <<e>>
<1>1. one \in Seq(S) /\ one # <<>> /\ Len(one) = 1 /\ one[1] = e /\ Tail(one) = <<>>
  BY SingleIsSeq
<1> HIDE DEF one
<1>2. Tail(one \o more) = Tail(one) \o more
  BY <1>1, TailOn
<1>3. Tail(one) \o more = more
  BY <1>1, ConcatEmptySeq
<1>4. one \o more # <<>>
  BY <1>1, ConcatEqualIffEmpty
<1>5. (one \o more)[1] = e
  <2>1. 1 \in 1 .. Len(one) + Len(more) /\ 1 <= Len(one)
    BY <1>1, LenProperties
  <2>2. QED
    BY <1>1, <2>1, ConcatProperties
<1>6. one \o more \in Seq(S)
  BY <1>1, ConcatProperties
<1>7. QED
  BY <1>2, <1>3, <1>4, <1>5, <1>6 DEF one

\* The host finds the expression and the parameters that were written.
LEMMA RestExpression ==
  ASSUME NEW v, IsTrack(v), NEW values, NEW mode
  PROVE  LET kept == Movement(values, mode, FlagBits(v), RestOf(v))
         IN ExpressionOf(kept) = v.expression /\ ParamsOf(kept) = ParamsPart(v)
<1> DEFINE flags == FlagBits(v)
           rest == RestOf(v)
           kept == Movement(values, mode, flags, rest)
<1>1. ParamsPart(v) \in Seq(Filled) /\ rest \in Seq(Filled)
  BY RestIs
<1>2. IF HasBit(flags, 8) /\ rest # <<>>
      THEN ExpressionOf(kept) = <<rest[1]>> /\ ParamsOf(kept) = Tail(rest)
      ELSE ExpressionOf(kept) = <<>> /\ ParamsOf(kept) = rest
  <2> HIDE DEF rest, flags
  <2> QED BY <1>1, HeldParts
<1>3. HasBit(flags, 8) <=> v.expression # None
  BY DEF IsTrack, Announces
<1>4. rest = v.expression \o ParamsPart(v)
  BY DEF RestOf
<1> HIDE DEF flags, rest, kept
<1>5. CASE v.expression = None
  <2>1. rest = ParamsPart(v)
    BY <1>1, <1>4, <1>5, ConcatEmptySeq DEF None
  <2>2. QED
    BY <1>2, <1>3, <1>5, <2>1 DEF kept, rest, flags, None
<1>6. CASE v.expression # None
  <2>1. PICK e \in Filled : v.expression = <<e>>
    BY <1>6 DEF IsTrack, Some
  <2>2. rest # <<>> /\ rest[1] = e /\ Tail(rest) = ParamsPart(v)
    BY <1>1, <1>4, <2>1, HeadOn
  <2>3. QED
    BY <1>2, <1>3, <1>6, <2>1, <2>2 DEF kept, rest, flags
<1>7. QED
  BY <1>5, <1>6

\* What the host is to hold after the value was written, over what was there.
MeansOver(value, kept, earlier) ==
  CASE value.kind \in {"number", "bool"} ->
         kept = Number(value.track.values[1])
    [] value.kind = "track" ->
         LET v == value.track
         IN /\ kept.values = v.values /\ kept.mode = v.mode /\ kept.flags = FlagBits(v)
            /\ ExpressionOf(kept) \in {v.expression, ExpressionOf(earlier)}
            /\ v.params # <<>> => ParamsOf(kept) = <<ParamsText(v.params)>>
    [] value.kind = "text" -> kept.text = WithoutCr(value.text)
    [] value.kind = "color" -> kept.text = <<Lowered[value.text[1]]>>
    [] OTHER -> kept.text = value.text

\* A number is answered as written when it is there.
LEMMA NumberIsMeant ==
  ASSUME NEW type \in NumberTypes, NEW value, NEW after, NEW earlier, Fit(type, value),
         Holds(type, after), value.kind # "track",
         Matches(type, value, HostSpells(type, after))
  PROVE  MeansOver(value, after, earlier)
<1>1. PICK n \in Numbers : value.track = Static(n)
  BY FitNumber
<1>2. value.kind \in {"number", "bool"} /\ Encoded(value) = EncodedTrack(value.track)
  BY FitNumber
<1>3. IsStill(Static(n)) /\ Static(n).values = <<n>>
  BY StaticIsStill DEF Static
<1>4. HostReads(Encoded(value)) = Number(n)
  <2>1. PICK m \in Numbers : <<n>> = <<m>> /\ HostReads(EncodedTrack(Static(n))) = Number(m)
    BY <1>3, StillEncoded
  <2>2. n = m
    BY <2>1
  <2>3. QED
    BY <1>1, <1>2, <2>1, <2>2
<1>5. Encoded(value) = HostSpells(type, after)
  BY <1>2 DEF Matches, MatchesLine, NumberTypes
<1>6. HostReads(HostSpells(type, after)) = after
  BY HeldReadBack
<1>7. after = Number(n) /\ value.track.values[1] = n
  BY <1>1, <1>3, <1>4, <1>5, <1>6
<1>8. QED
  BY <1>2, <1>7 DEF MeansOver

LEMMA NumberParts ==
  ASSUME NEW n
  PROVE  ExpressionOf(Number(n)) = None
<1>1. Number(n).rest = <<>>
  BY HeldAre
<1>2. Announced(Number(n)) = 0
  BY <1>1 DEF Announced
<1>3. SubSeq(<<>>, 1, 0) = <<>>
  OBVIOUS
<1>4. QED
  BY <1>1, <1>2, <1>3 DEF ExpressionOf, None

\* What is read of an item of numbers that matches what was written.
LEMMA ObservedIs ==
  ASSUME NEW type \in NumberTypes, NEW after, Holds(type, after),
         DecodedTrack(HostSpells(type, after)).is = "value"
  PROVE  LET o == DecodedTrack(HostSpells(type, after)).value
         IN /\ after.values = o.values /\ after.mode = o.mode /\ after.flags = FlagBits(o)
            /\ ExpressionOf(after) = o.expression
            /\ o.params # <<>> => ParamsOf(after) = <<ParamsText(o.params)>>
<1> DEFINE o == DecodedTrack(HostSpells(type, after)).value
<1>1. ASSUME NEW n \in 0 .. TopValue, after = Number(n)
      PROVE  /\ after.values = o.values /\ after.mode = o.mode /\ after.flags = FlagBits(o)
             /\ ExpressionOf(after) = o.expression /\ o.params = <<>>
  <2>1. n \in Numbers
    BY TopIsNumber
  <2>2. DecodedTrack(HostSpells(type, after)) = Readable(Static(n))
    BY <1>1, <2>1, NumberSpelled, NumberLine
  <2>3. o = Static(n)
    BY <2>2 DEF Readable
  <2>4. /\ Static(n).values = <<n>> /\ Static(n).mode = None /\ Static(n).expression = None
        /\ Static(n).params = <<>>
    BY DEF Static
  <2>5. FlagBits(Static(n)) = 0
    BY <2>1, StaticIsStill DEF IsStill
  <2>6. after.values = <<n>> /\ after.mode = None /\ after.flags = 0 /\ ExpressionOf(after) = None
    BY <1>1, HeldAre, NumberParts
  <2>7. QED
    BY <2>3, <2>4, <2>5, <2>6
<1>2. ASSUME NEW values \in HeldValues, NEW mode \in HostModes, NEW flags \in Numbers,
             NEW rest \in Seq(Filled), after = Movement(values, mode, flags, rest)
      PROVE  /\ after.values = o.values /\ after.mode = o.mode /\ after.flags = FlagBits(o)
             /\ ExpressionOf(after) = o.expression
             /\ o.params # <<>> => ParamsOf(after) = <<ParamsText(o.params)>>
  <2>1. values \in Seq(Numbers) /\ values # <<>>
    BY ValuesAre
  <2>2. /\ o.values = values /\ o.mode = Some(mode) /\ FlagBits(o) = flags
        /\ o.expression = ExpressionOf(after)
        /\ ParamsOf(after) = IF o.params = <<>> THEN <<>> ELSE <<ParamsText(o.params)>>
    BY <1>2, <2>1, HeldRead
  <2>3. after.values = values /\ after.mode = Some(mode) /\ after.flags = flags
    BY <1>2, HeldAre
  <2>4. QED
    BY <2>2, <2>3
<1>3. QED
  BY <1>1, <1>2, HeldIs

LEMMA MatchesTrack ==
  ASSUME NEW type \in NumberTypes, NEW line, NEW observed
  PROVE  MatchesLine(type, "track", line, observed)
           <=> SameMovement(DecodedTrack(line), DecodedTrack(observed))
BY DEF MatchesLine, NumberTypes

\* A movement is answered as written when it is there, but for its expression.
LEMMA TrackIsMeant ==
  ASSUME NEW type \in NumberTypes, NEW value, NEW after, NEW earlier, Fit(type, value),
         Holds(type, earlier), Holds(type, after), value.kind = "track",
         after \in {Settled(HostTakes(type, Encoded(value), earlier)), Settled(earlier)},
         Matches(type, value, HostSpells(type, after))
  PROVE  MeansOver(value, after, earlier)
<1> DEFINE v == value.track
           asks == DecodedTrack(Encoded(value))
           spelt == DecodedTrack(HostSpells(type, after))
           o == spelt.value
<1>1. Encoded(value) = EncodedTrack(v) /\ (IsStill(v) \/ IsTrack(v))
  BY FitNumber
<1>2. /\ asks.is = "value" /\ spelt.is = "value"
      /\ asks.value.values = o.values /\ asks.value.mode = o.mode
      /\ FlagBits(asks.value) = FlagBits(o)
      /\ asks.value.params = <<>> \/ asks.value.params = o.params
  <2>1. SameMovement(asks, spelt)
    <3>1. MatchesLine(type, "track", Encoded(value), HostSpells(type, after))
      BY DEF Matches
    <3>2. QED
      BY <3>1, MatchesTrack
  <2> HIDE DEF asks, spelt
  <2>2. asks.value.params \in {<<>>, spelt.value.params}
    BY <2>1 DEF SameMovement
  <2>3. QED
    BY <2>1, <2>2 DEF SameMovement
<1>3. /\ after.values = o.values /\ after.mode = o.mode /\ after.flags = FlagBits(o)
      /\ ExpressionOf(after) = o.expression
      /\ o.params # <<>> => ParamsOf(after) = <<ParamsText(o.params)>>
  BY <1>2, ObservedIs
<1>4. /\ asks.value.values = v.values /\ asks.value.mode = v.mode
      /\ FlagBits(asks.value) = FlagBits(v) /\ asks.value.params = v.params
  <2>1. CASE IsTrack(v)
    BY <1>1, <2>1, EncodedRead
  <2>2. CASE IsStill(v)
    <3>1. PICK n \in Numbers : v.values = <<n>> /\ DecodedTrack(EncodedTrack(v)) = Readable(Static(n))
      BY <2>2, StillEncoded
    <3>2. asks.value = Static(n)
      BY <1>1, <3>1 DEF Readable
    <3>3. FlagBits(Static(n)) = 0
      BY StaticIsStill DEF IsStill
    <3>4. Static(n).values = <<n>> /\ Static(n).mode = None /\ Static(n).params = <<>>
      BY DEF Static
    <3>5. QED
      BY <2>2, <3>1, <3>2, <3>3, <3>4 DEF IsStill
  <2>3. QED
    BY <1>1, <2>1, <2>2
<1>5. ExpressionOf(after) \in {v.expression, ExpressionOf(earlier)}
  <2>1. CASE after = Settled(earlier)
    BY <2>1, SettledHolds, TypesAre DEF ItemTypes, NumberTypes
  <2>2. CASE after = Settled(HostTakes(type, Encoded(value), earlier))
    <3> DEFINE taken == HostTakes(type, Encoded(value), earlier)
    <3>0. type \in ItemTypes
      BY DEF ItemTypes, NumberTypes
    <3>1. Holds(type, taken)
      BY <3>0, WrittenIsHeld
    <3>2. taken = HostKeeps(HostReads(Encoded(value)))
      BY DEF HostTakes, NumberTypes
    <3>3. ExpressionOf(after) = ExpressionOf(taken)
      BY <2>2, <3>0, <3>1, SettledHolds
    <3> HIDE DEF taken
    <3>4. CASE IsTrack(v)
      <4>1. PICK mode \in HostModes : v.mode = Some(mode)
        BY <3>4 DEF IsTrack
      <4>2. HostReads(Encoded(value)) = Movement(v.values, mode, FlagBits(v), RestOf(v))
        BY <1>1, <3>4, <4>1, EncodedIs
      <4>3. taken = IF mode \in LostModes THEN Number(Capped(v.values)[1])
                    ELSE Movement(Capped(v.values), mode, FlagBits(v), RestOf(v))
        BY <3>2, <4>2, KeepsIs
      <4>4. mode \notin LostModes
        <5>1. SUFFICES ASSUME mode \in LostModes PROVE FALSE
          OBVIOUS
        <5>2. taken.mode = None
          BY <4>3, <5>1, HeldAre
        <5>3. after.mode = None
          BY <2>2, <3>0, <3>1, <5>2, SettledHolds DEF taken
        <5>4. after.mode = Some(mode)
          BY <1>2, <1>3, <1>4, <4>1
        <5>5. QED
          BY <5>3, <5>4 DEF Some, None
      <4>5. ExpressionOf(taken) = v.expression
        BY <3>4, <4>3, <4>4, RestExpression
      <4>6. QED
        BY <3>3, <4>5
    <3>5. CASE IsStill(v)
      <4>1. PICK n \in Numbers : HostReads(Encoded(value)) = Number(n)
        BY <1>1, <3>5, StillEncoded
      <4>2. taken = Number(Cap(n))
        BY <3>2, <4>1, KeepsIs
      <4>3. QED
        BY <3>3, <3>5, <4>2, NumberParts DEF IsStill
    <3>6. QED
      BY <1>1, <3>4, <3>5
  <2>3. QED
    BY <2>1, <2>2
<1>6. v.params # <<>> => ParamsOf(after) = <<ParamsText(v.params)>>
  BY <1>2, <1>3, <1>4
<1>7. after.values = v.values /\ after.mode = v.mode /\ after.flags = FlagBits(v)
  BY <1>2, <1>3, <1>4
<1> HIDE DEF asks, spelt, o
<1>8. QED
  BY <1>5, <1>6, <1>7 DEF MeansOver

\* A text, a colour or a word is answered as written when it is there.
LEMMA TextIsMeant ==
  ASSUME NEW type \in ItemTypes \ NumberTypes, NEW value, NEW after, NEW earlier, Fit(type, value),
         Holds(type, after), Matches(type, value, HostSpells(type, after))
  PROVE  MeansOver(value, after, earlier)
<1> DEFINE line == Encoded(value)
           spelt == HostSpells(type, after)
<1>1. /\ type \in {"text", "color", "word"} /\ value.kind = type
      /\ line = IF type = "text" THEN Escaped(WithoutCr(value.text)) ELSE value.text
  BY FitText
<1>2. /\ after.text \in Lines
      /\ spelt = IF type = "text" THEN Escaped(after.text) ELSE after.text
  BY HeldTextIs
<1>3. MatchesLine(type, value.kind, line, spelt)
  BY DEF Matches
<1> HIDE DEF line, spelt
<1>4. CASE type = "text"
  <2>1. line = spelt
    BY <1>1, <1>3, <1>4 DEF MatchesLine
  <2>2. WithoutCr(value.text) \in Lines
    <3>1. value.text \in Lines
      BY DEF Fit
    <3>2. QED
      BY <3>1, WithoutCrIs, WithoutType
  <2>3. /\ Unescaped(Escaped(WithoutCr(value.text))) = WithoutCr(value.text)
        /\ Unescaped(Escaped(after.text)) = after.text
    BY <1>2, <2>2, EscapedIsReadBack
  <2>4. after.text = WithoutCr(value.text)
    BY <1>1, <1>2, <1>4, <2>1, <2>3
  <2>5. value.kind = "text"
    BY <1>1, <1>4
  <2>6. QED
    BY <2>4, <2>5 DEF MeansOver
<1>5. CASE type = "color"
  <2>1. PICK word \in DOMAIN Lowered : after = HeldText(<<word>>) /\ IsLowered(word)
    BY <1>5 DEF Holds
  <2>2. spelt = <<word>> /\ after.text = <<word>>
    BY <1>2, <1>5, <2>1, HeldAre
  <2>3. Lowered[word] = word
    BY <2>1 DEF IsLowered
  <2>4. Len(spelt) = 1 /\ spelt[1] = word
    BY <2>2
  <2>5. value.kind = "color" /\ line = value.text
    BY <1>1, <1>5
  <2>6. Len(line) = 1
    <3>1. SUFFICES ASSUME Len(line) # 1 PROVE FALSE
      OBVIOUS
    <3>2. line = spelt
      BY <1>3, <2>5, <3>1 DEF MatchesLine
    <3>3. QED
      BY <2>4, <3>1, <3>2
  <2>7. Lowered[line[1]] = Lowered[spelt[1]]
    BY <1>3, <1>5, <2>4, <2>5, <2>6 DEF MatchesLine
  <2>8. after.text = <<Lowered[value.text[1]]>>
    BY <2>2, <2>3, <2>4, <2>5, <2>7
  <2>9. QED
    BY <2>5, <2>8 DEF MeansOver
<1>6. CASE type = "word"
  <2>1. line = spelt
    BY <1>1, <1>3, <1>6 DEF MatchesLine
  <2>2. value.kind = "word" /\ after.text = value.text
    BY <1>1, <1>2, <1>6, <2>1
  <2>3. QED
    BY <2>2 DEF MeansOver
<1>7. QED
  BY <1>1, <1>4, <1>5, <1>6

LEMMA MatchedIsMeant ==
  ASSUME NEW type \in ItemTypes, NEW value, NEW earlier, NEW after, Fit(type, value),
         Holds(type, earlier), Holds(type, after),
         after \in {Settled(HostTakes(type, Encoded(value), earlier)), Settled(earlier)},
         Matches(type, value, HostSpells(type, after))
  PROVE  MeansOver(value, after, earlier)
<1>1. CASE type \notin NumberTypes
  BY <1>1, TextIsMeant
<1>2. CASE type \in NumberTypes /\ value.kind # "track"
  BY <1>2, NumberIsMeant
<1>3. CASE type \in NumberTypes /\ value.kind = "track"
  BY <1>3, TrackIsMeant
<1>4. QED
  BY <1>1, <1>2, <1>3

-----------------------------------------------------------------------------
(* The line that was there.                                                *)

LEMMA OriginIsLine ==
  ASSUME NEW type \in ItemTypes, NEW kept, Holds(type, kept)
  PROVE  /\ HostSpells(type, kept) \in Lines
         /\ type = "text" => HostSpells(type, kept) \in Without({"CR"})
<1>1. CASE type \in NumberTypes
  <2>1. type # "text"
    BY <1>1 DEF NumberTypes
  <2>2. QED
    BY <1>1, <2>1, HeldReadBack
<1>2. CASE type \notin NumberTypes
  <2>1. kept.text \in Lines
        /\ HostSpells(type, kept) = IF type = "text" THEN Escaped(kept.text) ELSE kept.text
    BY <1>2, HeldTextIs
  <2>2. type = "text" => Escaped(kept.text) \in Without({"CR"})
    BY EscapedType DEF Holds
  <2>3. QED
    BY <2>1, <2>2, WithoutType
<1>3. QED
  BY <1>1, <1>2

\* What an item holds is taken as it is, but for a movement in a mode that is lost.
LEMMA KeepsHeld ==
  ASSUME NEW type \in NumberTypes, NEW kept, Holds(type, kept)
  PROVE  /\ HostKeeps(kept) # Crash
         /\ ToSet(kept.mode) \cap LostModes = {} => HostKeeps(kept) = kept
<1>1. ASSUME NEW n \in 0 .. TopValue, kept = Number(n)
      PROVE  HostKeeps(kept) = kept
  <2>1. n \in Numbers
    BY TopIsNumber
  <2>2. HostKeeps(Number(n)) = Number(Cap(n)) /\ Cap(n) = n
    BY <2>1, KeepsIs
  <2>3. QED
    BY <1>1, <2>2
<1>2. ASSUME NEW values \in HeldValues, NEW mode \in HostModes, NEW flags \in Numbers,
             NEW rest \in Seq(Filled), kept = Movement(values, mode, flags, rest)
      PROVE  /\ HostKeeps(kept) # Crash
             /\ ToSet(kept.mode) \cap LostModes = {} => HostKeeps(kept) = kept
  <2>1. Capped(values) = values
    BY ValuesAre, CappedIs
  <2>2. HostKeeps(kept) = IF mode \in LostModes THEN Number(Capped(values)[1]) ELSE kept
    BY <1>2, <2>1, KeepsIs
  <2>3. ToSet(kept.mode) = {mode}
    <3>1. kept.mode = <<mode>>
      BY <1>2, HeldAre DEF Some
    <3>2. ToSet(<<mode>>) = {mode}
      BY ToSetOne
    <3>3. QED
      BY <3>1, <3>2
  <2>4. QED
    BY <1>2, <2>2, <2>3, HeldAre
<1>3. kept # Crash
  BY HeldIs
<1>4. QED
  BY <1>1, <1>2, <1>3, HeldIs

\* To set it again does no harm.
LEMMA OriginIsTaken ==
  ASSUME NEW type \in ItemTypes, NEW kept, NEW over, Holds(type, kept), Holds(type, over)
  PROVE  LET taken == HostTakes(type, HostSpells(type, kept), over)
         IN taken # Crash /\ Holds(type, taken)
<1> DEFINE line == HostSpells(type, kept)
           taken == HostTakes(type, line, over)
<1>1. line \in Lines /\ (type = "text" => line \in Without({"CR"}))
  BY OriginIsLine
<1> HIDE DEF line
<1>2. taken # Crash => Holds(type, taken)
  BY <1>1, TakesHolds
<1>3. taken # Crash
  <2>1. CASE type \in NumberTypes
    <3>1. taken = HostKeeps(HostReads(line))
      BY <2>1 DEF HostTakes, NumberTypes
    <3>2. HostReads(line) = kept
      BY <2>1, HeldReadBack DEF line
    <3>3. HostKeeps(kept) # Crash
      BY <2>1, KeepsHeld
    <3>4. QED
      BY <3>1, <3>2, <3>3
  <2>2. CASE type = "text"
    BY <2>2, HeldAre DEF HostTakes
  <2>3. CASE type = "color"
    BY <2>3, HeldAre DEF HostTakes
  <2>4. CASE type \in {"word", "data"}
    <3>1. taken = HeldText(line) \/ taken = over
      BY <2>4 DEF HostTakes
    <3>2. over # Crash
      BY SettledHolds
    <3>3. QED
      BY <3>1, <3>2, HeldAre
  <2>5. QED
    BY <2>1, <2>2, <2>3, <2>4, TypesAre
<1>4. QED
  BY <1>2, <1>3 DEF line

-----------------------------------------------------------------------------
(* What was read, sent back as it is.                                      *)

LEMMA ReadNumberIs ==
  ASSUME NEW type \in NumberTypes, NEW line \in Lines, NEW moves,
         ReadValue(type, line, moves).kind # "unknown"
  PROVE  LET value == ReadValue(type, line, moves)
         IN \/ /\ IsNumber(line)
               /\ \E kind \in {"number", "bool"} \cap Accepts(type) :
                    value = Value(kind, Static(NumberOf(line)), <<>>)
            \/ /\ type = "track" /\ DecodedTrack(line).is = "value" /\ ~IsNumber(line)
               /\ value = Value("track", DecodedTrack(line).value, <<>>)
<1> DEFINE value == ReadValue(type, line, moves)
<1>0. /\ Accepts("track") = {"number", "track"} /\ Accepts("range") = {"number"}
      /\ Accepts("check") = {"bool"}
  BY DEF Accepts
<1>1. CASE type \in {"track", "range"} /\ IsNumber(line)
  <2>1. value = Value("number", Static(NumberOf(line)), <<>>)
    BY <1>1 DEF ReadValue
  <2>2. QED
    BY <1>0, <1>1, <2>1
<1>2. CASE type = "check"
  <2>1. CASE line \in {<<Numeral[0]>>, <<Numeral[1]>>}
    <3>1. 0 \in Numbers /\ 1 \in Numbers
      <4>1. MaxNumber \in Nat \ {0}
        BY SpellingAssumption
      <4>2. QED
        BY <4>1 DEF Numbers
    <3>2. IsNumber(line)
      BY <2>1, <3>1, NumeralIs
    <3>3. value = Value("bool", Static(NumberOf(line)), <<>>)
      BY <1>2, <2>1 DEF ReadValue
    <3>4. QED
      BY <1>0, <1>2, <3>2, <3>3
  <2>2. CASE line \notin {<<Numeral[0]>>, <<Numeral[1]>>}
    <3>1. value = Unknown(line)
      BY <1>2, <2>2 DEF ReadValue
    <3>2. QED
      BY <3>1 DEF Unknown, Value
  <2>3. QED
    BY <2>1, <2>2
<1>3. CASE type = "range" /\ ~IsNumber(line)
  <2>1. value = Unknown(line)
    BY <1>3 DEF ReadValue
  <2>2. QED
    BY <2>1 DEF Unknown, Value
<1>4. CASE type = "track" /\ ~IsNumber(line)
  <2>1. value = MovementOrUnknown(DecodedTrack(line), line, moves)
    BY <1>4 DEF ReadValue
  <2>2. value = Unknown(line) => value.kind = "unknown"
    BY DEF Unknown, Value
  <2>3. DecodedTrack(line).is = "value" /\ value = Value("track", DecodedTrack(line).value, <<>>)
    <3> HIDE DEF value
    <3> QED BY <2>1, <2>2 DEF MovementOrUnknown, value
  <2>4. QED
    BY <1>4, <2>3
<1>5. QED
  BY <1>1, <1>2, <1>3, <1>4 DEF NumberTypes

\* What is to hold of a value that is sent back.
GoesBack(type, value, kept) ==
  LET line == HostSpells(type, kept)
  IN /\ Fit(type, value)
     /\ ToSet(value.track.mode) \cap LostModes = {} => HostTakes(type, Encoded(value), kept) = kept
     /\ Matches(type, value, line)
     /\ \A some, modes :
          \/ Len(line) > MaxTokens \/ (value.kind = "track" /\ ~TrackFits(value.track, some, modes))
          \/ CanEncode(type, value, some, modes)
     /\ ~DropsMovement(type, value, line)
     /\ value.kind = "number" => kept.mode = None

LEMMA NothingIsLine == <<>> \in Lines
BY EmptySeq DEF Lines

LEMMA NumberGoesBack ==
  ASSUME NEW type \in NumberTypes, NEW kept, Holds(type, kept), IsNumber(HostSpells(type, kept)),
         NEW kind \in {"number", "bool"} \cap Accepts(type)
  PROVE  GoesBack(type, Value(kind, Static(NumberOf(HostSpells(type, kept))), <<>>), kept)
<1> DEFINE line == HostSpells(type, kept)
           n == NumberOf(line)
           value == Value(kind, Static(n), <<>>)
<1>1. line \in Lines /\ HostReads(line) = kept
  BY HeldReadBack
<1>2. n \in Numbers /\ line = <<Numeral[n]>>
  BY <1>1, NumberIs DEF Lines
<1> HIDE DEF n
<1>3. kept = Number(n) /\ kept.mode = None
  <2>1. HostReads(<<Numeral[n]>>) = Number(n)
    BY <1>2, NumberLine
  <2>2. QED
    BY <1>1, <1>2, <2>1, HeldAre
<1>4. value.kind = kind /\ value.track = Static(n) /\ value.text = <<>>
  BY DEF Value
<1>5. Encoded(value) = line
  <2>1. IsStill(Static(n)) /\ Static(n).values = <<n>>
    BY <1>2, StaticIsStill DEF Static
  <2>2. PICK m \in Numbers : <<n>> = <<m>> /\ EncodedTrack(Static(n)) = <<Numeral[m]>>
    BY <2>1, StillEncoded
  <2>3. n = m
    BY <2>2
  <2>4. Encoded(value) = EncodedTrack(value.track)
    BY <1>4 DEF Encoded
  <2>5. QED
    BY <1>2, <1>4, <2>2, <2>3, <2>4
<1> HIDE DEF value, line
<1>6. Fit(type, value)
  BY <1>2, <1>4, NothingIsLine DEF Fit
<1>7. HostTakes(type, line, kept) = kept
  <2>1. HostTakes(type, line, kept) = HostKeeps(HostReads(line))
    BY DEF HostTakes, NumberTypes
  <2>2. ToSet(kept.mode) = {}
    <3>1. ToSet(<<>>) = {}
      BY DEF ToSet
    <3>2. QED
      BY <1>3, <3>1 DEF None
  <2>3. QED
    BY <1>1, <2>1, <2>2, KeepsHeld
<1>8. Matches(type, value, line)
  <2>1. type # "color" /\ value.kind # "track"
    BY <1>4 DEF NumberTypes
  <2>2. QED
    BY <1>5, <2>1 DEF Matches, MatchesLine
<1>9. ASSUME NEW some, NEW modes PROVE CanEncode(type, value, some, modes)
  <2>1. Len(Encoded(value)) <= MaxTokens
    <3>1. Len(line) = 1 /\ MaxTokens \in Nat \ {0}
      BY <1>2, SpellingAssumption
    <3>2. QED
      BY <1>5, <3>1
  <2>2. QED
    BY <1>4, <2>1 DEF CanEncode
<1>10. ~DropsMovement(type, value, line)
  <2>1. DecodedTrack(line) = Readable(Static(n))
    BY <1>2, NumberLine
  <2>2. Static(n).mode = None
    BY DEF Static
  <2>3. DecodedTrack(line).is = "value" /\ DecodedTrack(line).value = Static(n)
    BY <2>1 DEF Readable
  <2>4. QED
    BY <2>2, <2>3 DEF DropsMovement, HoldsMovement, ReadsAsMovement
<1>11. QED
  BY <1>3, <1>5, <1>6, <1>7, <1>8, <1>9, <1>10 DEF GoesBack, value, n, line

LEMMA BarIsMore ==
  ASSUME NEW values \in Seq(Numbers), NEW mode \in HostModes, NEW flags \in Numbers
  PROVE  Len(LineOf(values, mode, flags, <<>>)) <= Len(LineOf(values, mode, flags, << <<>> >>))
<1> DEFINE first == FirstSection(values, <<mode>>, flags)
           parts == <<first>>
<1>1. PICK none : none = <<>>
  OBVIOUS
<1>2. first \in Lines /\ none \in Lines
  <2>1. first \in Sections
    BY FirstSectionIs
  <2>2. Sections \subseteq Lines
    BY SeqMonotonic DEF Sections, Lines
  <2>3. QED
    BY <1>1, <2>1, <2>2, NothingIsLine
<1> HIDE DEF first
<1>3. parts \in Some1(Lines)
  BY <1>2, SingleIsSeq DEF Some1
<1>4. "|" \in Tokens
  BY SpellingAssumption
<1>5. Joined(Append(parts, none), "|") = Joined(parts, "|") \o (<<"|">> \o none)
  BY <1>2, <1>3, <1>4, JoinedAppend DEF Lines
<1>6. Joined(parts, "|") \in Seq(Tokens)
  BY <1>3, <1>4, JoinedType DEF Lines
<1>7. <<"|">> \o none \in Seq(Tokens)
  BY <1>2, <1>4 DEF Lines
<1> DEFINE line == Joined(parts, "|")
           more == <<"|">> \o none
<1>8. Len(line) <= Len(line \o more)
  <2> HIDE DEF line, more
  <2>1. Len(line \o more) = Len(line) + Len(more) /\ Len(line) \in Nat /\ Len(more) \in Nat
    BY <1>6, <1>7, ConcatProperties, LenProperties DEF line, more
  <2>2. QED
    BY <2>1
<1>9. LineOf(values, mode, flags, none) = line
  <2>1. parts \o none = parts
    BY <1>1, <1>3, ConcatEmptySeq DEF Some1
  <2>2. QED
    BY <2>1 DEF LineOf, first
<1>10. LineOf(values, mode, flags, <<none>>) = line \o more
  <2>1. parts \o <<none>> = Append(parts, none)
    BY <1>2, <1>3, PairAppend DEF Some1
  <2>2. QED
    BY <1>5, <2>1 DEF LineOf, first
<1>11. QED
  BY <1>1, <1>8, <1>9, <1>10

LEMMA MovementGoesBack ==
  ASSUME NEW kept, Holds("track", kept), ~IsNumber(HostSpells("track", kept)),
         DecodedTrack(HostSpells("track", kept)).is = "value"
  PROVE  GoesBack("track", Value("track", DecodedTrack(HostSpells("track", kept)).value, <<>>), kept)
<1> DEFINE type == "track"
           line == HostSpells(type, kept)
           v == DecodedTrack(line).value
           value == Value("track", v, <<>>)
<1>0. type \in NumberTypes
  BY DEF NumberTypes
<1>1. PICK values \in HeldValues, mode \in HostModes, flags \in Numbers, rest \in Seq(Filled) :
        kept = Movement(values, mode, flags, rest)
  <2>1. ASSUME NEW n \in 0 .. TopValue, kept = Number(n) PROVE FALSE
    <3>1. line = <<Numeral[n]>> /\ n \in Numbers
      BY <1>0, <2>1, NumberSpelled, TopIsNumber
    <3>2. QED
      BY <3>1, NumeralIs
  <2>2. QED
    BY <1>0, <2>1, HeldIs
<1>2. values \in Seq(Numbers) /\ values # <<>>
  BY ValuesAre
<1>3. /\ v.values = values /\ v.mode = Some(mode) /\ FlagBits(v) = flags
      /\ v.expression = ExpressionOf(kept) /\ Len(values) >= 2 /\ v.params \in Seq(Numbers)
      /\ ParamsOf(kept) = ParamsPart(v) /\ DecodedTrack(line) = Readable(v)
  BY <1>0, <1>1, <1>2, HeldRead DEF ParamsPart
<1>4. ~Unreadable(flags, Ending(rest)) /\ (HasBit(flags, 8) <=> ExpressionOf(kept) # None)
  <2>1. /\ Unreadable(flags, Ending(rest)) => DecodedTrack(line) = NotRepresentable
        /\ ~Unreadable(flags, Ending(rest)) => (HasBit(flags, 8) <=> ExpressionOf(kept) # None)
    BY <1>0, <1>1, <1>2, HeldDecoded
  <2>2. NotRepresentable.is # "value"
    BY DEF NotRepresentable
  <2>3. QED
    BY <2>1, <2>2
<1>5. /\ ExpressionOf(kept) \o ParamsOf(kept) = rest
      /\ IF HasBit(flags, 8) /\ rest # <<>>
         THEN ExpressionOf(kept) = <<rest[1]>> ELSE ExpressionOf(kept) = <<>>
  BY <1>1, HeldParts
<1> HIDE DEF value, v, line
<1>6. IsTrack(v)
  <2>1. v.expression = None
        \/ \E e \in Filled : v.expression = Some(e) /\ ToSet(e) \cap Controls = {}
    <3>1. SUFFICES ASSUME v.expression # None
                   PROVE  \E e \in Filled : v.expression = Some(e) /\ ToSet(e) \cap Controls = {}
      OBVIOUS
    <3>2. HasBit(flags, 8) /\ rest # <<>> /\ ExpressionOf(kept) = <<rest[1]>>
      BY <1>3, <1>4, <1>5, <3>1 DEF None
    <3>3. rest[1] \in Filled
      BY <3>2, HeadTailProperties
    <3>4. ToSet(rest[1]) \cap Controls = {}
      BY <1>4, <3>2 DEF Unreadable, Ending
    <3>5. QED
      BY <1>3, <3>2, <3>3, <3>4 DEF Some
  <2>2. QED
    BY <1>2, <1>3, <1>4, <2>1 DEF IsTrack, Announces
<1>7. RestOf(v) = rest
  BY <1>3, <1>5 DEF RestOf
<1>8. /\ EncodedTrack(v) = LineOf(values, mode, flags, rest)
      /\ HostReads(EncodedTrack(v)) = kept
  <2>1. /\ EncodedTrack(v) = LineOf(v.values, mode, FlagBits(v), RestOf(v))
        /\ HostReads(EncodedTrack(v)) = Movement(v.values, mode, FlagBits(v), RestOf(v))
    BY <1>3, <1>6, EncodedIs
  <2>2. QED
    BY <1>1, <1>3, <1>7, <2>1
<1>9. value.kind = "track" /\ value.track = v /\ value.text = <<>> /\ Encoded(value) = EncodedTrack(v)
  BY DEF value, Value, Encoded
<1>10. "track" \in Accepts(type)
  BY DEF Accepts
<1>11. Fit(type, value)
  BY <1>6, <1>9, <1>10, NothingIsLine DEF Fit
<1>12. ToSet(value.track.mode) \cap LostModes = {} => HostTakes(type, Encoded(value), kept) = kept
  <2>1. HostTakes(type, Encoded(value), kept) = HostKeeps(kept)
    BY <1>8, <1>9 DEF HostTakes
  <2>2. value.track.mode = kept.mode
    BY <1>1, <1>3, <1>9, HeldAre
  <2>3. QED
    BY <1>0, <2>1, <2>2, KeepsHeld
<1>13. Matches(type, value, line)
  <2>1. SameMovement(DecodedTrack(EncodedTrack(v)), DecodedTrack(line))
    <3>1. DecodedTrack(line).is = "value" /\ DecodedTrack(line).value = v
      BY <1>3 DEF Readable
    <3>2. QED
      BY <1>6, <3>1, EncodedRead DEF SameMovement
  <2>2. QED
    BY <1>0, <1>9, <2>1, MatchesTrack DEF Matches
<1>14. Len(EncodedTrack(v)) <= Len(line) /\ Len(line) \in Nat /\ Len(EncodedTrack(v)) \in Nat
  <2>1. line = LineOf(values, mode, flags, Ending(rest)) /\ line \in Lines
    BY <1>0, <1>1, <1>2, HeldSpelled DEF line
  <2>2. Len(line) \in Nat /\ Len(EncodedTrack(v)) \in Nat
    BY <1>3, <1>6, <2>1, EncodedIs, LenProperties DEF Lines
  <2>3. CASE rest = <<>>
    BY <1>2, <1>8, <2>1, <2>2, <2>3, BarIsMore DEF Ending
  <2>4. CASE rest # <<>>
    <3>1. line = EncodedTrack(v)
      BY <1>8, <2>1, <2>4 DEF Ending
    <3>2. QED
      BY <2>2, <3>1
  <2>5. QED
    BY <2>3, <2>4
<1>15. ASSUME NEW some, NEW modes, ~(Len(line) > MaxTokens), TrackFits(v, some, modes)
       PROVE  CanEncode(type, value, some, modes)
  <2>1. Len(Encoded(value)) <= MaxTokens
    <3>1. MaxTokens \in Nat
      BY SpellingAssumption
    <3>2. QED
      BY <1>9, <1>14, <1>15, <3>1
  <2>2. QED
    BY <1>9, <1>10, <1>15, <2>1 DEF CanEncode
<1>16. ~DropsMovement(type, value, line)
  BY <1>9 DEF DropsMovement
<1>17. GoesBack(type, value, kept)
  BY <1>9, <1>11, <1>12, <1>13, <1>15, <1>16 DEF GoesBack, line
<1>18. QED
  BY <1>17 DEF value, v, line

LEMMA TextGoesBack ==
  ASSUME NEW kept, Holds("text", kept)
  PROVE  GoesBack("text", Value("text", Static(0), Unescaped(HostSpells("text", kept))), kept)
<1> DEFINE type == "text"
           text == kept.text
           line == HostSpells(type, kept)
           value == Value("text", Static(0), Unescaped(line))
<1>0. type \in ItemTypes \ NumberTypes
  BY DEF ItemTypes, NumberTypes
<1>1. kept = HeldText(text) /\ text \in Lines /\ line = Escaped(text) /\ kept.mode = None
  BY <1>0, HeldTextIs
<1>2. text \in Without({"CR"})
  BY DEF Holds
<1>3. Unescaped(line) = text
  BY <1>1, EscapedIsReadBack
<1>4. value.kind = "text" /\ value.text = text
  BY <1>3 DEF Value
<1> HIDE DEF text, value
<1>5. Encoded(value) = line
  BY <1>1, <1>2, <1>4, WithoutCrStays DEF Encoded
<1>6. "text" \in Accepts(type)
  BY DEF Accepts
<1>7. Fit(type, value)
  BY <1>1, <1>4, <1>6 DEF Fit
<1>8. HostTakes(type, line, kept) = kept
  <2>1. HostUnescapes(Escaped(text)) = text
    BY <1>1, HostReadsEscaped
  <2>2. QED
    BY <1>1, <2>1 DEF HostTakes
<1>9. Matches(type, value, line)
  BY <1>4, <1>5 DEF Matches, MatchesLine
<1>10. ASSUME NEW some, NEW modes, ~(Len(line) > MaxTokens) PROVE CanEncode(type, value, some, modes)
  <2>1. ManyLines(text)
    <3>1. \A p \in DOMAIN text : text[p] # "CR"
      <4>1. ToSet(text) \cap {"CR"} = {}
        BY <1>1, <1>2, WithoutIs
      <4>2. QED
        BY <4>1 DEF ToSet
    <3>2. QED
      BY <3>1 DEF ManyLines
  <2>2. Len(line) <= MaxTokens
    <3>1. line \in Lines
      BY <1>0, OriginIsLine
    <3>2. Len(line) \in Nat /\ MaxTokens \in Nat
      BY <3>1, LenProperties, SpellingAssumption DEF Lines
    <3>3. QED
      BY <1>10, <3>2
  <2>3. QED
    BY <1>4, <1>5, <1>6, <2>1, <2>2 DEF CanEncode
<1>11. ~DropsMovement(type, value, line)
  BY DEF DropsMovement
<1>12. GoesBack(type, value, kept)
  BY <1>1, <1>4, <1>5, <1>7, <1>8, <1>9, <1>10, <1>11 DEF GoesBack
<1>13. QED
  BY <1>12 DEF value

LEMMA WordGoesBack ==
  ASSUME NEW type \in {"word", "color"}, NEW kept, Holds(type, kept)
  PROVE  GoesBack(type, Value(type, Static(0), HostSpells(type, kept)), kept)
<1> DEFINE line == HostSpells(type, kept)
           value == Value(type, Static(0), line)
<1>0. type \in ItemTypes \ NumberTypes /\ type # "text"
  BY DEF ItemTypes, NumberTypes
<1>1. kept = HeldText(kept.text) /\ line = kept.text /\ line \in Lines /\ kept.mode = None
  BY <1>0, HeldTextIs
<1>2. value.kind = type /\ value.text = line
  BY DEF Value
<1> HIDE DEF value
<1>3. Encoded(value) = line
  BY <1>2 DEF Encoded
<1>4. type \in Accepts(type)
  BY DEF Accepts
<1>5. type = "color" =>
        \E word \in DOMAIN Lowered : kept = HeldText(<<word>>) /\ line = <<word>> /\ IsLowered(word)
  <2>1. SUFFICES ASSUME type = "color"
                 PROVE  \E word \in DOMAIN Lowered :
                          kept = HeldText(<<word>>) /\ line = <<word>> /\ IsLowered(word)
    OBVIOUS
  <2>2. PICK word \in DOMAIN Lowered : kept = HeldText(<<word>>) /\ IsLowered(word)
    BY <2>1 DEF Holds
  <2>3. kept.text = <<word>>
    BY <2>2, HeldAre
  <2>4. QED
    BY <1>1, <2>2, <2>3
<1>6. ToSet(line) \cap Controls = {}
  <2>1. CASE type = "word"
    BY <1>1, <2>1 DEF Holds, Plain
  <2>2. CASE type = "color"
    <3>1. PICK word \in DOMAIN Lowered : line = <<word>>
      BY <1>5, <2>2
    <3>2. word \notin Controls
      BY SpellingAssumption
    <3>3. ToSet(line) = {word}
      BY <3>1, ToSetOne
    <3>4. QED
      BY <3>2, <3>3
  <2>3. QED
    BY <2>1, <2>2
<1> HIDE DEF line
<1>7. Fit(type, value)
  <2>1. type = "color" => line[1] \in DOMAIN Lowered
    <3>1. \A word : <<word>>[1] = word
      OBVIOUS
    <3>2. QED
      BY <1>5, <3>1
  <2>2. QED
    BY <1>1, <1>2, <1>4, <2>1 DEF Fit
<1>8. HostTakes(type, line, kept) = kept
  <2>1. CASE type = "word"
    <3>1. HostTakes(type, line, kept) \in {HeldText(line), kept}
      BY <2>1 DEF HostTakes
    <3>2. QED
      BY <1>1, <3>1
  <2>2. CASE type = "color"
    <3>1. PICK word \in DOMAIN Lowered : kept = HeldText(<<word>>) /\ line = <<word>> /\ IsLowered(word)
      BY <1>5, <2>2
    <3>2. Len(line) = 1 /\ line[1] = word
      BY <3>1
    <3>3. HostTakes(type, line, kept)
            = HeldText(IF word \in Offered \cap DOMAIN Lowered THEN <<Lowered[word]>> ELSE <<"black">>)
      BY <2>2, <3>2 DEF HostTakes
    <3>4. Lowered[word] = word /\ (word = "black" \/ word \in Offered)
      BY <3>1 DEF IsLowered
    <3>5. QED
      BY <3>1, <3>3, <3>4
  <2>3. QED
    BY <2>1, <2>2
<1>9. Matches(type, value, line)
  <2>1. value.kind # "track"
    BY <1>2
  <2>2. QED
    BY <1>3, <2>1 DEF Matches, MatchesLine
<1>10. ASSUME NEW some, NEW modes, ~(Len(line) > MaxTokens) PROVE CanEncode(type, value, some, modes)
  <2>1. Len(line) <= MaxTokens
    <3>1. Len(line) \in Nat /\ MaxTokens \in Nat
      BY <1>1, LenProperties, SpellingAssumption DEF Lines
    <3>2. QED
      BY <1>10, <3>1
  <2>2. OneLine(value.text)
    BY <1>2, <1>6, <2>1 DEF OneLine
  <2>3. QED
    BY <1>2, <1>3, <1>4, <2>1, <2>2 DEF CanEncode
<1>11. ~DropsMovement(type, value, line)
  BY DEF DropsMovement
<1>12. GoesBack(type, value, kept)
  BY <1>1, <1>2, <1>3, <1>7, <1>8, <1>9, <1>10, <1>11 DEF GoesBack, line
<1>13. QED
  BY <1>12 DEF value, line

\* What was read of what an item holds passes as a request again, and is taken for
\* the same, for all items (item_value, encode_value, decode_track_value).
THEOREM ReadGoesBack ==
  ASSUME NEW type \in ItemTypes, NEW kept, NEW moves, Holds(type, kept),
         ReadValue(type, HostSpells(type, kept), moves).kind # "unknown"
  PROVE  GoesBack(type, ReadValue(type, HostSpells(type, kept), moves), kept)
<1> DEFINE line == HostSpells(type, kept)
           value == ReadValue(type, line, moves)
<1>1. CASE type \in NumberTypes
  <2>1. line \in Lines
    BY <1>1, HeldReadBack
  <2>2. \/ /\ IsNumber(line)
           /\ \E kind \in {"number", "bool"} \cap Accepts(type) :
                value = Value(kind, Static(NumberOf(line)), <<>>)
        \/ /\ type = "track" /\ DecodedTrack(line).is = "value" /\ ~IsNumber(line)
           /\ value = Value("track", DecodedTrack(line).value, <<>>)
    BY <1>1, <2>1, ReadNumberIs
  <2>3. QED
    BY <1>1, <2>2, NumberGoesBack, MovementGoesBack
<1>2. CASE type = "text"
  <2>1. value = Value("text", Static(0), Unescaped(line))
    BY <1>2 DEF ReadValue
  <2>2. QED
    BY <1>2, <2>1, TextGoesBack
<1>3. CASE type \in {"word", "color"}
  <2>1. value = Value(type, Static(0), line)
    BY <1>3 DEF ReadValue
  <2>2. QED
    BY <1>3, <2>1, WordGoesBack
<1>4. CASE type = "data"
  <2>1. value = Unknown(line)
    BY <1>4 DEF ReadValue
  <2>2. QED
    BY <2>1 DEF Unknown, Value
<1>5. QED
  BY <1>1, <1>2, <1>3, <1>4, TypesAre

-----------------------------------------------------------------------------
(* The requests on an item.                                                *)

\* What is said of an item, whatever has been asked.
ItemInv ==
  /\ itemType \in ItemTypes /\ writable \subseteq HostModes
  /\ Holds(itemType, item) /\ Settled(item) = item
  /\ itemReply = "none" =>
       given = NoValue /\ HeldAtFirst(itemType, item) /\ item = itemBefore
  /\ itemReply = "read" =>
       given = ReadValue(itemType, HostSpells(itemType, item), item.mode # None)
  /\ WrittenIsMeant /\ ReadsAsItIs

\* What was restored is what was there.
LEMMA RestoredIsBack ==
  ASSUME itemType \in ItemTypes, Holds(itemType, item), Settled(item) = item,
         NEW after, Holds(itemType, after), Settled(after) = after,
         NEW outcome \in Restored(after, HostSpells(itemType, item))
  PROVE  /\ Holds(itemType, outcome[1]) /\ Settled(outcome[1]) = outcome[1]
         /\ outcome[2] \in {"restored", "notRestored"}
         /\ outcome[2] = "restored" => outcome[1] = item
<1> DEFINE origin == HostSpells(itemType, item)
<1>1. CASE HostSpells(itemType, after) = origin
  <2>1. outcome = <<after, "restored">>
    BY <1>1 DEF Restored
  <2>2. outcome[1] = after /\ outcome[2] = "restored"
    BY <2>1
  <2>3. after = item
    BY <1>1, SpelledApart
  <2>4. QED
    BY <2>2, <2>3
<1>2. CASE HostSpells(itemType, after) # origin
  <2>1. PICK last \in AfterSet(origin, after) :
          outcome = <<Settled(last), IF HostSpells(itemType, last) = origin
                                     THEN "restored" ELSE "notRestored">>
    BY <1>2 DEF Restored
  <2>2. Holds(itemType, last)
    <3>1. Holds(itemType, HostTakes(itemType, origin, after))
      BY OriginIsTaken
    <3>2. QED
      BY <2>1, <3>1 DEF AfterSet
  <2>3. outcome[1] = Settled(last)
        /\ outcome[2] = IF HostSpells(itemType, last) = origin THEN "restored" ELSE "notRestored"
    BY <2>1
  <2>4. Holds(itemType, Settled(last)) /\ Settled(Settled(last)) = Settled(last)
    BY <2>2, SettledHolds
  <2>5. HostSpells(itemType, last) = origin => last = item
    BY <2>2, SpelledApart
  <2>6. ASSUME outcome[2] = "restored" PROVE outcome[1] = item
    <3>1. HostSpells(itemType, last) = origin
      BY <2>3, <2>6
    <3>2. last = item
      BY <2>5, <3>1
    <3>3. QED
      BY <2>3, <3>2
  <2>7. QED
    BY <2>3, <2>4, <2>6
<1>3. QED
  BY <1>1, <1>2

\* A write leaves what it answers.
LEMMA SetOverIs ==
  ASSUME itemType \in ItemTypes, Holds(itemType, item), Settled(item) = item, NEW value,
         value.kind # "unknown" /\ CanEncode(itemType, value, sections, writable)
           => Fit(itemType, value),
         SetOver(value, HostSpells(itemType, item))
  PROVE  /\ Holds(itemType, item') /\ Settled(item') = item'
         /\ itemReply' \in {"refused", "done", "restored", "notRestored"}
         /\ itemReply' = "done" => MeansOver(value, item', item)
         /\ itemReply' \in {"restored", "refused"} => item' = item
         /\ itemReply' = "refused" => Refuses(value, HostSpells(itemType, item))
         /\ HostTakes(itemType, Encoded(value), item) = item
            /\ Matches(itemType, value, HostSpells(itemType, item)) => item' = item
<1> DEFINE origin == HostSpells(itemType, item)
<1>1. CASE Refuses(value, origin)
  <2>1. item' = item /\ itemReply' = "refused"
    BY <1>1 DEF SetOver
  <2>2. QED
    BY <1>1, <2>1
<1>2. CASE ~Refuses(value, origin)
  <2>1. Fit(itemType, value)
    BY <1>2 DEF Refuses
  <2>2. PICK taken \in AfterSet(Encoded(value), item) :
          IF taken = Crash
          THEN item' = Crash /\ itemReply' = "crashed"
          ELSE \E outcome \in Verified(value, Settled(taken), origin) :
                 item' = outcome[1] /\ itemReply' = outcome[2]
    BY <1>2 DEF SetOver
  <2>3. taken \in {HostTakes(itemType, Encoded(value), item), item}
    BY <2>2 DEF AfterSet
  <2>4. taken # Crash /\ Holds(itemType, taken)
    <3>1. /\ HostTakes(itemType, Encoded(value), item) # Crash
          /\ Holds(itemType, HostTakes(itemType, Encoded(value), item))
      BY <2>1, WrittenIsHeld
    <3>2. item # Crash
      BY SettledHolds
    <3>3. QED
      BY <2>3, <3>1, <3>2
  <2>5. PICK outcome \in Verified(value, Settled(taken), origin) :
          item' = outcome[1] /\ itemReply' = outcome[2]
    BY <2>2, <2>4
  <2>6. Holds(itemType, Settled(taken)) /\ Settled(Settled(taken)) = Settled(taken)
    BY <2>4, SettledHolds
  <2>7. CASE Matches(itemType, value, HostSpells(itemType, Settled(taken)))
    <3>1. outcome = <<Settled(taken), "done">>
      BY <2>5, <2>7 DEF Verified
    <3>2. item' = Settled(taken) /\ itemReply' = "done"
      BY <2>5, <3>1
    <3>3. Settled(taken) \in {Settled(HostTakes(itemType, Encoded(value), item)), Settled(item)}
      BY <2>3
    <3>4. MeansOver(value, Settled(taken), item)
      BY <2>1, <2>6, <2>7, <3>3, MatchedIsMeant
    <3>5. HostTakes(itemType, Encoded(value), item) = item => item' = item
      BY <2>3, <3>2
    <3>6. QED
      BY <2>6, <3>2, <3>4, <3>5
  <2>8. CASE ~Matches(itemType, value, HostSpells(itemType, Settled(taken)))
    <3>1. outcome \in Restored(Settled(taken), origin)
      BY <2>5, <2>8 DEF Verified
    <3>2. /\ Holds(itemType, outcome[1]) /\ Settled(outcome[1]) = outcome[1]
          /\ outcome[2] \in {"restored", "notRestored"}
          /\ outcome[2] = "restored" => outcome[1] = item
      BY <2>6, <3>1, RestoredIsBack
    <3>3. ~ (HostTakes(itemType, Encoded(value), item) = item
             /\ Matches(itemType, value, HostSpells(itemType, item)))
      BY <2>3, <2>8
    <3>4. QED
      BY <2>5, <3>2, <3>3
  <2>9. QED
    BY <2>7, <2>8
<1>3. QED
  BY <1>1, <1>2

\* A number over a movement is refused.
LEMMA MovementIsSpared ==
  ASSUME itemType \in ItemTypes, HeldAtFirst(itemType, item), Holds(itemType, item), NEW value,
         item.mode # None, value.kind = "number"
  PROVE  Refuses(value, HostSpells(itemType, item))
<1>1. itemType \in NumberTypes
  BY HeldTextIs
<1>2. itemType = "track" /\ HasReadableParams(item)
  <2>1. itemType \in {"range", "check"} => ~HeldAtFirst(itemType, item)
    BY DEF HeldAtFirst
  <2>2. itemType = "track"
    BY <1>1, <2>1 DEF NumberTypes
  <2>3. QED
    BY <2>2 DEF HeldAtFirst
<1>3. PICK values \in HeldValues, mode \in HostModes, flags \in Numbers, rest \in Seq(Filled) :
        item = Movement(values, mode, flags, rest)
  BY <1>1, HeldIs
<1>4. HoldsMovement(DecodedTrack(HostSpells(itemType, item)))
  BY <1>1, <1>2, <1>3, ValuesAre, HeldMoves
<1>5. QED
  BY <1>2, <1>4 DEF Refuses, DropsMovement

\* What a write, of whatever value, leaves of the invariant.
LEMMA SetItemKeeps ==
  ASSUME ItemInv, NEW value, SetItem(value),
         value.kind # "unknown" /\ CanEncode(itemType, value, sections, writable)
           => Fit(itemType, value),
         value.kind = "number" /\ item.mode # None => Refuses(value, HostSpells(itemType, item)),
         \/ given.kind = "unknown"
         \/ value = given /\ GoesBack(itemType, value, item)
  PROVE  ItemInv'
<1>1. /\ itemType \in ItemTypes /\ writable \subseteq HostModes
      /\ Holds(itemType, item) /\ Settled(item) = item
  BY DEF ItemInv
<1>2. /\ asked' = value /\ itemBefore' = item /\ itemType' = itemType /\ sections' = sections
      /\ writable' = writable /\ given' = given /\ SetOver(value, HostSpells(itemType, item))
  BY DEF SetItem
<1>3. /\ Holds(itemType, item') /\ Settled(item') = item'
      /\ itemReply' \in {"refused", "done", "restored", "notRestored"}
      /\ itemReply' = "done" => MeansOver(value, item', item)
      /\ itemReply' \in {"restored", "refused"} => item' = item
      /\ itemReply' = "refused" => Refuses(value, HostSpells(itemType, item))
      /\ HostTakes(itemType, Encoded(value), item) = item
         /\ Matches(itemType, value, HostSpells(itemType, item)) => item' = item
  BY <1>1, <1>2, SetOverIs
<1>4. Refuses(value, HostSpells(itemType, item)) => item' = item
  BY <1>2 DEF SetOver
<1>5. WrittenIsMeant'
  <2>1. itemReply' # "crashed"
    BY <1>3
  <2>2. ASSUME itemReply' = "done" PROVE Means(asked, item)'
    <3>1. MeansOver(asked', item', itemBefore')
      BY <1>2, <1>3, <2>2
    <3>2. Means(asked, item)' <=> MeansOver(asked', item', itemBefore')
      BY DEF Means, MeansOver, ParamsText
    <3>3. QED
      BY <3>1, <3>2
  <2>3. itemReply' \in {"restored", "refused"} => item' = itemBefore'
    BY <1>2, <1>3
  <2>4. itemBefore'.mode # None /\ asked'.kind = "number" => item' = itemBefore'
    BY <1>2, <1>4
  <2>5. QED
    BY <2>1, <2>2, <2>3, <2>4 DEF WrittenIsMeant
<1>6. ReadsAsItIs'
  <2>1. itemReply' # "created"
    BY <1>3
  <2>2. ASSUME given.kind # "unknown", ToSet(given.track.mode) \cap LostModes = {}
        PROVE  /\ item' = itemBefore'
               /\ itemReply' = "refused" =>
                    \/ Len(HostSpells(itemType', item')) > MaxTokens
                    \/ given'.kind = "track" /\ ~TrackFits(given'.track, sections', writable')
    <3>1. value = given /\ GoesBack(itemType, value, item)
      BY <2>2
    <3>2. item' = item
      BY <1>3, <2>2, <3>1 DEF GoesBack
    <3>3. ASSUME itemReply' = "refused"
          PROVE  \/ Len(HostSpells(itemType', item')) > MaxTokens
                 \/ given'.kind = "track" /\ ~TrackFits(given'.track, sections', writable')
      <4>1. Refuses(value, HostSpells(itemType, item))
        BY <1>3, <3>3
      <4>2. ~DropsMovement(itemType, value, HostSpells(itemType, item))
        BY <3>1 DEF GoesBack
      <4>3. ~CanEncode(itemType, value, sections, writable)
        BY <2>2, <3>1, <4>1, <4>2 DEF Refuses
      <4>4. \/ Len(HostSpells(itemType, item)) > MaxTokens
            \/ value.kind = "track" /\ ~TrackFits(value.track, sections, writable)
        BY <3>1, <4>3 DEF GoesBack
      <4>5. QED
        BY <1>2, <3>1, <3>2, <4>4
    <3>4. QED
      BY <1>2, <3>2, <3>3
  <2>3. QED
    BY <1>2, <2>1, <2>2 DEF ReadsAsItIs
<1>7. QED
  BY <1>1, <1>2, <1>3, <1>5, <1>6 DEF ItemInv

LEMMA WriteItemStep == ItemInv /\ WriteItem => ItemInv'
<1> SUFFICES ASSUME ItemInv, WriteItem PROVE ItemInv'
  OBVIOUS
<1>1. PICK value \in Requests[itemType] : SetItem(value)
  BY DEF WriteItem
<1>2. /\ itemType \in ItemTypes /\ writable \subseteq HostModes /\ Holds(itemType, item)
      /\ given = NoValue /\ HeldAtFirst(itemType, item)
  BY DEF ItemInv, WriteItem
<1>3. IsRequest(value)
  BY <1>1, <1>2, ItemAssumption
<1>4. CanEncode(itemType, value, sections, writable) => Fit(itemType, value)
  BY <1>2, <1>3, RequestIsFit
<1>5. value.kind = "number" /\ item.mode # None => Refuses(value, HostSpells(itemType, item))
  BY <1>2, MovementIsSpared
<1>6. given.kind = "unknown"
  BY <1>2 DEF NoValue, Unknown, Value
<1>7. QED
  BY <1>1, <1>4, <1>5, <1>6, SetItemKeeps

LEMMA WriteBackStep == ItemInv /\ WriteBack => ItemInv'
<1> SUFFICES ASSUME ItemInv, WriteBack PROVE ItemInv'
  OBVIOUS
<1>1. SetItem(given)
  BY DEF WriteBack
<1>2. /\ itemType \in ItemTypes /\ Holds(itemType, item)
      /\ given = ReadValue(itemType, HostSpells(itemType, item), item.mode # None)
  BY DEF ItemInv, WriteBack
<1>3. given.kind # "unknown" => GoesBack(itemType, given, item)
  BY <1>2, ReadGoesBack
<1>4. given.kind # "unknown" => Fit(itemType, given) /\ (given.kind = "number" => item.mode = None)
  BY <1>3 DEF GoesBack
<1>5. QED
  BY <1>1, <1>3, <1>4, SetItemKeeps

LEMMA ReadItemStep == ItemInv /\ ReadItem => ItemInv'
<1> SUFFICES ASSUME ItemInv, ReadItem PROVE ItemInv'
  OBVIOUS
<1>1. /\ given' = ReadValue(itemType, HostSpells(itemType, item), item.mode # None)
      /\ asked' = NoValue /\ itemBefore' = item /\ itemReply' = "read"
      /\ itemType' = itemType /\ sections' = sections /\ item' = item /\ writable' = writable
  BY DEF ReadItem
<1>2. NoValue.kind = "unknown"
  BY DEF NoValue, Unknown, Value
<1>3. WrittenIsMeant'
  BY <1>1, <1>2 DEF WrittenIsMeant
<1>4. ReadsAsItIs'
  BY <1>1, <1>2 DEF ReadsAsItIs
<1>5. QED
  BY <1>1, <1>3, <1>4 DEF ItemInv

-----------------------------------------------------------------------------
(* An object made from an alias.                                           *)

LEMMA DecodedParamsAre ==
  ASSUME NEW w, NEW rest
  PROVE  \/ DecodedParams(w, rest) = NotAMovement
         \/ \E params : DecodedParams(w, rest) = Readable([w EXCEPT !.params = params])
         \/ DecodedParams(w, rest) = Readable(w)
BY DEF DecodedParams

\* A movement with parameters that are numbers can be read.
LEMMA DecodedHeld ==
  ASSUME NEW values \in Seq(Numbers), ~(Len(values) < 2), NEW mode \in HostModes,
         NEW flags \in Numbers, NEW rest \in Seq(Filled), NEW type \in NumberTypes,
         HasReadableParams(Movement(values, mode, flags, rest)),
         ~Unreadable(flags, Ending(rest))
  PROVE  LET track == DecodedTrack(HostSpells(type, Movement(values, mode, flags, rest)))
         IN track.is = "value" /\ track.value.mode = Some(mode)
<1> DEFINE kept == Movement(values, mode, flags, rest)
           base == Base(values, mode, flags, ExpressionOf(kept))
           params == ParamsOf(kept)
           track == DecodedTrack(HostSpells(type, kept))
<1>1. values # <<>>
  <2>1. values = <<>> => Len(values) = 0
    BY EmptySeq
  <2>2. QED
    BY <2>1
<1>2. track = IF Unreadable(flags, Ending(rest)) \/ Len(values) < 2 THEN NotRepresentable
              ELSE IF params = <<>> THEN Readable(base) ELSE DecodedParams(base, params)
  BY <1>1, HeldDecoded
<1>3. HoldsMovement(track)
  BY <1>1, HeldMoves
<1> HIDE DEF track, base, params
<1>4. \/ track = NotAMovement
      \/ \E w : track = Readable(w)
  BY <1>2, DecodedParamsAre
<1>5. track.is = "value"
  <2>1. NotAMovement.is = "notAMovement" /\ \A w : Readable(w).is = "value"
    BY DEF NotAMovement, Readable
  <2>2. track.is # "notAMovement"
    BY <1>3 DEF HoldsMovement, ReadsAsMovement
  <2>3. QED
    BY <1>4, <2>1, <2>2
<1>6. QED
  BY <1>1, <1>5, HeldRead DEF track, kept

\* What follows the expression of a row that is let through: numbers, or nothing.
LEMMA RowParams ==
  ASSUME NEW w, NEW rest \in Seq(Sections), DecodedParams(w, rest).is = "value"
  PROVE  /\ Len(rest) <= 1
         /\ \A k \in 1 .. Len(rest) : rest[k] = <<>> \/ NumberList(rest[k])
<1>1. Len(rest) \in Nat
  BY LenProperties
<1>2. CASE rest = <<>>
  <2>1. Len(rest) = 0
    BY <1>2, EmptySeq
  <2>2. QED
    BY <2>1
<1>3. CASE rest = << <<>> >>
  <2>1. Len(rest) = 1 /\ rest[1] = <<>>
    BY <1>3
  <2>2. QED
    BY <2>1
<1>4. CASE rest \notin {<<>>, << <<>> >>}
  <2>1. ~(Len(rest) > 1 \/ \E f \in ToSet(Parts(rest[1], ",")) : ~IsNumber(f))
    <3>1. SUFFICES ASSUME Len(rest) > 1 \/ \E f \in ToSet(Parts(rest[1], ",")) : ~IsNumber(f)
                   PROVE  FALSE
      OBVIOUS
    <3>2. DecodedParams(w, rest) = NotAMovement
      BY <1>4, <3>1 DEF DecodedParams
    <3>3. NotAMovement.is # "value"
      BY DEF NotAMovement
    <3>4. QED
      BY <3>2, <3>3
  <2>2. NumberList(rest[1])
    BY <2>1 DEF NumberList
  <2>3. Len(rest) <= 1 /\ \A k \in 1 .. Len(rest) : k = 1
    <3>1. ~(Len(rest) > 1)
      BY <2>1
    <3>2. QED
      BY <1>1, <3>1
  <2>4. QED
    BY <2>2, <2>3
<1>5. QED
  BY <1>2, <1>3, <1>4

LEMMA NumberListIsFilled ==
  ASSUME NEW text \in Sections, NumberList(text)
  PROVE  text \in Filled
<1>1. text # <<>>
  <2>1. SUFFICES ASSUME text = <<>> PROVE FALSE
    OBVIOUS
  <2>2. Parts(text, ",") = << <<>> >>
    <3>1. PICK any \in Seq(Tokens) : any = <<>>
      BY EmptySeq
    <3>2. QED
      BY <2>1, <3>1, PartsType
  <2>3. ToSet(<< <<>> >>) = {<<>>}
    BY ToSetOne
  <2>4. IsNumber(<<>>)
    BY <2>2, <2>3 DEF NumberList
  <2>5. QED
    BY <2>4 DEF IsNumber
<1>2. QED
  BY <1>1 DEF Filled

\* Nothing, or one list of numbers.
FewParams(params) == params = <<>> \/ \E p \in Filled : NumberList(p) /\ params = <<p>>

LEMMA FewAreReadable ==
  ASSUME NEW kept, FewParams(ParamsOf(kept))
  PROVE  HasReadableParams(kept)
<1>1. CASE ParamsOf(kept) = <<>>
  <2>1. ToSet(<<>>) = {} /\ Len(<<>>) <= 1
    BY DEF ToSet
  <2>2. QED
    BY <1>1, <2>1 DEF HasReadableParams
<1>2. ASSUME NEW p \in Filled, NumberList(p), ParamsOf(kept) = <<p>> PROVE HasReadableParams(kept)
  <2>1. ToSet(<<p>>) = {p} /\ Len(<<p>>) <= 1
    BY ToSetOne
  <2>2. QED
    BY <1>2, <2>1 DEF HasReadableParams
<1>3. QED
  BY <1>1, <1>2 DEF FewParams

\* Nothing, or one section.
LEMMA ShortIs ==
  ASSUME NEW S, NEW rest \in Seq(S), Len(rest) <= 1
  PROVE  rest = <<>> \/ \E x \in S : rest = <<x>> /\ Len(rest) = 1 /\ rest[1] = x
<1>1. Len(rest) \in Nat /\ ~(Len(rest) > 1)
  BY LenProperties
<1>2. rest # <<>> => Len(rest) = 1 /\ rest[1] \in S /\ rest = <<rest[1]>>
  BY <1>1, JustOne
<1>3. QED
  BY <1>2

LEMMA RowRest ==
  ASSUME NEW flags, NEW after \in Seq(Sections), ~Unreadable(flags, after), NEW w,
         DecodedParams(w, IF HasBit(flags, 8) THEN Tail(after) ELSE after).is = "value",
         NEW values, NEW mode
  PROVE  /\ HasReadableParams(Movement(values, mode, flags, NotEmpty(after)))
         /\ ~Unreadable(flags, Ending(NotEmpty(after)))
<1> DEFINE rest == NotEmpty(after)
           kept == Movement(values, mode, flags, rest)
           more == IF HasBit(flags, 8) THEN Tail(after) ELSE after
<1>1. rest \in Seq(Filled)
  BY NotEmptyIs
<1>2. IF HasBit(flags, 8) /\ rest # <<>> THEN ParamsOf(kept) = Tail(rest) ELSE ParamsOf(kept) = rest
  <2> HIDE DEF rest
  <2> QED BY <1>1, HeldParts
<1>3. ASSUME NEW some \in Seq(Sections), Len(some) <= 1,
             \A k \in 1 .. Len(some) : some[k] = <<>> \/ NumberList(some[k])
      PROVE  \/ some = <<>> \/ some = << <<>> >>
             \/ \E x \in Filled : NumberList(x) /\ some = <<x>>
  <2>1. SUFFICES ASSUME some # <<>>, some # << <<>> >>
                 PROVE  \E x \in Filled : NumberList(x) /\ some = <<x>>
    OBVIOUS
  <2>2. PICK x \in Sections : some = <<x>> /\ Len(some) = 1 /\ some[1] = x
    BY <1>3, <2>1, ShortIs
  <2>3. x # <<>>
    BY <2>1, <2>2
  <2>4. NumberList(x)
    <3>1. 1 \in 1 .. Len(some)
      BY <2>2
    <3>2. QED
      BY <1>3, <2>2, <2>3, <3>1
  <2>5. QED
    BY <2>2, <2>4, NumberListIsFilled
<1>4. PICK none : none = <<>>
  OBVIOUS
<1>5. none \in Sections /\ none \in Seq(Sections) /\ NotEmpty(none) = none
  <2>1. <<>> \in Sections
    BY EmptySeq DEF Sections
  <2>2. QED
    BY <1>4, <2>1, EmptySeq, NotEmptyIs
<1>6. CASE ~HasBit(flags, 8)
  <2>1. more = after
    BY <1>6
  <2>2. after = <<>> \/ after = << <<>> >> \/ \E x \in Filled : NumberList(x) /\ after = <<x>>
    BY <1>3, <1>6, RowParams
  <2>3. FewParams(rest)
    <3>1. CASE after = none
      BY <1>4, <1>5, <3>1 DEF FewParams
    <3>2. CASE after = <<none>>
      <4>1. Append(none, none) = <<none>>
        BY <1>4
      <4>2. NotEmpty(Append(none, none)) = NotEmpty(none)
        BY <1>4, <1>5, NotEmptyIs
      <4>3. QED
        BY <1>4, <1>5, <3>2, <4>1, <4>2 DEF FewParams
    <3>3. ASSUME NEW x \in Filled, NumberList(x), after = <<x>> PROVE FewParams(rest)
      <4>1. after \in Seq(Filled)
        BY <3>3, SingleIsSeq
      <4>2. QED
        BY <3>3, <4>1, NotEmptyStays DEF FewParams
    <3>4. QED
      BY <1>4, <2>2, <3>1, <3>2, <3>3
  <2> HIDE DEF rest, kept
  <2>4. FewParams(ParamsOf(kept))
    BY <1>2, <1>6, <2>3
  <2>5. QED
    BY <1>6, <2>4, FewAreReadable DEF Unreadable, kept, rest
<1>7. CASE HasBit(flags, 8)
  <2>1. after # <<>> /\ after[1] # <<>> /\ ToSet(after[1]) \cap Controls = {}
    BY <1>7 DEF Unreadable
  <2> DEFINE a == after[1]
             one == <<a>>
             others == Tail(after)
  <2>2. a \in Filled /\ others \in Seq(Sections) /\ Head(after) = a
    BY <2>1, HeadTailProperties DEF Filled
  <2>3. others = <<>> \/ others = << <<>> >> \/ \E x \in Filled : NumberList(x) /\ others = <<x>>
    <3>1. /\ Len(others) <= 1
          /\ \A k \in 1 .. Len(others) : others[k] = <<>> \/ NumberList(others[k])
      BY <1>7, <2>2, RowParams
    <3> HIDE DEF others
    <3>2. QED
      BY <1>3, <2>2, <3>1
  <2>4. one \in Seq(Filled) /\ one \in Seq(Sections) /\ one # <<>>
    BY <2>2, SingleIsSeq DEF Filled
  <2>5. after = one \o others
    BY <2>1, <2>2, HeadTailProperties
  <2>6. NotEmpty(one) = one
    BY <2>4, NotEmptyStays
  <2>7. \E params : FewParams(params) /\ params \in Seq(Filled) /\ rest = one \o params
    <3> HIDE DEF others, one
    <3>1. CASE others = none
      <4>1. after = one
        BY <1>4, <2>4, <2>5, <3>1, ConcatEmptySeq
      <4>2. rest = one \o none
        BY <1>4, <2>4, <2>6, <4>1, ConcatEmptySeq
      <4>3. QED
        BY <1>4, <4>2, EmptySeq DEF FewParams
    <3>2. CASE others = <<none>>
      <4>1. after = Append(one, none)
        BY <1>5, <2>4, <2>5, <3>2, PairAppend
      <4>2. NotEmpty(after) = one
        BY <1>4, <1>5, <2>4, <2>6, <4>1, NotEmptyIs
      <4>3. rest = one \o none
        BY <1>4, <2>4, <4>2, ConcatEmptySeq
      <4>4. QED
        BY <1>4, <4>3, EmptySeq DEF FewParams
    <3>3. ASSUME NEW x \in Filled, NumberList(x), others = <<x>>
          PROVE  \E params : FewParams(params) /\ params \in Seq(Filled) /\ rest = one \o params
      <4>1. others \in Seq(Filled)
        BY <3>3, SingleIsSeq
      <4>2. after \in Seq(Filled)
        BY <2>4, <2>5, <4>1, ConcatProperties
      <4>3. rest = one \o others
        BY <2>5, <4>2, NotEmptyStays
      <4>4. QED
        BY <3>3, <4>1, <4>3 DEF FewParams
    <3>4. QED
      BY <1>4, <2>3, <3>1, <3>2, <3>3
  <2>8. PICK params : FewParams(params) /\ params \in Seq(Filled) /\ rest = one \o params
    BY <2>7
  <2>9. rest # <<>> /\ rest[1] = a /\ Tail(rest) = params
    BY <2>2, <2>8, HeadOn
  <2> HIDE DEF rest, kept, a
  <2>10. FewParams(ParamsOf(kept))
    BY <1>2, <1>7, <2>8, <2>9
  <2>11. ~Unreadable(flags, Ending(rest))
    BY <2>1, <2>9 DEF Unreadable, Ending, a
  <2>12. QED
    BY <2>10, <2>11, FewAreReadable DEF kept, rest
<1>8. QED
  BY <1>6, <1>7

\* What can be read can be read when it has settled.
LEMMA SettledReads ==
  ASSUME NEW values \in Seq(Numbers), ~(Len(values) < 2), NEW mode \in HostModes,
         NEW flags \in Numbers, NEW rest \in Seq(Filled), NEW type \in NumberTypes,
         HasReadableParams(Movement(values, mode, flags, rest)),
         ~Unreadable(flags, Ending(rest))
  PROVE  LET track == DecodedTrack(HostSpells(type, Settled(Movement(values, mode, flags, rest))))
         IN track.is = "value" /\ track.value.mode = Some(mode)
<1> DEFINE kept == Movement(values, mode, flags, rest)
<1>1. PICK more \in Seq(Filled) :
        /\ Settled(kept) = Movement(values, mode, flags, more)
        /\ ExpressionOf(Settled(kept)) = ExpressionOf(kept)
        /\ HasReadableParams(kept) => HasReadableParams(Settled(kept))
  BY SettledMovement
<1> DEFINE new == Movement(values, mode, flags, more)
<1>2. ExpressionOf(new) = ExpressionOf(kept) /\ HasReadableParams(new)
  BY <1>1
<1>3. ~Unreadable(flags, Ending(more))
  <2>1. CASE ~HasBit(flags, 8)
    BY <2>1 DEF Unreadable
  <2>2. CASE HasBit(flags, 8)
    <3>1. rest # <<>> /\ ToSet(rest[1]) \cap Controls = {}
      <4>1. SUFFICES ASSUME rest = <<>> PROVE FALSE
        BY <2>2 DEF Unreadable, Ending
      <4>2. Ending(rest) = << <<>> >>
        BY <4>1 DEF Ending
      <4>3. << <<>> >>[1] = <<>>
        OBVIOUS
      <4>4. QED
        BY <2>2, <4>2, <4>3 DEF Unreadable
    <3>2. ExpressionOf(kept) = <<rest[1]>>
      BY <2>2, <3>1, HeldParts
    <3>3. IF more # <<>> THEN ExpressionOf(new) = <<more[1]>> ELSE ExpressionOf(new) = <<>>
      BY <2>2, HeldParts
    <3>4. more # <<>> /\ <<more[1]>> = <<rest[1]>>
      <4> HIDE DEF new, kept
      <4> QED BY <1>2, <3>2, <3>3
    <3>5. more[1] = rest[1] /\ more[1] \in Filled
      BY <3>4, HeadTailProperties
    <3>6. QED
      BY <3>1, <3>4, <3>5 DEF Unreadable, Ending, Filled
  <2>3. QED
    BY <2>1, <2>2
<1>4. DecodedTrack(HostSpells(type, new)).is = "value"
      /\ DecodedTrack(HostSpells(type, new)).value.mode = Some(mode)
  <2>1. HasReadableParams(Movement(values, mode, flags, more))
    BY <1>2
  <2>2. QED
    BY <1>3, <2>1, DecodedHeld
<1>5. QED
  BY <1>1, <1>4

\* A row that was let through is a number, or a movement the host knows.
LEMMA RowIs ==
  ASSUME NEW line \in Lines, NEW some, NEW modes \in SUBSET HostModes,
         DecodedTrack(line).is # "notAMovement", DecodedTrack(line).is # "notRepresentable",
         TrackFits(DecodedTrack(line).value, some, modes)
  PROVE  \/ \E n \in Numbers : DecodedTrack(line).value = Static(n) /\ HostReads(line) = Number(n)
         \/ \E values \in Seq(Numbers), mode \in HostModes, flags \in Numbers, rest \in Seq(Filled) :
              LET kept == Movement(values, mode, flags, rest)
              IN /\ ~(Len(values) < 2) /\ values # <<>>
                 /\ DecodedTrack(line).value.mode = Some(mode) /\ HostReads(line) = kept
                 /\ \A others : HasReadableParams(Movement(others, mode, flags, rest))
                 /\ ~Unreadable(flags, Ending(rest))
<1> DEFINE fields == FieldsIn(line)
           after == AfterIn(line)
           n == Len(fields)
           row == DecodedTrack(line)
<1>1. /\ fields \in Seq(Sections) /\ fields # <<>> /\ after \in Seq(Sections)
      /\ HostReads(line) = HostReadsFields(fields, after) /\ row = DecodedFields(fields, after)
  BY FieldsInLine
<1> HIDE DEF fields, after, row
<1>2. n \in Nat /\ \A k \in 1 .. n : fields[k] \in Sections
  BY <1>1, LenProperties, ElementOfSeq
<1>3. /\ row.is # "notAMovement" /\ row.is # "notRepresentable" /\ TrackFits(row.value, some, modes)
      /\ NotAMovement.is = "notAMovement" /\ NotRepresentable.is = "notRepresentable"
  BY DEF row, NotAMovement, NotRepresentable
<1>4. CASE n = 1 /\ after = <<>> /\ IsNumber(fields[1])
  <2>1. row = Readable(Static(NumberOf(fields[1])))
    BY <1>1, <1>4 DEF DecodedFields
  <2>2. HostReads(line) = Number(NumberOf(fields[1]))
    BY <1>1, <1>4 DEF HostReadsFields
  <2>3. NumberOf(fields[1]) \in Numbers
    <3>1. fields[1] \in Seq(Tokens \ {"|"})
      BY <1>2, <1>4 DEF Sections
    <3>2. QED
      BY <1>4, <3>1, NumberIs
  <2>4. row.value = Static(NumberOf(fields[1]))
    BY <2>1 DEF Readable
  <2>5. QED
    BY <2>2, <2>3, <2>4 DEF row
<1>5. CASE ~(n = 1 /\ after = <<>> /\ IsNumber(fields[1]))
  <2> DEFINE middle == SubSeq(fields, 1, n - 2)
             mode == fields[n - 1]
             flags == NumberOf(fields[n])
             values == NumbersOf(middle)
  <2>1. ~(n < 3) /\ IsNumber(fields[n]) /\ row = DecodedMovement(middle, mode, flags, after)
    <3> DEFINE bad == n < 3 \/ ~IsNumber(fields[n]) \/ fields[n - 1] = <<>> \/ IsNumber(fields[n - 1])
                      \/ ToSet(fields[n - 1]) \cap Controls # {}
    <3>1. row = IF bad THEN NotAMovement ELSE DecodedMovement(middle, mode, flags, after)
      <4> HIDE DEF middle, mode, flags
      <4> QED BY <1>1, <1>5 DEF DecodedFields, middle, mode, flags
    <3>2. ~bad
      <4> HIDE DEF bad
      <4> QED BY <1>3, <3>1
    <3>3. QED
      BY <3>1, <3>2
  <2>2. n - 2 \in Nat /\ n - 2 <= n /\ n \in 1 .. n /\ n > 2
    BY <1>2, <2>1
  <2>3. middle \in Seq(Sections) /\ Len(middle) = n - 2 /\ \A k \in 1 .. n - 2 : middle[k] = fields[k]
    BY <1>1, <2>2, Beginning
  <2>4. flags \in Numbers
    <3>1. fields[n] \in Seq(Tokens \ {"|"})
      BY <1>2, <2>2 DEF Sections
    <3>2. QED
      BY <2>1, <3>1, NumberIs
  <2> HIDE DEF middle, flags, mode
  <2>5. /\ ~Unreadable(flags, after) /\ \A f \in ToSet(middle) : IsNumber(f)
    <3>1. Unreadable(flags, after) => row = NotRepresentable
      BY <2>1 DEF DecodedMovement, Unreadable
    <3>2. ~Unreadable(flags, after) /\ (\E f \in ToSet(middle) : ~IsNumber(f)) => row = NotAMovement
      BY <2>1 DEF DecodedMovement, Unreadable
    <3>3. QED
      BY <1>3, <3>1, <3>2
  <2>6. \A k \in 1 .. Len(middle) : IsNumber(middle[k])
    <3>1. DOMAIN middle = 1 .. Len(middle)
      BY <2>3, LenProperties
    <3>2. QED
      BY <2>5, <3>1 DEF ToSet
  <2>7. values \in Seq(Numbers) /\ Len(values) = Len(middle) /\ Spelled(values) = middle
    BY <2>3, <2>6, NumbersOfIs DEF Sections
  <2> HIDE DEF values
  <2> DEFINE base == Base(values, mode, flags, IF HasBit(flags, 8) THEN Some(after[1]) ELSE None)
             more == IF HasBit(flags, 8) THEN Tail(after) ELSE after
  <2>8. row = IF Unreadable(flags, after) \/ Len(values) < 2 THEN NotRepresentable
              ELSE DecodedParams(base, more)
    BY <2>1, <2>7, DecodedIs
  <2>9. ~(Len(values) < 2) /\ row = DecodedParams(base, more)
    <3> HIDE DEF base, more
    <3> QED BY <1>3, <2>5, <2>8
  <2>10. row.is = "value" /\ row.value.mode = Some(mode)
    <3>0. base.mode = Some(mode) /\ \A params : [base EXCEPT !.params = params].mode = Some(mode)
      BY DEF Base
    <3> HIDE DEF base, more
    <3>1. row # NotAMovement
      BY <1>3
    <3>2. row = Readable(base) \/ \E params : row = Readable([base EXCEPT !.params = params])
      BY <2>9, <3>1, DecodedParamsAre
    <3>3. PICK w : w.mode = Some(mode) /\ row = Readable(w)
      <4>1. CASE row = Readable(base)
        BY <3>0, <4>1
      <4>2. ASSUME NEW params, row = Readable([base EXCEPT !.params = params])
            PROVE  \E w : w.mode = Some(mode) /\ row = Readable(w)
        BY <3>0, <4>2
      <4>3. QED
        BY <3>2, <4>1, <4>2
    <3>4. Readable(w).is = "value" /\ Readable(w).value = w
      BY DEF Readable
    <3>5. QED
      BY <3>3, <3>4
  <2>11. mode \in HostModes
    <3>1. row.value.mode # None /\ row.value.mode[1] = mode
      BY <2>10 DEF Some, None
    <3>2. QED
      BY <1>3, <3>1 DEF TrackFits
  <2>12. HostReads(line) = Movement(values, mode, flags, NotEmpty(after))
    <3>1. n > 2 /\ fields[n - 1] \in HostModes /\ IsNumber(fields[n])
          /\ \A k \in 1 .. n - 2 : IsNumber(fields[k])
      BY <2>1, <2>2, <2>3, <2>6, <2>11 DEF mode
    <3>2. ~(n = 1)
      <4> HIDE DEF n
      <4> QED BY <1>2, <2>2
    <3>3. QED
      BY <1>1, <3>1, <3>2 DEF HostReadsFields, values, mode, flags, middle
  <2>13. \A others : HasReadableParams(Movement(others, mode, flags, NotEmpty(after)))
         /\ ~Unreadable(flags, Ending(NotEmpty(after)))
    <3>1. DecodedParams(base, more).is = "value"
      BY <2>9, <2>10
    <3>2. QED
      BY <1>1, <2>5, <3>1, RowRest
  <2>14. NotEmpty(after) \in Seq(Filled)
    BY <1>1, NotEmptyIs
  <2>15. values # <<>>
    <3>1. values = <<>> => Len(values) = 0
      BY EmptySeq
    <3>2. QED
      BY <2>9, <3>1
  <2>16. QED
    BY <2>4, <2>7, <2>9, <2>10, <2>11, <2>12, <2>13, <2>14, <2>15 DEF row
<1>6. QED
  BY <1>4, <1>5

\* The movement that was made of a row says what the row says.
LEMMA MadeSaysTheSame ==
  ASSUME NEW line \in Lines, NEW some, NEW modes \in SUBSET HostModes,
         DecodedTrack(line).is # "notAMovement", DecodedTrack(line).is # "notRepresentable",
         TrackFits(DecodedTrack(line).value, some, modes)
  PROVE  LET made == HostKeeps(HostReads(line))
         IN made # Crash /\ SaysTheSame(DecodedTrack(line),
                                        DecodedTrack(HostSpells("track", Settled(made))))
<1> DEFINE made == HostKeeps(HostReads(line))
           row == DecodedTrack(line)
           now == DecodedTrack(HostSpells("track", Settled(made)))
<1>0. "track" \in NumberTypes
  BY DEF NumberTypes
<1>1. ASSUME NEW n \in 0 .. TopValue, made = Number(n)
      PROVE  now.is = "value" /\ now.value.mode = None /\ made # Crash
  <2>1. Settled(made) = Number(n) /\ made # Crash
    BY <1>1, HeldAre, SettledOne
  <2>2. HostSpells("track", Number(n)) = <<Numeral[n]>> /\ n \in Numbers
    BY <1>0, NumberSpelled, TopIsNumber
  <2>3. now = Readable(Static(n))
    BY <2>1, <2>2, NumberLine
  <2>4. Static(n).mode = None
    BY DEF Static
  <2> HIDE DEF now
  <2>5. now.is = "value" /\ now.value = Static(n)
    BY <2>3 DEF Readable
  <2>6. QED
    BY <2>1, <2>4, <2>5
<1>2. CASE \E n \in Numbers : row.value = Static(n) /\ HostReads(line) = Number(n)
  <2>1. PICK n \in Numbers : row.value = Static(n) /\ HostReads(line) = Number(n)
    BY <1>2
  <2>2. made = Number(Cap(n)) /\ Cap(n) \in 0 .. TopValue
    BY <2>1, KeepsIs
  <2>3. row.value.mode = None
    BY <2>1 DEF Static
  <2>4. now.is = "value" /\ now.value.mode = None /\ made # Crash
    BY <1>1, <2>2
  <2> HIDE DEF now, row, made
  <2>5. SaysTheSame(row, now)
    BY <2>3, <2>4 DEF SaysTheSame
  <2>6. QED
    BY <2>4, <2>5 DEF now, row, made
<1>3. ASSUME NEW values \in Seq(Numbers), NEW mode \in HostModes, NEW flags \in Numbers,
             NEW rest \in Seq(Filled), ~(Len(values) < 2), values # <<>>,
             row.value.mode = Some(mode), HostReads(line) = Movement(values, mode, flags, rest),
             \A others : HasReadableParams(Movement(others, mode, flags, rest)),
             ~Unreadable(flags, Ending(rest))
      PROVE  made # Crash /\ SaysTheSame(row, now)
  <2>1. made = IF mode \in LostModes THEN Number(Capped(values)[1])
               ELSE Movement(Capped(values), mode, flags, rest)
    BY <1>3, KeepsIs
  <2>2. Capped(values) \in HeldValues /\ Len(Capped(values)) = Len(values)
    BY <1>3, CappedIs
  <2>3. Capped(values) \in Seq(Numbers) /\ Capped(values)[1] \in 0 .. TopValue
    BY <2>2, ValuesAre
  <2>4. made # Crash /\ now.is = "value"
        /\ (mode \in LostModes \/ now.value.mode = Some(mode))
    <3>1. CASE mode \in LostModes
      BY <1>1, <2>1, <2>3, <3>1
    <3>2. CASE mode \notin LostModes
      <4>1. made = Movement(Capped(values), mode, flags, rest)
        BY <2>1, <3>2
      <4>2. HasReadableParams(Movement(Capped(values), mode, flags, rest))
        BY <1>3
      <4>3. ~(Len(Capped(values)) < 2)
        BY <1>3, <2>2
      <4>4. now.is = "value" /\ now.value.mode = Some(mode)
        BY <1>0, <1>3, <2>3, <4>1, <4>2, <4>3, SettledReads
      <4>5. made # Crash
        BY <4>1, HeldAre
      <4>6. QED
        BY <4>4, <4>5
    <3>3. QED
      BY <3>1, <3>2
  <2>5. row.value.mode[1] = mode
    BY <1>3 DEF Some
  <2> HIDE DEF now, row, made
  <2>6. QED
    BY <1>3, <2>4, <2>5 DEF SaysTheSame
<1>4. QED
  BY <1>2, <1>3, RowIs

LEMMA MadeHolds ==
  ASSUME NEW type \in ItemTypes, NEW line \in AliasRows
  PROVE  LET taken == HostTakes(type, line, HeldText(<<>>))
             made == IF taken = Crash THEN Number(0) ELSE Settled(taken)
         IN /\ Holds(type, made) /\ Settled(made) = made
            /\ line \in Lines /\ (type = "text" => taken = HeldText(HostUnescapes(line)))
<1> DEFINE taken == HostTakes(type, line, HeldText(<<>>))
           made == IF taken = Crash THEN Number(0) ELSE Settled(taken)
<1>1. line \in Lines /\ ToSet(line) \cap Controls = {}
  BY ItemAssumption DEF Plain
<1>2. line \in Without({"CR"})
  <2>1. ToSet(line) \cap {"CR"} = {}
    BY <1>1 DEF Controls
  <2>2. QED
    BY <1>1, <2>1, WithoutIs
<1>3. type \in {"word", "data"} => Holds(type, HeldText(<<>>))
  <2>1. Plain(<<>>)
    <3>1. ToSet(<<>>) = {}
      BY DEF ToSet
    <3>2. QED
      BY <3>1, NothingIsLine DEF Plain
  <2>2. QED
    BY <2>1, PlainHolds
<1>4. taken # Crash => Holds(type, taken)
  BY <1>1, <1>2, <1>3, TakesHolds
<1>5. type = "text" => taken = HeldText(HostUnescapes(line))
  BY DEF HostTakes
<1>6. CASE taken = Crash
  <2>1. type \in NumberTypes
    <3>1. CASE type = "text"
      BY <1>6, <3>1, HeldAre DEF HostTakes
    <3>2. CASE type = "color"
      BY <1>6, <3>2, HeldAre DEF HostTakes
    <3>3. CASE type \in {"word", "data"}
      <4>1. taken = HeldText(line) \/ taken = HeldText(<<>>)
        BY <3>3 DEF HostTakes
      <4>2. QED
        BY <1>6, <4>1, HeldAre
    <3>4. QED
      BY <3>1, <3>2, <3>3, TypesAre
  <2>2. 0 \in 0 .. TopValue
    BY TopIsNumber
  <2>3. Holds(type, Number(0))
    BY <2>1, <2>2, NumberHolds
  <2>4. Settled(Number(0)) = Number(0)
    BY HeldAre, SettledOne
  <2>5. made = Number(0)
    BY <1>6
  <2> HIDE DEF taken, made
  <2>6. QED
    BY <1>1, <1>5, <2>3, <2>4, <2>5 DEF taken, made
<1>7. CASE taken # Crash
  <2>1. Holds(type, Settled(taken)) /\ Settled(Settled(taken)) = Settled(taken)
    BY <1>4, <1>7, SettledHolds
  <2>2. made = Settled(taken)
    BY <1>7
  <2> HIDE DEF taken, made
  <2>3. QED
    BY <1>1, <1>5, <2>1, <2>2 DEF taken, made
<1>8. QED
  BY <1>6, <1>7

LEMMA CreateFromAliasStep == ItemInv /\ CreateFromAlias => ItemInv'
<1> SUFFICES ASSUME ItemInv, CreateFromAlias PROVE ItemInv'
  OBVIOUS
<1>1. PICK line \in AliasRows, framed \in BOOLEAN : CreateWithRow(line, framed)
  BY DEF CreateFromAlias
<1>2. /\ itemType \in ItemTypes /\ writable \subseteq HostModes /\ Holds(itemType, item)
      /\ Settled(item) = item /\ given = NoValue /\ item = itemBefore
  BY DEF ItemInv, CreateFromAlias
<1> DEFINE taken == HostTakes(itemType, line, HeldText(<<>>))
           made == IF taken = Crash THEN Number(0) ELSE Settled(taken)
           admits == AdmitsTrack(DecodedTrack(line), framed)
                     /\ (itemType = "text" => EscapesAreWhole(line))
<1>3. /\ asked' = Value("row", Static(0), line)
      /\ itemType' = itemType /\ sections' = sections /\ writable' = writable
      /\ given' = given /\ itemBefore' = itemBefore
      /\ IF admits THEN itemReply' = "created" /\ item' = made
         ELSE item' = item /\ itemReply' = "refused"
  BY <1>1 DEF CreateWithRow
<1>4. /\ Holds(itemType, made) /\ Settled(made) = made /\ line \in Lines
      /\ itemType = "text" => taken = HeldText(HostUnescapes(line))
  BY <1>2, MadeHolds
<1>5. asked'.kind = "row" /\ asked'.text = line
  BY <1>3 DEF Value
<1>6. given'.kind = "unknown"
  BY <1>2, <1>3 DEF NoValue, Unknown, Value
<1>7. CASE ~admits
  <2>1. item' = item /\ itemReply' = "refused"
    BY <1>3, <1>7
  <2>2. WrittenIsMeant'
    BY <1>2, <1>3, <1>5, <2>1 DEF WrittenIsMeant
  <2>3. ReadsAsItIs'
    BY <1>6, <2>1 DEF ReadsAsItIs
  <2>4. QED
    BY <1>2, <1>3, <2>1, <2>2, <2>3 DEF ItemInv
<1>8. CASE admits
  <2>1. item' = made /\ itemReply' = "created"
    BY <1>3, <1>8
  <2>2. WrittenIsMeant'
    BY <1>5, <2>1 DEF WrittenIsMeant
  <2>3. ASSUME itemType = "text" PROVE HostSpells(itemType, made) = line
    <3>1. Escaped(Unescaped(line)) = line
      BY <1>8, <2>3 DEF EscapesAreWhole
    <3>2. Unescaped(line) \in Lines
      BY <1>4, UnescapedIsLine
    <3>3. HostUnescapes(line) = Unescaped(line)
      <4>1. HostUnescapes(Escaped(Unescaped(line))) = Unescaped(line)
        BY <3>2, HostReadsEscaped
      <4>2. QED
        BY <3>1, <4>1
    <3>4. taken = HeldText(Unescaped(line))
      BY <1>4, <2>3, <3>3
    <3>5. taken # Crash /\ Settled(taken) = taken /\ taken.text = Unescaped(line)
      BY <3>4, HeldAre, SettledOne
    <3>6. made = taken
      BY <3>5
    <3> HIDE DEF taken, made
    <3>7. HostSpells("text", made) = Escaped(made.text)
      BY DEF HostSpells
    <3>8. QED
      BY <2>3, <3>1, <3>5, <3>6, <3>7
  <2>4. ASSUME itemType = "track"
        PROVE  SaysTheSame(DecodedTrack(line), DecodedTrack(HostSpells(itemType, made)))
    <3>1. CASE DecodedTrack(line).is = "notAMovement"
      BY <3>1 DEF SaysTheSame
    <3>2. CASE DecodedTrack(line).is # "notAMovement"
      <4>1. AdmitsTrack(DecodedTrack(line), framed)
        BY <1>8
      <4>2. DecodedTrack(line).is # "notRepresentable"
        BY <4>1 DEF AdmitsTrack
      <4>3. \E some : TrackFits(DecodedTrack(line).value, some, writable)
        BY <3>2, <4>1, <4>2 DEF AdmitsTrack
      <4>4. taken = HostKeeps(HostReads(line))
        BY <2>4 DEF HostTakes
      <4>5. HostKeeps(HostReads(line)) # Crash
            /\ SaysTheSame(DecodedTrack(line),
                           DecodedTrack(HostSpells("track", Settled(HostKeeps(HostReads(line))))))
        BY <1>2, <1>4, <3>2, <4>2, <4>3, MadeSaysTheSame
      <4>6. made = Settled(HostKeeps(HostReads(line)))
        BY <4>4, <4>5
      <4> HIDE DEF taken, made
      <4>7. QED
        BY <2>4, <4>5, <4>6
    <3>3. QED
      BY <3>1, <3>2
  <2>5. ReadsAsItIs'
    <3>1. itemReply' = "created" /\ itemType' = "text" => HostSpells(itemType', item') = asked'.text
      BY <1>3, <1>5, <2>1, <2>3
    <3>2. itemReply' = "created" /\ itemType' = "track" =>
            SaysTheSame(DecodedTrack(asked'.text), DecodedTrack(HostSpells(itemType', item')))
      BY <1>3, <1>5, <2>1, <2>4
    <3>3. QED
      BY <1>6, <3>1, <3>2 DEF ReadsAsItIs
  <2>6. QED
    BY <1>2, <1>3, <1>4, <2>1, <2>2, <2>5 DEF ItemInv
<1>9. QED
  BY <1>7, <1>8

LEMMA FirstIsHeld ==
  ASSUME NEW type \in ItemTypes, NEW kept, HeldAtFirst(type, kept)
  PROVE  Holds(type, kept) /\ Settled(kept) = kept
<1>1. CASE type \in NumberTypes /\ kept.mode = None
  <2>1. kept \in {Number(n) : n \in 0 .. TopValue}
    BY <1>1 DEF HeldAtFirst, NumberTypes
  <2>2. QED
    BY <1>1, <2>1, NumberHolds, SettledOne
<1>2. CASE type \in NumberTypes /\ kept.mode # None
  <2>1. type \in {"range", "check"} => ~HeldAtFirst(type, kept)
    BY <1>2 DEF HeldAtFirst
  <2>2. type = "track"
    BY <1>2, <2>1 DEF NumberTypes
  <2>3. IsMovement(kept) /\ Settled(kept) = kept
    BY <1>2, <2>2 DEF HeldAtFirst
  <2>4. PICK values \in HeldValues, mode \in HostModes, flags \in Numbers, rest \in Seq(Filled) :
          kept = Movement(values, mode, flags, rest)
    BY <2>3, MovementIs
  <2>5. QED
    BY <1>2, <2>3, <2>4, NumberHolds
<1>3. CASE type = "text"
  <2>1. kept = HeldText(kept.text) /\ kept.text \in Lines /\ "CR" \notin ToSet(kept.text)
    BY <1>3 DEF HeldAtFirst
  <2>2. kept.text \in Without({"CR"})
    BY <2>1, WithoutIs
  <2>3. Holds("text", HeldText(kept.text))
    BY <2>2, TextHolds
  <2>4. kept.mode = None
    BY <2>1, HeldAre
  <2>5. QED
    BY <1>3, <2>1, <2>3, <2>4, SettledOne
<1>4. CASE type = "color"
  <2>1. PICK word \in DOMAIN Lowered : kept = HeldText(<<word>>) /\ IsLowered(word)
    BY <1>4 DEF HeldAtFirst
  <2>2. kept.mode = None
    BY <2>1, HeldAre
  <2>3. QED
    BY <1>4, <2>1, <2>2, WordHolds, SettledOne
<1>5. CASE type \in {"word", "data"}
  <2>1. kept = HeldText(kept.text) /\ Plain(kept.text)
    BY <1>5 DEF HeldAtFirst
  <2>2. Holds(type, HeldText(kept.text)) /\ kept.mode = None
    BY <1>5, <2>1, PlainHolds, HeldAre
  <2>3. QED
    BY <2>1, <2>2, SettledOne
<1>6. QED
  BY <1>1, <1>2, <1>3, <1>4, <1>5, TypesAre

LEMMA ItemStarts == ItemInit => ItemInv
<1> SUFFICES ASSUME ItemInit PROVE ItemInv
  OBVIOUS
<1>1. PICK start \in HostItems : itemType = start.type /\ sections = start.sections /\ item = start.holds
  BY DEF ItemInit
<1>2. /\ writable \in ModesRead /\ given = NoValue /\ asked = NoValue /\ itemBefore = item
      /\ itemReply = "none"
  BY DEF ItemInit
<1>3. itemType \in ItemTypes /\ HeldAtFirst(itemType, item)
  BY <1>1, ItemAssumption
<1>4. Holds(itemType, item) /\ Settled(item) = item
  BY <1>3, FirstIsHeld
<1>5. writable \subseteq HostModes
  BY <1>2 DEF ModesRead
<1>6. NoValue.kind = "unknown"
  BY DEF NoValue, Unknown, Value
<1>7. WrittenIsMeant /\ ReadsAsItIs
  BY <1>2, <1>6 DEF WrittenIsMeant, ReadsAsItIs
<1>8. QED
  BY <1>2, <1>3, <1>4, <1>5, <1>7 DEF ItemInv

LEMMA ItemGoesOn == ItemInv /\ [ItemNext]_itemVars => ItemInv'
<1> SUFFICES ASSUME ItemInv, [ItemNext]_itemVars PROVE ItemInv'
  OBVIOUS
<1>1. CASE ItemNext
  BY <1>1, ReadItemStep, WriteItemStep, WriteBackStep, CreateFromAliasStep DEF ItemNext
<1>2. CASE UNCHANGED itemVars
  <2>1. WrittenIsMeant'
    BY <1>2 DEF ItemInv, itemVars, WrittenIsMeant, Means
  <2>2. ReadsAsItIs'
    BY <1>2 DEF ItemInv, itemVars, ReadsAsItIs
  <2>3. QED
    BY <1>2, <2>1, <2>2 DEF ItemInv, itemVars
<1>3. QED
  BY <1>1, <1>2
-----------------------------------------------------------------------------
(* The requests side by side: each part keeps its invariant while it has a  *)
(* step, and its promise while it rests.                                    *)

Promises == ColumnPromise /\ TimelinePromise /\ SettingsPromise /\ PagesFitTogether

PartsInv ==
  /\ part = "column" => ColumnInv
  /\ part = "timeline" => TimelineInv
  /\ part = "settings" => SettingsInv
  /\ part = "listing" => ListInv
  /\ ItemInv
  /\ Promises

LEMMA ColumnKeepsPromise == ColumnInv => ColumnPromise
  BY DEF ColumnInv

LEMMA TimelineKeepsPromise == TimelineInv => TimelinePromise
  BY DEF TimelineInv

LEMMA SettingsKeepPromise == SettingsInv => SettingsPromise
  BY DEF SettingsInv

LEMMA ListingKeepsPromise == ListInv => PagesFitTogether
  BY DEF ListInv, Gathered, PagesFitTogether

\* What was promised holds while nothing of the part changes.
LEMMA ColumnRests == ColumnPromise /\ UNCHANGED columnVars => ColumnPromise'
<1> SUFFICES ASSUME ColumnPromise, UNCHANGED columnVars PROVE ColumnPromise'
  OBVIOUS
<1>1. column' = column /\ seen' = seen /\ before' = before /\ obliging' = obliging /\ reply' = reply
  BY DEF columnVars
<1>2. AddedIsNamed' /\ OnlyTheReadEffectChanged'
  BY <1>1 DEF ColumnPromise, AddedIsNamed, OnlyTheReadEffectChanged, Done
<1>3. RestoredIsAsBefore' /\ MoveIsUndone'
  BY <1>1 DEF ColumnPromise, RestoredIsAsBefore, MoveIsUndone
<1>4. DoneMoveKeepsEffects'
  <2>1. DoneMoveKeepsEffects
    BY DEF ColumnPromise
  <2>2. QED
    BY <1>1, <2>1, Zenon DEF DoneMoveKeepsEffects, Done
<1>5. QED
  BY <1>2, <1>3, <1>4 DEF ColumnPromise

LEMMA TimelineRests == TimelinePromise /\ UNCHANGED timelineVars => TimelinePromise'
<1> SUFFICES ASSUME TimelinePromise, UNCHANGED timelineVars PROVE TimelinePromise'
  OBVIOUS
<1>1. /\ objects' = objects /\ former' = former /\ read' = read /\ answer' = answer
      /\ layers' = layers /\ formerLayers' = formerLayers
  BY DEF timelineVars
<1>2. CreatedAreNamed' /\ MovedIsNamed'
  BY <1>1 DEF TimelinePromise, CreatedAreNamed, MovedIsNamed, DoneTimeline
<1>3. LockedLayersHold'
  <2>1. LockedLayersHold
    BY DEF TimelinePromise
  <2>2. QED
    BY <1>1, <2>1, Zenon DEF LockedLayersHold
<1>4. SectionKeepsItsNumber' /\ UnmarkedChangedNoLayer'
  BY <1>1 DEF TimelinePromise, SectionKeepsItsNumber, UnmarkedChangedNoLayer, DoneTimeline
<1>5. QED
  BY <1>2, <1>3, <1>4 DEF TimelinePromise

LEMMA SettingsRest == SettingsPromise /\ UNCHANGED settingsVars => SettingsPromise'
  BY DEF settingsVars, SettingsPromise, UnmarkedChangedNothing, NameFailureSparesTheRest,
         SelectionListsTell

LEMMA ListingRests == PagesFitTogether /\ UNCHANGED listVars => PagesFitTogether'
  BY DEF listVars, PagesFitTogether

\* An item that nothing is asked of.
LEMMA ItemRests == ItemInv /\ UNCHANGED itemVars => ItemInv'
  BY ItemGoesOn

LEMMA ItemRestsAtFirst == ItemAtRest => ItemInv
<1> SUFFICES ASSUME ItemAtRest PROVE ItemInv
  OBVIOUS
<1>1. /\ itemType = "data" /\ item = Number(0) /\ writable = {}
      /\ given = NoValue /\ asked = NoValue /\ itemBefore = item /\ itemReply = "none"
  BY DEF ItemAtRest
<1>2. item.mode = None /\ item.text = <<>> /\ item = HeldText(item.text)
  BY <1>1 DEF HeldText, Number
<1>3. Settled(item) = item
  BY <1>2, SettledOne
<1>4. Plain(item.text)
  <2>1. \A none \in Seq(Tokens) : none = <<>> => ToSet(none) = {}
    BY DEF ToSet
  <2>2. <<>> \in Seq(Tokens)
    OBVIOUS
  <2>3. item.text \in Lines
    BY <1>2, <2>2 DEF Lines
  <2>4. ToSet(item.text) = {}
    BY <1>2, <2>1, <2>2
  <2>5. QED
    BY <2>3, <2>4 DEF Plain
<1>5. itemType \in ItemTypes /\ itemType \notin NumberTypes /\ itemType \notin {"text", "color", "word"}
  BY <1>1 DEF ItemTypes, NumberTypes
<1>6. Holds(itemType, item)
  BY <1>1, <1>2, <1>4, <1>5 DEF Holds
<1>7. HeldAtFirst(itemType, item)
  BY <1>1, <1>2, <1>4 DEF HeldAtFirst
<1>8. given.kind = "unknown"
  BY <1>1 DEF NoValue, Unknown, Value
<1>9. WrittenIsMeant /\ ReadsAsItIs
  BY <1>1, <1>2, <1>8 DEF WrittenIsMeant, ReadsAsItIs, None
<1>10. QED
  BY <1>1, <1>3, <1>5, <1>6, <1>7, <1>9 DEF ItemInv

\* The parts side by side.
LEMMA PartsStart == Init => PartsInv
<1> SUFFICES ASSUME Init PROVE PartsInv
  OBVIOUS
<1>1. part \in {"column", "timeline", "settings", "listing", "item"}
  BY DEF Init
<1>2. ColumnPromise /\ (part = "column" => ColumnInv)
  <2>1. ColumnInit \/ ColumnAtRest
    BY DEF Init
  <2>2. QED
    BY <2>1, ColumnStarts, ColumnKeepsPromise DEF ColumnAtRest
<1>3. TimelinePromise /\ (part = "timeline" => TimelineInv)
  <2>1. ASSUME TimelineInit PROVE TimelinePromise /\ TimelineInv
    BY <2>1, TimelineStarts, TimelineKeepsPromise
  <2>2. ASSUME TimelineAtRest PROVE TimelinePromise
    BY <2>2, NothingAnswered DEF TimelineAtRest, Idle
  <2>3. (part = "timeline" => TimelineInit) /\ (part # "timeline" => TimelineAtRest)
    BY DEF Init
  <2>4. QED
    BY <2>1, <2>2, <2>3
<1>4. SettingsPromise /\ (part = "settings" => SettingsInv)
  <2>1. SettingsInit
    BY DEF Init
  <2>2. QED
    BY <2>1, SettingsStart, SettingsKeepPromise
<1>5. PagesFitTogether /\ (part = "listing" => ListInv)
  <2>1. ListInit
    BY DEF Init, ListingAtRest
  <2>2. QED
    BY <2>1, InitHolds, ListingKeepsPromise
<1>6. ItemInv
  <2>1. ItemInit \/ ItemAtRest
    BY DEF Init
  <2>2. QED
    BY <2>1, ItemStarts, ItemRestsAtFirst
<1>7. QED
  BY <1>2, <1>3, <1>4, <1>5, <1>6 DEF PartsInv, Promises

LEMMA PartsGoOn == PartsInv /\ [Next]_vars => PartsInv'
<1> SUFFICES ASSUME PartsInv, [Next]_vars PROVE PartsInv'
  OBVIOUS
<1>1. Promises
  BY DEF PartsInv
<1>2. ASSUME ColumnStep PROVE PartsInv'
  <2>1. /\ part = "column" /\ part' = part /\ ColumnNext
        /\ UNCHANGED timelineVars /\ UNCHANGED settingsVars /\ UNCHANGED listVars
        /\ UNCHANGED itemVars
    BY <1>2 DEF ColumnStep
  <2>2. ColumnInv'
    BY <2>1, ColumnGoesOn DEF PartsInv
  <2>3. ColumnPromise'
    BY <2>2 DEF ColumnInv
  <2>4. QED
    BY <1>1, <2>1, <2>2, <2>3, TimelineRests, SettingsRest, ListingRests,
       ItemRests DEF PartsInv, Promises
<1>3. ASSUME TimelineStep PROVE PartsInv'
  <2>1. /\ part = "timeline" /\ part' = part /\ TimelineNext
        /\ UNCHANGED columnVars /\ UNCHANGED settingsVars /\ UNCHANGED listVars
        /\ UNCHANGED itemVars
    BY <1>3 DEF TimelineStep
  <2>2. TimelineInv'
    BY <2>1, TimelineGoesOn DEF PartsInv
  <2>3. TimelinePromise'
    BY <2>2 DEF TimelineInv
  <2>4. QED
    BY <1>1, <2>1, <2>2, <2>3, ColumnRests, SettingsRest, ListingRests,
       ItemRests DEF PartsInv, Promises
<1>4. ASSUME SettingsStep PROVE PartsInv'
  <2>1. /\ part = "settings" /\ part' = part /\ SettingsNext
        /\ UNCHANGED columnVars /\ UNCHANGED timelineVars /\ UNCHANGED listVars
        /\ UNCHANGED itemVars
    BY <1>4 DEF SettingsStep
  <2>2. SettingsInv'
    BY <2>1, SettingsGoOn DEF PartsInv
  <2>3. SettingsPromise'
    BY <2>2 DEF SettingsInv
  <2>4. QED
    BY <1>1, <2>1, <2>2, <2>3, ColumnRests, TimelineRests, ListingRests,
       ItemRests DEF PartsInv, Promises
<1>5. ASSUME ListStep PROVE PartsInv'
  <2>1. /\ part = "listing" /\ part' = part /\ ListNext
        /\ UNCHANGED columnVars /\ UNCHANGED timelineVars /\ UNCHANGED settingsVars
        /\ UNCHANGED itemVars
    BY <1>5 DEF ListStep
  <2>2. ListInv'
    BY <2>1, Inductive DEF PartsInv
  <2>3. PagesFitTogether'
    BY <2>2 DEF ListInv, Gathered, PagesFitTogether
  <2>4. QED
    BY <1>1, <2>1, <2>2, <2>3, ColumnRests, TimelineRests, SettingsRest,
       ItemRests DEF PartsInv, Promises
<1>6. ASSUME ItemStep PROVE PartsInv'
  <2>1. /\ part = "item" /\ part' = part /\ ItemNext
        /\ UNCHANGED columnVars /\ UNCHANGED timelineVars
        /\ UNCHANGED settingsVars /\ UNCHANGED listVars
    BY <1>6 DEF ItemStep
  <2>2. ItemInv'
    BY <2>1, ItemGoesOn DEF PartsInv
  <2>3. QED
    BY <1>1, <2>1, <2>2, ColumnRests, TimelineRests, SettingsRest, ListingRests
    DEF PartsInv, Promises
<1>7. ASSUME UNCHANGED vars PROVE PartsInv'
  <2>1. /\ part' = part /\ UNCHANGED columnVars /\ UNCHANGED timelineVars
        /\ UNCHANGED settingsVars /\ UNCHANGED listVars /\ UNCHANGED itemVars
    BY <1>7 DEF vars
  <2>2. QED
    BY <1>1, <2>1, ColumnRests, TimelineRests, SettingsRest, ListingRests, ItemRests,
       ColumnGoesOn, TimelineGoesOn, SettingsGoOn, Inductive DEF PartsInv, Promises
<1>8. QED
  BY <1>2, <1>3, <1>4, <1>5, <1>6, <1>7 DEF Next

LEMMA PartsHold == Spec => []PartsInv
  BY PartsStart, PartsGoOn, PTL DEF Spec

\* Whatever effect, object or layer is new or moved after an answered request is
\* the one the answer names, for all columns, scenes and aliases, and wherever the
\* host puts it (added_effect_position, created_placements, reread).
THEOREM NewIsNamed == Spec => []AnswerNamesWhatIsThere
<1>1. PartsInv => AnswerNamesWhatIsThere
  BY DEF PartsInv, Promises, AnswerNamesWhatIsThere, ColumnPromise, TimelinePromise
<1>2. QED
  BY <1>1, PartsHold, PTL

\* What an answer says that is left in the scene is left, for all numbers of
\* settings and effects, and whichever setter fails (restore.rs,
\* MutationPermit::attribute, set_scene_settings, apply_selection).
THEOREM LeftIsAdmitted == Spec => []AnswerAdmitsWhatIsLeft
<1>1. PartsInv => AnswerAdmitsWhatIsLeft
  BY DEF PartsInv, Promises, AnswerAdmitsWhatIsLeft, ColumnPromise, TimelinePromise, SettingsPromise
<1>2. QED
  BY <1>1, PartsHold, PTL

\* A request changes what it was made for and nothing else, in every column and
\* scene: no other effect, no object of a locked layer, no other section.
THEOREM OthersAreSpared == Spec => []OnlyWhatWasAsked
<1>1. PartsInv => OnlyWhatWasAsked
  BY DEF PartsInv, Promises, OnlyWhatWasAsked, ColumnPromise, TimelinePromise
<1>2. QED
  BY <1>1, PartsHold, PTL

\* The pages of a listing belong together, also beside the other requests.
THEOREM PagesOfTheScene == Spec => []PagesFitTogether
<1>1. PartsInv => PagesFitTogether
  BY DEF PartsInv, Promises
<1>2. QED
  BY <1>1, PartsHold, PTL

\* A write that is answered as done left what the caller meant, one that is not
\* left what was there, and what was read may be sent back and means the same, for
\* all texts, numbers, movements and aliases (encode_value, verify_read_back,
\* restore_item, read_value, entry_items).
THEOREM ItemsAreMeant == Spec => []ItemsMeanWhatIsSaid
<1>1. PartsInv => ItemsMeanWhatIsSaid
  BY DEF PartsInv, ItemInv, ItemsMeanWhatIsSaid
<1>2. QED
  BY <1>1, PartsHold, PTL
=============================================================================

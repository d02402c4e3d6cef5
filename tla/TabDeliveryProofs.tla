------------------------- MODULE TabDeliveryProofs -------------------------
(***************************************************************************)
(* Theorems of the delivery to a tab, for any size of the queue from six   *)
(* on, any window, any workload and any number of boards, lines and lost   *)
(* sockets: the page is led to what the session holds.                     *)
(***************************************************************************)
EXTENDS TabDelivery, SequenceTheorems, WellFoundedInduction, TLAPS

-----------------------------------------------------------------------------
(* Induction on numbers and on sequences, over sets.                       *)

LEMMA Least ==
  ASSUME NEW T \in SUBSET Nat, T # {}
  PROVE  \E x \in T : \A y \in T : x <= y
<1> DEFINE R == OpToRel(<, Nat)
<1>1. IsWellFoundedOn(R, Nat)
  BY NatLessThanWellFounded
<1>2. ASSUME NEW x \in Nat, NEW y \in Nat, ~(<<y, x>> \in R) PROVE x <= y
  BY <1>2 DEF OpToRel
<1> HIDE DEF R
<1>3. PICK x \in T : \A y \in T : ~(<<y, x>> \in R)
  BY <1>1, WFMin
<1> QED BY <1>2, <1>3

LEMMA Numbers ==
  ASSUME NEW X, 0 \in X, \A n \in Nat : n \in X => n + 1 \in X
  PROVE  \A n \in Nat : n \in X
<1> DEFINE T == Nat \ X
<1> SUFFICES ASSUME T # {} PROVE FALSE
  OBVIOUS
<1>1. PICK x \in T : \A y \in T : x <= y
  <2>1. T \in SUBSET Nat
    OBVIOUS
  <2> QED BY <2>1, Least
<1>2. x - 1 \in Nat /\ x - 1 \notin T
  BY <1>1
<1>3. (x - 1) + 1 \in X
  BY <1>2
<1> QED BY <1>1, <1>3

LEMMA Sequences ==
  ASSUME NEW S, NEW X, <<>> \in X, \A s \in Seq(S), e \in S : s \in X => Append(s, e) \in X
  PROVE  \A s \in Seq(S) : s \in X
<1> DEFINE N == {n \in Nat : \A s \in Seq(S) : Len(s) = n => s \in X}
<1>1. 0 \in N
  BY EmptySeq
<1>2. ASSUME NEW n \in Nat, n \in N PROVE n + 1 \in N
  <2> SUFFICES ASSUME NEW s \in Seq(S), Len(s) = n + 1 PROVE s \in X
    OBVIOUS
  <2>1. PICK t \in Seq(S), e \in S : s = Append(t, e)
    <3>1. s # <<>>
      BY EmptySeq
    <3> QED BY <3>1, SequenceEmptyOrAppend
  <2>2. Len(t) = n
    BY <2>1, AppendProperties, LenProperties
  <2> QED BY <1>2, <2>1, <2>2
<1> HIDE DEF N
<1>3. \A n \in Nat : n \in N
  BY <1>1, <1>2, Numbers
<1> QED BY <1>3, LenProperties DEF N

LEMMA ConcatAppend ==
  ASSUME NEW S, NEW s \in Seq(S), NEW t \in Seq(S), NEW e \in S
  PROVE  s \o Append(t, e) = Append(s \o t, e)
<1>1. Append(t, e) = t \o <<e>> /\ <<e>> \in Seq(S) /\ s \o t \in Seq(S)
  BY AppendIsConcat, ConcatProperties
<1>2. Append(s \o t, e) = (s \o t) \o <<e>>
  BY <1>1, AppendIsConcat
<1> QED BY <1>1, <1>2, ConcatAssociative

-----------------------------------------------------------------------------
(* What the page makes of a sequence of frames.                            *)

\* led is the page after each of the first n frames.
LedTo(p, frames, n, led) ==
  led = [k \in 0 .. n |-> IF k = 0 THEN p ELSE Apply(led[k - 1], frames[k])]

Led(p, frames, led) == LedTo(p, frames, Len(frames), led)

LEMMA LedExists ==
  ASSUME NEW p, NEW S, NEW frames \in Seq(S)
  PROVE  \E led : Led(p, frames, led)
<1> DEFINE X == {n \in Nat : \E led : LedTo(p, frames, n, led)}
<1>1. 0 \in X
  <2>1. [k \in 0 .. 0 |-> p] = [k \in 0 .. 0 |-> IF k = 0 THEN p
                                 ELSE Apply([i \in 0 .. 0 |-> p][k - 1], frames[k])]
    OBVIOUS
  <2>2. LedTo(p, frames, 0, [k \in 0 .. 0 |-> p])
    BY <2>1 DEF LedTo
  <2> QED BY <2>2
<1>2. ASSUME NEW n \in Nat, n \in X PROVE n + 1 \in X
  <2>1. PICK led : led = [k \in 0 .. n |-> IF k = 0 THEN p ELSE Apply(led[k - 1], frames[k])]
    BY <1>2 DEF LedTo
  <2> DEFINE more == [k \in 0 .. n + 1 |-> IF k <= n THEN led[k] ELSE Apply(led[n], frames[n + 1])]
  <2>2. \A k \in 0 .. n + 1 : more[k] = IF k = 0 THEN p ELSE Apply(more[k - 1], frames[k])
    <3> SUFFICES ASSUME NEW k \in 0 .. n + 1
                 PROVE  more[k] = IF k = 0 THEN p ELSE Apply(more[k - 1], frames[k])
      OBVIOUS
    <3>1. CASE k = 0
      BY <2>1, <3>1
    <3>2. CASE k \in 1 .. n
      <4>1. more[k] = led[k] /\ more[k - 1] = led[k - 1]
        BY <3>2
      <4>2. led[k] = Apply(led[k - 1], frames[k])
        BY <2>1, <3>2
      <4> QED BY <3>2, <4>1, <4>2
    <3>3. CASE k = n + 1
      <4>1. more[k] = Apply(led[n], frames[k]) /\ more[k - 1] = led[n]
        BY <3>3
      <4> QED BY <3>3, <4>1
    <3> QED BY <3>1, <3>2, <3>3
  <2>3. more = [k \in 0 .. n + 1 |-> more[k]]
    OBVIOUS
  <2> HIDE DEF more
  <2>4. more = [k \in 0 .. n + 1 |-> IF k = 0 THEN p ELSE Apply(more[k - 1], frames[k])]
    BY <2>2, <2>3
  <2>5. LedTo(p, frames, n + 1, more)
    BY <2>4 DEF LedTo
  <2> QED BY <2>5
<1> HIDE DEF X
<1>3. Len(frames) \in X
  BY <1>1, <1>2, Numbers, LenProperties
<1> QED BY <1>3 DEF X, Led

LEMMA LedUnique ==
  ASSUME NEW p, NEW S, NEW s \in Seq(S), NEW e \in S,
         NEW f, Led(p, s, f), NEW g, Led(p, Append(s, e), g)
  PROVE  \A k \in 0 .. Len(s) : f[k] = g[k]
<1> DEFINE t == Append(s, e)
<1>0. Len(s) \in Nat /\ Len(t) = Len(s) + 1 /\ \A i \in 1 .. Len(s) : t[i] = s[i]
  BY LenProperties, AppendProperties
<1> HIDE DEF t
<1> DEFINE X == {n \in Nat : n <= Len(s) => f[n] = g[n]}
<1>1. 0 \in X
  BY <1>0 DEF Led, LedTo, t
<1>2. ASSUME NEW n \in Nat, n \in X PROVE n + 1 \in X
  <2> SUFFICES ASSUME n + 1 <= Len(s) PROVE f[n + 1] = g[n + 1]
    OBVIOUS
  <2>1. n + 1 \in 0 .. Len(s) /\ n + 1 \in 0 .. Len(t) /\ n + 1 # 0 /\ n + 1 \in 1 .. Len(s) /\ n + 1 - 1 = n
    BY <1>0
  <2>2. f[n + 1] = Apply(f[n], s[n + 1])
    BY <2>1 DEF Led, LedTo
  <2>3. g[n + 1] = Apply(g[n], t[n + 1])
    BY <2>1 DEF Led, LedTo, t
  <2>4. f[n] = g[n]
    BY <1>0, <1>2, <2>1
  <2> QED BY <1>0, <2>1, <2>2, <2>3, <2>4
<1> HIDE DEF X
<1>3. \A n \in Nat : n \in X
  BY <1>1, <1>2, Numbers
<1> QED BY <1>0, <1>3 DEF X

LEMMA AppliedIs ==
  ASSUME NEW p, NEW S, NEW frames \in Seq(S)
  PROVE  \E led : Led(p, frames, led) /\ Applied(p, frames) = led[Len(frames)]
<1>1. \E led : Led(p, frames, led)
  BY LedExists
<1> DEFINE led == CHOOSE g : Led(p, frames, g)
<1>2. Led(p, frames, led)
  BY <1>1
<1>3. Applied(p, frames) = led[Len(frames)]
  BY DEF Applied, Led, LedTo
<1> QED BY <1>2, <1>3

LEMMA AppliedEmpty == \A p : Applied(p, <<>>) = p
<1> TAKE p
<1>1. PICK led : Led(p, <<>>, led) /\ Applied(p, <<>>) = led[Len(<<>>)]
  <2>1. <<>> \in Seq({})
    OBVIOUS
  <2> QED BY <2>1, AppliedIs
<1> QED BY <1>1, EmptySeq DEF Led, LedTo

LEMMA AppliedAppend ==
  ASSUME NEW p, NEW S, NEW s \in Seq(S), NEW e \in S
  PROVE  Applied(p, Append(s, e)) = Apply(Applied(p, s), e)
<1>1. PICK f : Led(p, s, f) /\ Applied(p, s) = f[Len(s)]
  BY AppliedIs
<1>2. PICK g : Led(p, Append(s, e), g) /\ Applied(p, Append(s, e)) = g[Len(Append(s, e))]
  <2>1. Append(s, e) \in Seq(S)
    BY AppendProperties
  <2> QED BY <2>1, AppliedIs
<1>3. \A k \in 0 .. Len(s) : f[k] = g[k]
  BY <1>1, <1>2, LedUnique
<1>4. Len(s) \in Nat /\ Len(Append(s, e)) = Len(s) + 1 /\ Append(s, e)[Len(s) + 1] = e
  BY AppendProperties, LenProperties
<1>5. g[Len(s) + 1] = Apply(g[Len(s) + 1 - 1], e)
  BY <1>2, <1>4 DEF Led, LedTo
<1>6. Len(s) + 1 - 1 = Len(s) /\ Len(s) \in 0 .. Len(s)
  BY <1>4
<1> QED BY <1>1, <1>2, <1>3, <1>4, <1>5, <1>6

LEMMA AppliedOne ==
  ASSUME NEW p, NEW e
  PROVE  Applied(p, <<e>>) = Apply(p, e)
<1> DEFINE u == <<>>
           S == {e}
<1>1. u \in Seq(S) /\ e \in S /\ <<e>> = Append(u, e) /\ Applied(p, u) = p
  BY AppliedEmpty
<1> HIDE DEF u, S
<1>2. Applied(p, Append(u, e)) = Apply(Applied(p, u), e)
  BY <1>1, AppliedAppend
<1> QED BY <1>1, <1>2

LEMMA AppliedConcat ==
  ASSUME NEW p, NEW S, NEW s \in Seq(S), NEW t \in Seq(S)
  PROVE  Applied(p, s \o t) = Applied(Applied(p, s), t)
<1> DEFINE X == {u \in Seq(S) : Applied(p, s \o u) = Applied(Applied(p, s), u)}
<1>1. <<>> \in X
  <2>1. s \o <<>> = s /\ <<>> \in Seq(S)
    BY ConcatEmptySeq, EmptySeq
  <2> QED BY <2>1, AppliedEmpty
<1>2. ASSUME NEW u \in Seq(S), NEW f \in S, u \in X PROVE Append(u, f) \in X
  <2>1. /\ s \o Append(u, f) = Append(s \o u, f)
        /\ s \o u \in Seq(S) /\ Append(u, f) \in Seq(S)
    BY ConcatAppend, ConcatProperties, AppendProperties
  <2>2. Applied(p, Append(s \o u, f)) = Apply(Applied(p, s \o u), f)
    <3> DEFINE v == s \o u
    <3>1. v \in Seq(S)
      BY <2>1
    <3> HIDE DEF v
    <3>2. Applied(p, Append(v, f)) = Apply(Applied(p, v), f)
      BY <3>1, AppliedAppend
    <3> QED BY <3>2 DEF v
  <2>3. Applied(Applied(p, s), Append(u, f)) = Apply(Applied(Applied(p, s), u), f)
    BY AppliedAppend
  <2> QED BY <1>2, <2>1, <2>2, <2>3
<1> HIDE DEF X
<1>3. t \in X
  BY <1>1, <1>2, Sequences
<1> QED BY <1>3 DEF X

-----------------------------------------------------------------------------
(* What is left of a queue without the frames of some types.               *)

Keep(types, kept, f) == IF f.type \in types THEN kept ELSE Append(kept, f)

\* kept is what is left of each of the first n frames.
KeptTo(types, frames, n, kept) ==
  kept = [k \in 0 .. n |-> IF k = 0 THEN <<>> ELSE Keep(types, kept[k - 1], frames[k])]

Kept(types, frames, kept) == KeptTo(types, frames, Len(frames), kept)

LEMMA KeptExists ==
  ASSUME NEW types, NEW S, NEW frames \in Seq(S)
  PROVE  \E kept : Kept(types, frames, kept)
<1> DEFINE X == {n \in Nat : \E kept : KeptTo(types, frames, n, kept)}
<1>1. 0 \in X
  <2>1. [k \in 0 .. 0 |-> <<>>] = [k \in 0 .. 0 |-> IF k = 0 THEN <<>>
                                 ELSE Keep(types, [i \in 0 .. 0 |-> <<>>][k - 1], frames[k])]
    OBVIOUS
  <2>2. KeptTo(types, frames, 0, [k \in 0 .. 0 |-> <<>>])
    BY <2>1 DEF KeptTo
  <2> QED BY <2>2
<1>2. ASSUME NEW n \in Nat, n \in X PROVE n + 1 \in X
  <2>1. PICK kept : kept = [k \in 0 .. n |-> IF k = 0 THEN <<>> ELSE Keep(types, kept[k - 1], frames[k])]
    BY <1>2 DEF KeptTo
  <2> DEFINE more == [k \in 0 .. n + 1 |-> IF k <= n THEN kept[k] ELSE Keep(types, kept[n], frames[n + 1])]
  <2>2. \A k \in 0 .. n + 1 : more[k] = IF k = 0 THEN <<>> ELSE Keep(types, more[k - 1], frames[k])
    <3> SUFFICES ASSUME NEW k \in 0 .. n + 1
                 PROVE  more[k] = IF k = 0 THEN <<>> ELSE Keep(types, more[k - 1], frames[k])
      OBVIOUS
    <3>1. CASE k = 0
      BY <2>1, <3>1
    <3>2. CASE k \in 1 .. n
      <4>1. more[k] = kept[k] /\ more[k - 1] = kept[k - 1]
        BY <3>2
      <4>2. kept[k] = Keep(types, kept[k - 1], frames[k])
        BY <2>1, <3>2
      <4> QED BY <3>2, <4>1, <4>2
    <3>3. CASE k = n + 1
      <4>1. more[k] = Keep(types, kept[n], frames[k]) /\ more[k - 1] = kept[n]
        BY <3>3
      <4> QED BY <3>3, <4>1
    <3> QED BY <3>1, <3>2, <3>3
  <2>3. more = [k \in 0 .. n + 1 |-> more[k]]
    OBVIOUS
  <2> HIDE DEF more
  <2>4. more = [k \in 0 .. n + 1 |-> IF k = 0 THEN <<>> ELSE Keep(types, more[k - 1], frames[k])]
    BY <2>2, <2>3
  <2>5. KeptTo(types, frames, n + 1, more)
    BY <2>4 DEF KeptTo
  <2> QED BY <2>5
<1> HIDE DEF X
<1>3. Len(frames) \in X
  BY <1>1, <1>2, Numbers, LenProperties
<1> QED BY <1>3 DEF X, Kept

LEMMA KeptUnique ==
  ASSUME NEW types, NEW S, NEW s \in Seq(S), NEW e \in S,
         NEW f, Kept(types, s, f), NEW g, Kept(types, Append(s, e), g)
  PROVE  \A k \in 0 .. Len(s) : f[k] = g[k]
<1> DEFINE t == Append(s, e)
<1>0. Len(s) \in Nat /\ Len(t) = Len(s) + 1 /\ \A i \in 1 .. Len(s) : t[i] = s[i]
  BY LenProperties, AppendProperties
<1> HIDE DEF t
<1> DEFINE X == {n \in Nat : n <= Len(s) => f[n] = g[n]}
<1>1. 0 \in X
  BY <1>0 DEF Kept, KeptTo, t
<1>2. ASSUME NEW n \in Nat, n \in X PROVE n + 1 \in X
  <2> SUFFICES ASSUME n + 1 <= Len(s) PROVE f[n + 1] = g[n + 1]
    OBVIOUS
  <2>1. n + 1 \in 0 .. Len(s) /\ n + 1 \in 0 .. Len(t) /\ n + 1 # 0 /\ n + 1 \in 1 .. Len(s) /\ n + 1 - 1 = n
    BY <1>0
  <2>2. f[n + 1] = Keep(types, f[n], s[n + 1])
    BY <2>1 DEF Kept, KeptTo
  <2>3. g[n + 1] = Keep(types, g[n], t[n + 1])
    BY <2>1 DEF Kept, KeptTo, t
  <2>4. f[n] = g[n]
    BY <1>0, <1>2, <2>1
  <2> QED BY <1>0, <2>1, <2>2, <2>3, <2>4
<1> HIDE DEF X
<1>3. \A n \in Nat : n \in X
  BY <1>1, <1>2, Numbers
<1> QED BY <1>0, <1>3 DEF X

LEMMA WithoutIs ==
  ASSUME NEW types, NEW S, NEW frames \in Seq(S)
  PROVE  \E kept : Kept(types, frames, kept) /\ Without(frames, types) = kept[Len(frames)]
<1>1. \E kept : Kept(types, frames, kept)
  BY KeptExists
<1> DEFINE kept == CHOOSE g : Kept(types, frames, g)
<1>2. Kept(types, frames, kept)
  BY <1>1
<1>3. Without(frames, types) = kept[Len(frames)]
  BY DEF Without, Kept, KeptTo, Keep
<1> QED BY <1>2, <1>3

LEMMA WithoutEmpty == \A types : Without(<<>>, types) = <<>>
<1> TAKE types
<1>1. PICK kept : Kept(types, <<>>, kept) /\ Without(<<>>, types) = kept[Len(<<>>)]
  <2>1. <<>> \in Seq({})
    OBVIOUS
  <2> QED BY <2>1, WithoutIs
<1> QED BY <1>1, EmptySeq DEF Kept, KeptTo

LEMMA WithoutAppend ==
  ASSUME NEW types, NEW S, NEW s \in Seq(S), NEW e \in S
  PROVE  Without(Append(s, e), types) = Keep(types, Without(s, types), e)
<1>1. PICK f : Kept(types, s, f) /\ Without(s, types) = f[Len(s)]
  BY WithoutIs
<1>2. PICK g : Kept(types, Append(s, e), g) /\ Without(Append(s, e), types) = g[Len(Append(s, e))]
  <2>1. Append(s, e) \in Seq(S)
    BY AppendProperties
  <2> QED BY <2>1, WithoutIs
<1>3. \A k \in 0 .. Len(s) : f[k] = g[k]
  BY <1>1, <1>2, KeptUnique
<1>4. Len(s) \in Nat /\ Len(Append(s, e)) = Len(s) + 1 /\ Append(s, e)[Len(s) + 1] = e
  BY AppendProperties, LenProperties
<1>5. g[Len(s) + 1] = Keep(types, g[Len(s) + 1 - 1], e)
  BY <1>2, <1>4 DEF Kept, KeptTo
<1>6. Len(s) + 1 - 1 = Len(s) /\ Len(s) \in 0 .. Len(s)
  BY <1>4
<1> QED BY <1>1, <1>2, <1>3, <1>4, <1>5, <1>6

LEMMA WithoutSeq ==
  ASSUME NEW types, NEW S, NEW q \in Seq(S)
  PROVE  Without(q, types) \in Seq(S)
<1> DEFINE X == {s \in Seq(S) : Without(s, types) \in Seq(S)}
<1>1. <<>> \in X
  BY WithoutEmpty, EmptySeq
<1>2. ASSUME NEW s \in Seq(S), NEW e \in S, s \in X PROVE Append(s, e) \in X
  <2>1. Without(Append(s, e), types) = Keep(types, Without(s, types), e)
    BY WithoutAppend
  <2>2. Without(s, types) \in Seq(S) /\ Append(Without(s, types), e) \in Seq(S) /\ Append(s, e) \in Seq(S)
    BY <1>2, AppendProperties
  <2> QED BY <2>1, <2>2 DEF Keep
<1> HIDE DEF X
<1>3. q \in X
  BY <1>1, <1>2, Sequences
<1> QED BY <1>3 DEF X

LEMMA WithoutConcat ==
  ASSUME NEW types, NEW S, NEW s \in Seq(S), NEW t \in Seq(S)
  PROVE  Without(s \o t, types) = Without(s, types) \o Without(t, types)
<1> DEFINE X == {u \in Seq(S) : Without(s \o u, types) = Without(s, types) \o Without(u, types)}
<1>1. <<>> \in X
  <2>1. s \o <<>> = s /\ <<>> \in Seq(S) /\ Without(s, types) \in Seq(S)
    BY ConcatEmptySeq, EmptySeq, WithoutSeq
  <2>2. Without(s, types) \o <<>> = Without(s, types)
    BY <2>1, ConcatEmptySeq
  <2> QED BY <2>1, <2>2, WithoutEmpty
<1>2. ASSUME NEW u \in Seq(S), NEW e \in S, u \in X PROVE Append(u, e) \in X
  <2>1. s \o Append(u, e) = Append(s \o u, e) /\ s \o u \in Seq(S) /\ Append(u, e) \in Seq(S)
    BY ConcatAppend, ConcatProperties, AppendProperties
  <2>2. Without(Append(s \o u, e), types) = Keep(types, Without(s \o u, types), e)
    BY <2>1, WithoutAppend
  <2>3. Without(Append(u, e), types) = Keep(types, Without(u, types), e)
    BY WithoutAppend
  <2>4. Without(s, types) \in Seq(S) /\ Without(u, types) \in Seq(S)
    BY WithoutSeq
  <2>5. Without(s, types) \o Append(Without(u, types), e) = Append(Without(s, types) \o Without(u, types), e)
    BY <2>4, ConcatAppend
  <2> QED BY <1>2, <2>1, <2>2, <2>3, <2>5 DEF Keep
<1> HIDE DEF X
<1>3. t \in X
  BY <1>1, <1>2, Sequences
<1> QED BY <1>3 DEF X

\* How many frames of some types wait.
LEMMA WaitingEmpty == \A types : Waiting(<<>>, types) = 0
  BY WithoutEmpty DEF Waiting

LEMMA WaitingAppend ==
  ASSUME NEW types, NEW S, NEW s \in Seq(S), NEW e \in S
  PROVE  Waiting(Append(s, e), types) = Waiting(s, types) + (IF e.type \in types THEN 1 ELSE 0)
<1>1. Without(Append(s, e), types) = Keep(types, Without(s, types), e)
  BY WithoutAppend
<1>2. /\ Len(s) \in Nat /\ Len(Append(s, e)) = Len(s) + 1 /\ Len(Without(s, types)) \in Nat
      /\ Len(Append(Without(s, types), e)) = Len(Without(s, types)) + 1
  BY WithoutSeq, AppendProperties, LenProperties
<1> QED BY <1>1, <1>2 DEF Waiting, Keep

LEMMA WaitingConcat ==
  ASSUME NEW types, NEW S, NEW s \in Seq(S), NEW t \in Seq(S)
  PROVE  Waiting(s \o t, types) = Waiting(s, types) + Waiting(t, types)
<1>1. Without(s \o t, types) = Without(s, types) \o Without(t, types)
  BY WithoutConcat
<1>2. Without(s, types) \in Seq(S) /\ Without(t, types) \in Seq(S)
  BY WithoutSeq
<1>3. /\ Len(s \o t) = Len(s) + Len(t)
      /\ Len(Without(s, types) \o Without(t, types)) = Len(Without(s, types)) + Len(Without(t, types))
  BY <1>2, ConcatProperties
<1>4. /\ Len(s) \in Nat /\ Len(t) \in Nat
      /\ Len(Without(s, types)) \in Nat /\ Len(Without(t, types)) \in Nat
  BY <1>2, LenProperties
<1> QED BY <1>1, <1>3, <1>4 DEF Waiting

LEMMA WaitingOne ==
  ASSUME NEW types, NEW e
  PROVE  Waiting(<<e>>, types) = IF e.type \in types THEN 1 ELSE 0
<1>1. <<>> \in Seq({e}) /\ e \in {e} /\ <<e>> = Append(<<>>, e)
  OBVIOUS
<1>2. Waiting(Append(<<>>, e), types) = Waiting(<<>>, types) + (IF e.type \in types THEN 1 ELSE 0)
  BY <1>1, WaitingAppend
<1> QED BY <1>1, <1>2, WaitingEmpty

LEMMA WaitingNat ==
  ASSUME NEW types, NEW S, NEW q \in Seq(S)
  PROVE  Waiting(q, types) \in Nat
<1> DEFINE X == {s \in Seq(S) : Waiting(s, types) \in Nat}
<1>1. <<>> \in X
  BY WaitingEmpty, EmptySeq
<1>2. ASSUME NEW s \in Seq(S), NEW e \in S, s \in X PROVE Append(s, e) \in X
  BY <1>2, WaitingAppend, AppendProperties
<1> HIDE DEF X
<1>3. q \in X
  BY <1>1, <1>2, Sequences
<1> QED BY <1>3 DEF X

\* Taking frames of some types away takes all of those, and none of the others.
LEMMA WaitingWithout ==
  ASSUME NEW types, NEW gone, NEW S, NEW q \in Seq(S)
  PROVE  /\ Waiting(Without(q, gone), types) <= Waiting(q, types)
         /\ types \subseteq gone => Waiting(Without(q, gone), types) = 0
<1> DEFINE X == {s \in Seq(S) : /\ Waiting(Without(s, gone), types) <= Waiting(s, types)
                                /\ types \subseteq gone => Waiting(Without(s, gone), types) = 0}
<1>1. <<>> \in X
  BY WaitingEmpty, WithoutEmpty, EmptySeq
<1>2. ASSUME NEW s \in Seq(S), NEW e \in S, s \in X PROVE Append(s, e) \in X
  <2>1. Without(Append(s, e), gone) = Keep(gone, Without(s, gone), e) /\ Without(s, gone) \in Seq(S)
    BY WithoutAppend, WithoutSeq
  <2>2. /\ Waiting(Append(s, e), types) = Waiting(s, types) + (IF e.type \in types THEN 1 ELSE 0)
        /\ Waiting(s, types) \in Nat
    BY WaitingAppend, WaitingNat
  <2>3. /\ Waiting(Append(Without(s, gone), e), types)
             = Waiting(Without(s, gone), types) + (IF e.type \in types THEN 1 ELSE 0)
        /\ Waiting(Without(s, gone), types) \in Nat
    BY <2>1, WaitingAppend, WaitingNat
  <2>4. Append(s, e) \in Seq(S)
    BY AppendProperties
  <2>5. /\ Waiting(Without(s, gone), types) <= Waiting(s, types)
        /\ types \subseteq gone => Waiting(Without(s, gone), types) = 0
    BY <1>2
  <2>6. CASE e.type \in gone
    <3>1. Without(Append(s, e), gone) = Without(s, gone)
      BY <2>1, <2>6 DEF Keep
    <3> QED BY <2>2, <2>3, <2>4, <2>5, <3>1
  <2>7. CASE e.type \notin gone
    <3>1. Without(Append(s, e), gone) = Append(Without(s, gone), e)
      BY <2>1, <2>7 DEF Keep
    <3>2. types \subseteq gone => e.type \notin types
      BY <2>7
    <3>3. Waiting(Without(Append(s, e), gone), types) <= Waiting(Append(s, e), types)
      BY <2>2, <2>3, <2>5, <3>1
    <3>4. types \subseteq gone => Waiting(Without(Append(s, e), gone), types) = 0
      BY <2>3, <2>5, <3>1, <3>2
    <3> QED BY <2>4, <3>3, <3>4
  <2> QED BY <2>6, <2>7
<1> HIDE DEF X
<1>3. q \in X
  BY <1>1, <1>2, Sequences
<1> QED BY <1>3 DEF X

LEMMA WaitingNone ==
  ASSUME NEW types, NEW S, NEW q \in Seq(S), \A i \in 1 .. Len(q) : q[i].type \notin types
  PROVE  Waiting(q, types) = 0
<1> DEFINE X == {s \in Seq(S) : (\A i \in 1 .. Len(s) : s[i].type \notin types) => Waiting(s, types) = 0}
<1>1. <<>> \in X
  BY WaitingEmpty, EmptySeq
<1>2. ASSUME NEW s \in Seq(S), NEW e \in S, s \in X PROVE Append(s, e) \in X
  <2>0. Append(s, e) \in Seq(S)
    BY AppendProperties
  <2> SUFFICES ASSUME \A i \in 1 .. Len(Append(s, e)) : Append(s, e)[i].type \notin types
               PROVE  Waiting(Append(s, e), types) = 0
    BY <2>0
  <2>1. /\ Len(Append(s, e)) = Len(s) + 1 /\ Len(s) \in Nat /\ Append(s, e)[Len(s) + 1] = e
        /\ \A i \in 1 .. Len(s) : Append(s, e)[i] = s[i]
    BY AppendProperties, LenProperties
  <2>2. e.type \notin types /\ \A i \in 1 .. Len(s) : s[i].type \notin types
    BY <2>1
  <2> QED BY <1>2, <2>2, WaitingAppend
<1> HIDE DEF X
<1>3. q \in X
  BY <1>1, <1>2, Sequences
<1> QED BY <1>3 DEF X

-----------------------------------------------------------------------------
(* The frames, the page, and what frames of a type leave alone.            *)

Drawings == UNION {[bs -> Nat] : bs \in SUBSET Nat}

Page == [boards : SUBSET Nat, active : Nat, tiles : Drawings, log : Seq(Nat), errors : Seq(Nat)]

AnyFrame == [type : {"state"}, boards : SUBSET Nat, active : Nat, drawn : Nat]
            \cup [type : {"thumbnails"}, drawn : Drawings]
            \cup {Analysis}
            \cup [type : {"log"}, line : Nat]
            \cup [type : {"error"}, error : Nat]
            \cup [type : {"log_history"}, lines : Seq(Nat)]

LEMMA DrawingIs ==
  ASSUME NEW tiles
  PROVE  tiles \in Drawings <=>
           /\ tiles = [b \in DOMAIN tiles |-> tiles[b]] /\ DOMAIN tiles \subseteq Nat
           /\ \A b \in DOMAIN tiles : tiles[b] \in Nat
<1>1. ASSUME tiles \in Drawings
      PROVE  /\ tiles = [b \in DOMAIN tiles |-> tiles[b]] /\ DOMAIN tiles \subseteq Nat
             /\ \A b \in DOMAIN tiles : tiles[b] \in Nat
  <2>1. PICK bs \in SUBSET Nat : tiles \in [bs -> Nat]
    BY <1>1 DEF Drawings
  <2> QED BY <2>1
<1>2. ASSUME /\ tiles = [b \in DOMAIN tiles |-> tiles[b]] /\ DOMAIN tiles \subseteq Nat
             /\ \A b \in DOMAIN tiles : tiles[b] \in Nat
      PROVE  tiles \in Drawings
  <2>1. tiles \in [DOMAIN tiles -> Nat] /\ DOMAIN tiles \in SUBSET Nat
    BY <1>2
  <2> QED BY <2>1 DEF Drawings
<1> QED BY <1>1, <1>2

LEMMA MergeIs ==
  ASSUME NEW tiles \in Drawings, NEW bs \in SUBSET Nat
  PROVE  Merge(tiles, bs) \in Drawings
<1>1. NoDrawing \in Nat
  BY BoundsAssumption DEF NoDrawing
<1>2. \A b \in DOMAIN tiles : tiles[b] \in Nat
  BY DrawingIs
<1>3. DOMAIN Merge(tiles, bs) = bs /\ Merge(tiles, bs) = [b \in bs |-> Merge(tiles, bs)[b]]
      /\ \A b \in bs : Merge(tiles, bs)[b] \in Nat
  BY <1>1, <1>2 DEF Merge
<1> QED BY <1>3, DrawingIs

LEMMA DrawIs ==
  ASSUME NEW tiles \in Drawings, NEW drawn \in Drawings
  PROVE  Draw(tiles, drawn) \in Drawings
<1>1. /\ DOMAIN tiles \subseteq Nat /\ \A b \in DOMAIN tiles : tiles[b] \in Nat
      /\ DOMAIN drawn \subseteq Nat /\ \A b \in DOMAIN drawn : drawn[b] \in Nat
  BY DrawingIs
<1>2. /\ DOMAIN Draw(tiles, drawn) = DOMAIN tiles \cup DOMAIN drawn
      /\ Draw(tiles, drawn) = [b \in DOMAIN tiles \cup DOMAIN drawn |-> Draw(tiles, drawn)[b]]
      /\ \A b \in DOMAIN tiles \cup DOMAIN drawn : Draw(tiles, drawn)[b] \in Nat
  BY <1>1 DEF Draw
<1> QED BY <1>1, <1>2, DrawingIs

LEMMA FillIs ==
  ASSUME NEW tiles \in Drawings, NEW drawn \in Drawings
  PROVE  Fill(tiles, drawn) \in Drawings
<1> DEFINE had == [b \in Drawn(tiles) |-> tiles[b]]
<1>1. DOMAIN tiles \subseteq Nat /\ \A b \in DOMAIN tiles : tiles[b] \in Nat
  BY DrawingIs
<1>2. Drawn(tiles) \subseteq DOMAIN tiles
  BY DEF Drawn
<1>3. /\ DOMAIN had \subseteq Nat /\ had = [b \in DOMAIN had |-> had[b]]
      /\ \A b \in DOMAIN had : had[b] \in Nat
  BY <1>1, <1>2
<1> HIDE DEF had
<1>4. Draw(drawn, had) \in Drawings
  BY <1>3, DrawingIs, DrawIs
<1> QED BY <1>4 DEF Fill, had

LEMMA LastOfIs ==
  ASSUME NEW S, NEW s \in Seq(S), NEW k \in Nat
  PROVE  /\ LastOf(s, k) \in Seq(S)
         /\ Len(LastOf(s, k)) = IF Len(s) > k THEN k ELSE Len(s)
         /\ \A i \in 1 .. Len(LastOf(s, k)) :
              LastOf(s, k)[i] = s[Len(s) - Len(LastOf(s, k)) + i]
<1> DEFINE m == IF Len(s) > k THEN Len(s) - k + 1 ELSE 1
<1>1. Len(s) \in Nat /\ m \in Int /\ \A i \in m .. Len(s) : i \in 1 .. Len(s) /\ s[i] \in S
  BY LenProperties, ElementOfSeq
<1>2. /\ SubSeq(s, m, Len(s)) \in Seq(S)
      /\ Len(SubSeq(s, m, Len(s))) = IF m <= Len(s) THEN Len(s) - m + 1 ELSE 0
      /\ \A i \in 1 .. Len(s) - m + 1 : SubSeq(s, m, Len(s))[i] = s[m + i - 1]
  BY <1>1, SubSeqProperties
<1>3. LastOf(s, k) = SubSeq(s, m, Len(s))
  BY DEF LastOf
<1>4. Len(LastOf(s, k)) = IF Len(s) > k THEN k ELSE Len(s)
  <2>1. CASE Len(s) > k
    <3>1. m = Len(s) - k + 1
      BY <2>1
    <3> HIDE DEF m
    <3> QED BY <1>1, <1>2, <1>3, <2>1, <3>1
  <2>2. CASE ~(Len(s) > k)
    <3>1. m = 1
      BY <2>2
    <3> HIDE DEF m
    <3> QED BY <1>1, <1>2, <1>3, <2>2, <3>1
  <2> QED BY <2>1, <2>2
<1>5. ASSUME NEW i \in 1 .. Len(LastOf(s, k))
      PROVE  LastOf(s, k)[i] = s[Len(s) - Len(LastOf(s, k)) + i]
  <2>1. i \in 1 .. Len(s) - m + 1 /\ m + i - 1 = Len(s) - Len(LastOf(s, k)) + i
    BY <1>1, <1>4
  <2> QED BY <1>2, <1>3, <2>1
<1> QED BY <1>2, <1>3, <1>4, <1>5

\* Of the page, a frame writes what is of its type.
LEMMA ApplyIs ==
  ASSUME NEW p \in Page, NEW f \in AnyFrame
  PROVE  /\ Apply(p, f) \in Page
         /\ f.type = "state" => Apply(p, f) =
              [p EXCEPT !.boards = f.boards, !.active = f.active,
                        !.tiles = [Merge(p.tiles, f.boards) EXCEPT ![f.active] = f.drawn]]
         /\ f.type = "thumbnails" => Apply(p, f) =
              [p EXCEPT !.tiles = IF p.boards = {} THEN Draw(p.tiles, f.drawn)
                                  ELSE Merge(Fill(p.tiles, f.drawn), p.boards)]
         /\ f.type = "log" => Apply(p, f) = [p EXCEPT !.log = LastOf(Append(p.log, f.line), PageLines)]
         /\ f.type = "log_history" => Apply(p, f) = [p EXCEPT !.log = LastOf(f.lines, PageLines)]
         /\ f.type = "error" => Apply(p, f) = [p EXCEPT !.errors = Append(p.errors, f.error)]
         /\ f.type = "analysis" => Apply(p, f) = p
<1>0. f.type \in {"state", "thumbnails", "log", "log_history", "error", "analysis"}
  BY DEF AnyFrame, Analysis
<1>p. /\ p.boards \in SUBSET Nat /\ p.active \in Nat /\ p.tiles \in Drawings /\ p.log \in Seq(Nat)
      /\ p.errors \in Seq(Nat)
  BY DEF Page
<1>1. ASSUME f.type = "state"
      PROVE  /\ Apply(p, f) = [p EXCEPT !.boards = f.boards, !.active = f.active,
                               !.tiles = [Merge(p.tiles, f.boards) EXCEPT ![f.active] = f.drawn]]
             /\ Apply(p, f) \in Page
  <2>1. f.boards \in SUBSET Nat /\ f.active \in Nat /\ f.drawn \in Nat
    BY <1>1 DEF AnyFrame, Analysis
  <2> DEFINE t == [Merge(p.tiles, f.boards) EXCEPT ![f.active] = f.drawn]
  <2>2. t \in Drawings
    <3>1. Merge(p.tiles, f.boards) \in Drawings
      BY <1>p, <2>1, MergeIs
    <3>2. /\ DOMAIN Merge(p.tiles, f.boards) \subseteq Nat
          /\ \A b \in DOMAIN Merge(p.tiles, f.boards) : Merge(p.tiles, f.boards)[b] \in Nat
      BY <3>1, DrawingIs
    <3>3. /\ DOMAIN t = DOMAIN Merge(p.tiles, f.boards) /\ t = [b \in DOMAIN t |-> t[b]]
          /\ \A b \in DOMAIN t : t[b] \in Nat
      BY <2>1, <3>2
    <3> QED BY <3>2, <3>3, DrawingIs
  <2>3. Apply(p, f) = [p EXCEPT !.boards = f.boards, !.active = f.active, !.tiles = t]
    BY <1>1 DEF Apply
  <2> HIDE DEF t
  <2>4. [p EXCEPT !.boards = f.boards, !.active = f.active, !.tiles = t] \in Page
    BY <2>1, <2>2 DEF Page
  <2> QED BY <2>3, <2>4 DEF t
<1>2. ASSUME f.type = "thumbnails"
      PROVE  /\ Apply(p, f) = [p EXCEPT !.tiles = IF p.boards = {} THEN Draw(p.tiles, f.drawn)
                                                  ELSE Merge(Fill(p.tiles, f.drawn), p.boards)]
             /\ Apply(p, f) \in Page
  <2>1. f.drawn \in Drawings
    BY <1>2 DEF AnyFrame, Analysis
  <2> DEFINE t == IF p.boards = {} THEN Draw(p.tiles, f.drawn) ELSE Merge(Fill(p.tiles, f.drawn), p.boards)
  <2>2. t \in Drawings
    BY <1>p, <2>1, MergeIs, DrawIs, FillIs
  <2>3. Apply(p, f) = [p EXCEPT !.tiles = t]
    BY <1>2 DEF Apply
  <2> HIDE DEF t
  <2>4. [p EXCEPT !.tiles = t] \in Page
    BY <2>2 DEF Page
  <2> QED BY <2>3, <2>4 DEF t
<1>3. ASSUME f.type = "log"
      PROVE  /\ Apply(p, f) = [p EXCEPT !.log = LastOf(Append(p.log, f.line), PageLines)]
             /\ Apply(p, f) \in Page
  <2>1. f.line \in Nat
    BY <1>3 DEF AnyFrame, Analysis
  <2> DEFINE l == LastOf(Append(p.log, f.line), PageLines)
  <2>2. l \in Seq(Nat)
    BY <1>p, <2>1, LastOfIs, AppendProperties, HistoryAssumption
  <2>3. Apply(p, f) = [p EXCEPT !.log = l]
    BY <1>3 DEF Apply
  <2> HIDE DEF l
  <2>4. [p EXCEPT !.log = l] \in Page
    BY <2>2 DEF Page
  <2> QED BY <2>3, <2>4 DEF l
<1>4. ASSUME f.type = "log_history"
      PROVE  /\ Apply(p, f) = [p EXCEPT !.log = LastOf(f.lines, PageLines)]
             /\ Apply(p, f) \in Page
  <2>1. f.lines \in Seq(Nat)
    BY <1>4 DEF AnyFrame, Analysis
  <2> DEFINE l == LastOf(f.lines, PageLines)
  <2>2. l \in Seq(Nat)
    BY <2>1, LastOfIs, HistoryAssumption
  <2>3. Apply(p, f) = [p EXCEPT !.log = l]
    BY <1>4 DEF Apply
  <2> HIDE DEF l
  <2>4. [p EXCEPT !.log = l] \in Page
    BY <2>2 DEF Page
  <2> QED BY <2>3, <2>4 DEF l
<1>5. ASSUME f.type = "error"
      PROVE  /\ Apply(p, f) = [p EXCEPT !.errors = Append(p.errors, f.error)]
             /\ Apply(p, f) \in Page
  <2>1. f.error \in Nat
    BY <1>5 DEF AnyFrame, Analysis
  <2> DEFINE l == Append(p.errors, f.error)
  <2>2. l \in Seq(Nat)
    BY <1>p, <2>1, AppendProperties
  <2>3. Apply(p, f) = [p EXCEPT !.errors = l]
    BY <1>5 DEF Apply
  <2> HIDE DEF l
  <2>4. [p EXCEPT !.errors = l] \in Page
    BY <2>2 DEF Page
  <2> QED BY <2>3, <2>4 DEF l
<1>6. ASSUME f.type = "analysis"
      PROVE  Apply(p, f) = p
  BY <1>6 DEF Apply
<1> QED BY <1>0, <1>1, <1>2, <1>3, <1>4, <1>5, <1>6

LEMMA AppliedPage ==
  ASSUME NEW p \in Page, NEW q \in Seq(AnyFrame)
  PROVE  Applied(p, q) \in Page
<1> DEFINE X == {s \in Seq(AnyFrame) : Applied(p, s) \in Page}
<1>1. <<>> \in X
  BY AppliedEmpty, EmptySeq
<1>2. ASSUME NEW s \in Seq(AnyFrame), NEW e \in AnyFrame, s \in X PROVE Append(s, e) \in X
  <2>1. Applied(p, Append(s, e)) = Apply(Applied(p, s), e) /\ Append(s, e) \in Seq(AnyFrame)
    BY AppliedAppend, AppendProperties
  <2> QED BY <1>2, <2>1, ApplyIs
<1> HIDE DEF X
<1>3. q \in X
  BY <1>1, <1>2, Sequences
<1> QED BY <1>3 DEF X

LEMMA ApplyFields ==
  ASSUME NEW p \in Page, NEW f \in AnyFrame
  PROVE  LET n == Apply(p, f)
         IN  /\ f.type # "state" => n.boards = p.boards /\ n.active = p.active
             /\ f.type \notin {"state", "thumbnails"} => n.tiles = p.tiles
             /\ f.type \notin Folded => n.log = p.log
             /\ f.type # "error" => n.errors = p.errors
             /\ f.type = "state" =>
                  /\ n.boards = f.boards /\ n.active = f.active
                  /\ n.tiles = [Merge(p.tiles, f.boards) EXCEPT ![f.active] = f.drawn]
             /\ f.type = "thumbnails" =>
                  n.tiles = IF p.boards = {} THEN Draw(p.tiles, f.drawn)
                            ELSE Merge(Fill(p.tiles, f.drawn), p.boards)
             /\ f.type = "log" => n.log = LastOf(Append(p.log, f.line), PageLines)
             /\ f.type = "log_history" => n.log = LastOf(f.lines, PageLines)
             /\ f.type = "error" => n.errors = Append(p.errors, f.error)
<1> DEFINE n == Apply(p, f)
<1>0. f.type \in {"state", "thumbnails", "log", "log_history", "error", "analysis"}
  BY DEF AnyFrame, Analysis
<1>1. p = [boards |-> p.boards, active |-> p.active, tiles |-> p.tiles, log |-> p.log,
           errors |-> p.errors]
  BY DEF Page
<1>2. CASE f.type = "state"
  <2> DEFINE t == [Merge(p.tiles, f.boards) EXCEPT ![f.active] = f.drawn]
  <2>1. n = [p EXCEPT !.boards = f.boards, !.active = f.active, !.tiles = t]
    BY <1>2, ApplyIs
  <2> HIDE DEF n, t
  <2>2. n.boards = f.boards /\ n.active = f.active /\ n.tiles = t /\ n.log = p.log /\ n.errors = p.errors
    BY <1>1, <2>1
  <2> QED BY <1>2, <2>2 DEF n, t, Folded
<1>3. CASE f.type = "thumbnails"
  <2> DEFINE t == IF p.boards = {} THEN Draw(p.tiles, f.drawn) ELSE Merge(Fill(p.tiles, f.drawn), p.boards)
  <2>1. n = [p EXCEPT !.tiles = t]
    BY <1>3, ApplyIs
  <2> HIDE DEF n, t
  <2>2. n.boards = p.boards /\ n.active = p.active /\ n.tiles = t /\ n.log = p.log /\ n.errors = p.errors
    BY <1>1, <2>1
  <2> QED BY <1>3, <2>2 DEF n, t, Folded
<1>4. CASE f.type \in Folded
  <2> DEFINE l == IF f.type = "log" THEN LastOf(Append(p.log, f.line), PageLines)
                  ELSE LastOf(f.lines, PageLines)
  <2>1. n = [p EXCEPT !.log = l]
    BY <1>4, ApplyIs DEF Folded
  <2> HIDE DEF n, l
  <2>2. n.boards = p.boards /\ n.active = p.active /\ n.tiles = p.tiles /\ n.log = l /\ n.errors = p.errors
    BY <1>1, <2>1
  <2> QED BY <1>4, <2>2 DEF n, l, Folded
<1>5. CASE f.type = "error"
  <2> DEFINE l == Append(p.errors, f.error)
  <2>1. n = [p EXCEPT !.errors = l]
    BY <1>5, ApplyIs
  <2> HIDE DEF n, l
  <2>2. n.boards = p.boards /\ n.active = p.active /\ n.tiles = p.tiles /\ n.log = p.log /\ n.errors = l
    BY <1>1, <2>1
  <2> QED BY <1>5, <2>2 DEF n, l, Folded
<1>6. CASE f.type = "analysis"
  <2>1. n = p
    BY <1>6, ApplyIs
  <2> QED BY <1>6, <2>1 DEF Folded
<1> QED BY <1>0, <1>2, <1>3, <1>4, <1>5, <1>6 DEF Folded

\* Pages whose log and errors are the same stay so, whatever frames come, and a state changes
\* neither.
SameLines(p, r) == p.log = r.log /\ p.errors = r.errors

LEMMA LinesApply ==
  ASSUME NEW p \in Page, NEW r \in Page, SameLines(p, r), NEW f \in AnyFrame
  PROVE  SameLines(Apply(p, f), Apply(r, f))
<1>1. Apply(p, f).log = Apply(r, f).log
  <2>1. CASE f.type \notin Folded
    BY <2>1, ApplyFields DEF SameLines
  <2>2. CASE f.type = "log"
    <3>1. Apply(p, f).log = LastOf(Append(p.log, f.line), PageLines)
      BY <2>2, ApplyFields
    <3>2. Apply(r, f).log = LastOf(Append(r.log, f.line), PageLines)
      BY <2>2, ApplyFields
    <3> QED BY <3>1, <3>2 DEF SameLines
  <2>3. CASE f.type = "log_history"
    <3>1. Apply(p, f).log = LastOf(f.lines, PageLines)
      BY <2>3, ApplyFields
    <3>2. Apply(r, f).log = LastOf(f.lines, PageLines)
      BY <2>3, ApplyFields
    <3> QED BY <3>1, <3>2 DEF SameLines
  <2> QED BY <2>1, <2>2, <2>3 DEF Folded
<1>2. Apply(p, f).errors = Apply(r, f).errors
  <2>1. CASE f.type # "error"
    BY <2>1, ApplyFields DEF SameLines
  <2>2. CASE f.type = "error"
    <3>1. Apply(p, f).errors = Append(p.errors, f.error)
      BY <2>2, ApplyFields
    <3>2. Apply(r, f).errors = Append(r.errors, f.error)
      BY <2>2, ApplyFields
    <3> QED BY <3>1, <3>2 DEF SameLines
  <2> QED BY <2>1, <2>2
<1> QED BY <1>1, <1>2 DEF SameLines

LEMMA StateLines ==
  ASSUME NEW p \in Page, NEW f \in AnyFrame, f.type = "state"
  PROVE  SameLines(Apply(p, f), p)
  BY ApplyFields DEF SameLines, Folded

LEMMA LinesApplied ==
  ASSUME NEW p \in Page, NEW r \in Page, SameLines(p, r), NEW q \in Seq(AnyFrame)
  PROVE  SameLines(Applied(p, q), Applied(r, q))
<1> DEFINE X == {s \in Seq(AnyFrame) : SameLines(Applied(p, s), Applied(r, s))}
<1>1. <<>> \in X
  BY AppliedEmpty, EmptySeq
<1>2. ASSUME NEW s \in Seq(AnyFrame), NEW e \in AnyFrame, s \in X PROVE Append(s, e) \in X
  <2>1. /\ Applied(p, Append(s, e)) = Apply(Applied(p, s), e)
        /\ Applied(r, Append(s, e)) = Apply(Applied(r, s), e)
        /\ Append(s, e) \in Seq(AnyFrame)
    BY AppliedAppend, AppendProperties
  <2>2. Applied(p, s) \in Page /\ Applied(r, s) \in Page
    BY AppliedPage
  <2> QED BY <1>2, <2>1, <2>2, LinesApply
<1> HIDE DEF X
<1>3. q \in X
  BY <1>1, <1>2, Sequences
<1> QED BY <1>3 DEF X

\* The same of all but the log, which the frames that a fold takes do not touch.
SameBoards(p, r) == p.boards = r.boards /\ p.active = r.active /\ p.tiles = r.tiles /\ p.errors = r.errors

LEMMA BoardsApply ==
  ASSUME NEW p \in Page, NEW r \in Page, SameBoards(p, r), NEW f \in AnyFrame
  PROVE  SameBoards(Apply(p, f), Apply(r, f))
<1>1. Apply(p, f).errors = Apply(r, f).errors
  <2>1. CASE f.type # "error"
    BY <2>1, ApplyFields DEF SameBoards
  <2>2. CASE f.type = "error"
    <3>1. Apply(p, f).errors = Append(p.errors, f.error)
      BY <2>2, ApplyFields
    <3>2. Apply(r, f).errors = Append(r.errors, f.error)
      BY <2>2, ApplyFields
    <3> QED BY <3>1, <3>2 DEF SameBoards
  <2> QED BY <2>1, <2>2
<1>2. Apply(p, f).boards = Apply(r, f).boards /\ Apply(p, f).active = Apply(r, f).active
  <2>1. CASE f.type # "state"
    BY <2>1, ApplyFields DEF SameBoards
  <2>2. CASE f.type = "state"
    <3>1. Apply(p, f).boards = f.boards /\ Apply(p, f).active = f.active
      BY <2>2, ApplyFields
    <3>2. Apply(r, f).boards = f.boards /\ Apply(r, f).active = f.active
      BY <2>2, ApplyFields
    <3> QED BY <3>1, <3>2
  <2> QED BY <2>1, <2>2
<1>3. Apply(p, f).tiles = Apply(r, f).tiles
  <2>1. CASE f.type \notin {"state", "thumbnails"}
    BY <2>1, ApplyFields DEF SameBoards
  <2>2. CASE f.type = "state"
    <3>1. Apply(p, f).tiles = [Merge(p.tiles, f.boards) EXCEPT ![f.active] = f.drawn]
      BY <2>2, ApplyFields
    <3>2. Apply(r, f).tiles = [Merge(r.tiles, f.boards) EXCEPT ![f.active] = f.drawn]
      BY <2>2, ApplyFields
    <3> QED BY <3>1, <3>2 DEF SameBoards
  <2>3. CASE f.type = "thumbnails"
    <3>1. Apply(p, f).tiles = IF p.boards = {} THEN Draw(p.tiles, f.drawn)
            ELSE Merge(Fill(p.tiles, f.drawn), p.boards)
      BY <2>3, ApplyFields
    <3>2. Apply(r, f).tiles = IF r.boards = {} THEN Draw(r.tiles, f.drawn)
            ELSE Merge(Fill(r.tiles, f.drawn), r.boards)
      BY <2>3, ApplyFields
    <3> QED BY <3>1, <3>2 DEF SameBoards
  <2> QED BY <2>1, <2>2, <2>3
<1> QED BY <1>1, <1>2, <1>3 DEF SameBoards

LEMMA FoldedBoards ==
  ASSUME NEW p \in Page, NEW f \in AnyFrame, f.type \in Folded
  PROVE  SameBoards(Apply(p, f), p)
  BY ApplyFields DEF SameBoards, Folded

LEMMA BoardsFolded ==
  ASSUME NEW p \in Page, NEW q \in Seq(AnyFrame)
  PROVE  SameBoards(Applied(p, Without(q, Folded)), Applied(p, q))
<1> DEFINE X == {s \in Seq(AnyFrame) : SameBoards(Applied(p, Without(s, Folded)), Applied(p, s))}
<1>1. <<>> \in X
  BY AppliedEmpty, EmptySeq, WithoutEmpty DEF SameBoards
<1>2. ASSUME NEW s \in Seq(AnyFrame), NEW e \in AnyFrame, s \in X PROVE Append(s, e) \in X
  <2> DEFINE k == Without(s, Folded)
  <2>1. k \in Seq(AnyFrame) /\ Append(s, e) \in Seq(AnyFrame)
    BY WithoutSeq, AppendProperties
  <2>2. Applied(p, Append(s, e)) = Apply(Applied(p, s), e)
    BY AppliedAppend
  <2>3. Applied(p, Append(k, e)) = Apply(Applied(p, k), e)
    BY <2>1, AppliedAppend
  <2>4. Applied(p, s) \in Page /\ Applied(p, k) \in Page
    BY <2>1, AppliedPage
  <2>5. Without(Append(s, e), Folded) = Keep(Folded, k, e)
    BY WithoutAppend
  <2>6. SameBoards(Applied(p, k), Applied(p, s))
    BY <1>2
  <2> HIDE DEF k
  <2>7. CASE e.type \in Folded
    <3>1. Without(Append(s, e), Folded) = k
      BY <2>5, <2>7 DEF Keep
    <3>2. SameBoards(Apply(Applied(p, s), e), Applied(p, s))
      BY <2>4, <2>7, FoldedBoards
    <3> QED BY <2>1, <2>2, <2>6, <3>1, <3>2 DEF SameBoards
  <2>8. CASE e.type \notin Folded
    <3>1. Without(Append(s, e), Folded) = Append(k, e)
      BY <2>5, <2>8 DEF Keep
    <3>2. SameBoards(Apply(Applied(p, k), e), Apply(Applied(p, s), e))
      BY <2>4, <2>6, BoardsApply
    <3> QED BY <2>1, <2>2, <2>3, <3>1, <3>2
  <2> QED BY <2>7, <2>8
<1> HIDE DEF X
<1>3. q \in X
  BY <1>1, <1>2, Sequences
<1> QED BY <1>3 DEF X

\* What a fold leaves is of four types.
LEMMA FourTypes ==
  ASSUME NEW q \in Seq(AnyFrame)
  PROVE  Len(Without(q, Folded)) = Waiting(q, {"state"}) + Waiting(q, {"analysis"})
                                   + Waiting(q, {"thumbnails"}) + Waiting(q, {"error"})
<1> DEFINE Sum(s) == Waiting(s, {"state"}) + Waiting(s, {"analysis"})
                     + Waiting(s, {"thumbnails"}) + Waiting(s, {"error"})
           X == {s \in Seq(AnyFrame) : Len(Without(s, Folded)) = Sum(s)}
<1>1. <<>> \in X
  BY EmptySeq, WithoutEmpty, WaitingEmpty
<1>2. ASSUME NEW s \in Seq(AnyFrame), NEW e \in AnyFrame, s \in X PROVE Append(s, e) \in X
  <2>1. Append(s, e) \in Seq(AnyFrame) /\ Without(s, Folded) \in Seq(AnyFrame)
    BY AppendProperties, WithoutSeq
  <2>2. Without(Append(s, e), Folded) = Keep(Folded, Without(s, Folded), e)
    BY WithoutAppend
  <2>3. /\ Len(Without(s, Folded)) \in Nat
        /\ Len(Append(Without(s, Folded), e)) = Len(Without(s, Folded)) + 1
    BY <2>1, LenProperties, AppendProperties
  <2>4. \A t \in {"state", "analysis", "thumbnails", "error"} :
          /\ Waiting(Append(s, e), {t}) = Waiting(s, {t}) + (IF e.type \in {t} THEN 1 ELSE 0)
          /\ Waiting(s, {t}) \in Nat
    BY WaitingAppend, WaitingNat
  <2>5. e.type \in {"state", "thumbnails", "log", "log_history", "error", "analysis"}
    BY DEF AnyFrame, Analysis
  <2>6. Len(Without(s, Folded)) = Sum(s)
    BY <1>2
  <2>7. CASE e.type \in Folded
    <3>1. Without(Append(s, e), Folded) = Without(s, Folded)
      BY <2>2, <2>7 DEF Keep
    <3>2. Sum(Append(s, e)) = Sum(s)
      BY <2>4, <2>7 DEF Folded
    <3> QED BY <2>1, <2>6, <3>1, <3>2
  <2>8. CASE e.type \notin Folded
    <3>1. Len(Without(Append(s, e), Folded)) = Len(Without(s, Folded)) + 1
      BY <2>2, <2>3, <2>8 DEF Keep
    <3>2. Sum(Append(s, e)) = Sum(s) + 1
      BY <2>4, <2>5, <2>8 DEF Folded
    <3> QED BY <2>1, <2>6, <3>1, <3>2
  <2> QED BY <2>7, <2>8
<1> HIDE DEF X
<1>3. q \in X
  BY <1>1, <1>2, Sequences
<1> QED BY <1>3 DEF X

-----------------------------------------------------------------------------
(* Supersession and put.                                                   *)

\* r is q without one frame, of the type given.
OneLess(S, q, r, type) ==
  \E a, b \in Seq(S), e \in S : e.type = type /\ q = (a \o <<e>>) \o b /\ r = a \o b

LEMMA SupersedeIs ==
  ASSUME NEW S, NEW q \in Seq(S), NEW f
  PROVE  \/ /\ Supersede(q, f) = q
            /\ f.type \in Coalesced => Waiting(q, {f.type}) = 0
         \/ /\ f.type \in Coalesced
            /\ OneLess(S, q, Supersede(q, f), f.type)
<1>1. CASE f.type \notin Coalesced
  BY <1>1 DEF Supersede
<1>2. CASE f.type \in Coalesced /\ \A i \in 1 .. Len(q) : q[i].type # f.type
  <2>1. Supersede(q, f) = q
    BY <1>2 DEF Supersede, RemoveFirstMatch
  <2>2. Waiting(q, {f.type}) = 0
    BY <1>2, WaitingNone
  <2> QED BY <2>1, <2>2
<1>3. CASE f.type \in Coalesced /\ \E i \in 1 .. Len(q) : q[i].type = f.type
  <2> DEFINE I == {i \in 1 .. Len(q) : q[i].type = f.type}
  <2>0. Len(q) \in Nat
    BY LenProperties
  <2>1. PICK x \in I : \A y \in I : x <= y
    <3>1. I \in SUBSET Nat /\ I # {}
      BY <1>3
    <3> QED BY <3>1, Least
  <2>2. Min(I) = x
    <3>1. \A y \in I : y \in Int
      OBVIOUS
    <3> QED BY <2>1, <3>1 DEF Min
  <2>3. Supersede(q, f) = RemoveAt(q, x)
    BY <1>3, <2>2 DEF Supersede, RemoveFirstMatch, SelectInSeq
  <2>4. x \in 1 .. Len(q) /\ q[x].type = f.type /\ q[x] \in S
    BY <2>1, ElementOfSeq
  <2> HIDE DEF I
  <2> DEFINE a == SubSeq(q, 1, x - 1)
             b == SubSeq(q, x + 1, Len(q))
  <2>5. RemoveAt(q, x) = a \o b
    BY DEF RemoveAt
  <2>6. a \in Seq(S) /\ b \in Seq(S)
    BY <2>0, <2>4, SubSeqProperties, ElementOfSeq
  <2>7. q = (a \o <<q[x]>>) \o b
    <3>1. SubSeq(q, 1, x) = a \o <<q[x]>>
      BY <2>0, <2>4, SubSeqRecursiveSecond
    <3>2. SubSeq(q, 1, x) \o SubSeq(q, x + 1, Len(q)) = SubSeq(q, 1, Len(q))
      BY <2>0, <2>4, ConcatAdjacentSubSeq
    <3>3. SubSeq(q, 1, Len(q)) = q
      BY SubSeqFull
    <3> QED BY <3>1, <3>2, <3>3
  <2> HIDE DEF a, b
  <2> QED BY <1>3, <2>3, <2>4, <2>5, <2>6, <2>7 DEF OneLess
<1> QED BY <1>1, <1>2, <1>3

LEMMA SupersedeWaiting ==
  ASSUME NEW S, NEW q \in Seq(S), NEW f
  PROVE  /\ Supersede(q, f) \in Seq(S) /\ Len(Supersede(q, f)) <= Len(q)
         /\ \A types : Waiting(Supersede(q, f), types) <= Waiting(q, types)
         /\ f.type \in Coalesced =>
              /\ Waiting(q, {f.type}) <= 1 => Waiting(Supersede(q, f), {f.type}) = 0
              /\ Waiting(q, {f.type}) = 0 => Supersede(q, f) = q
<1>1. CASE /\ Supersede(q, f) = q
           /\ f.type \in Coalesced => Waiting(q, {f.type}) = 0
  <2>1. Len(q) \in Nat /\ \A types : Waiting(q, types) \in Nat
    BY LenProperties, WaitingNat
  <2> QED BY <1>1, <2>1
<1>2. CASE f.type \in Coalesced /\ OneLess(S, q, Supersede(q, f), f.type)
  <2>1. PICK a \in Seq(S), b \in Seq(S), e \in S :
          /\ e.type = f.type /\ q = (a \o <<e>>) \o b /\ Supersede(q, f) = a \o b
    BY <1>2 DEF OneLess
  <2>0. e.type = f.type /\ Supersede(q, f) = a \o b
    BY <2>1
  <2>2. <<e>> \in Seq(S) /\ Len(<<e>>) = 1
    OBVIOUS
  <2>3. a \o <<e>> \in Seq(S) /\ a \o b \in Seq(S)
    BY <2>2, ConcatProperties
  <2>4. Len(a) \in Nat /\ Len(b) \in Nat /\ Len(q) = Len(a) + 1 + Len(b)
        /\ Len(a \o b) = Len(a) + Len(b)
    BY <2>1, <2>2, <2>3, ConcatProperties, LenProperties
  <2>5. ASSUME NEW types
        PROVE  /\ Waiting(q, types) = Waiting(a \o b, types) + (IF e.type \in types THEN 1 ELSE 0)
               /\ Waiting(a \o b, types) \in Nat
    <3>1. Waiting(q, types) = Waiting(a \o <<e>>, types) + Waiting(b, types)
      BY <2>1, <2>3, WaitingConcat
    <3>2. Waiting(a \o <<e>>, types) = Waiting(a, types) + Waiting(<<e>>, types)
      BY <2>2, WaitingConcat
    <3>3. Waiting(a \o b, types) = Waiting(a, types) + Waiting(b, types)
      BY WaitingConcat
    <3>4. Waiting(a, types) \in Nat /\ Waiting(b, types) \in Nat
      BY WaitingNat
    <3> QED BY <3>1, <3>2, <3>3, <3>4, WaitingOne
  <2>6. /\ Waiting(q, {f.type}) = Waiting(a \o b, {f.type}) + 1
        /\ Waiting(a \o b, {f.type}) \in Nat
    <3>1. /\ Waiting(q, {f.type}) = Waiting(a \o b, {f.type}) + (IF e.type \in {f.type} THEN 1 ELSE 0)
          /\ Waiting(a \o b, {f.type}) \in Nat
      BY <2>5
    <3> QED BY <2>1, <3>1
  <2>7. ASSUME NEW types PROVE Waiting(a \o b, types) <= Waiting(q, types)
    <3>1. /\ Waiting(q, types) = Waiting(a \o b, types) + (IF e.type \in types THEN 1 ELSE 0)
          /\ Waiting(a \o b, types) \in Nat
      BY <2>5
    <3> QED BY <3>1
  <2>8. Supersede(q, f) \in Seq(S) /\ Len(Supersede(q, f)) <= Len(q)
    BY <2>0, <2>3, <2>4
  <2>9. /\ Waiting(q, {f.type}) <= 1 => Waiting(Supersede(q, f), {f.type}) = 0
        /\ ~(Waiting(q, {f.type}) = 0)
    BY <2>0, <2>6
  <2>10. \A types : Waiting(Supersede(q, f), types) <= Waiting(q, types)
    BY <2>0, <2>7
  <2> QED BY <2>8, <2>9, <2>10
<1> QED
  <2>1. \/ /\ Supersede(q, f) = q
           /\ f.type \in Coalesced => Waiting(q, {f.type}) = 0
        \/ f.type \in Coalesced /\ OneLess(S, q, Supersede(q, f), f.type)
    BY SupersedeIs
  <2> QED BY <1>1, <1>2, <2>1

LEMMA SupersedePage ==
  ASSUME NEW p \in Page, NEW q \in Seq(AnyFrame), NEW f
  PROVE  /\ SameLines(Applied(p, Supersede(q, f)), Applied(p, q))
         /\ f.type # "state" => Applied(p, Supersede(q, f)) = Applied(p, q)
<1>1. CASE Supersede(q, f) = q
  BY <1>1 DEF SameLines
<1>2. CASE f.type \in Coalesced /\ OneLess(AnyFrame, q, Supersede(q, f), f.type)
  <2>1. PICK a \in Seq(AnyFrame), b \in Seq(AnyFrame), e \in AnyFrame :
          /\ e.type = f.type /\ q = (a \o <<e>>) \o b /\ Supersede(q, f) = a \o b
    BY <1>2 DEF OneLess
  <2>2. a \o <<e>> = Append(a, e) /\ Append(a, e) \in Seq(AnyFrame)
    BY AppendIsConcat, AppendProperties
  <2> DEFINE r == Applied(p, a)
  <2>3. r \in Page /\ Apply(r, e) \in Page
    BY AppliedPage, ApplyIs
  <2>4. Applied(p, a \o b) = Applied(r, b)
    BY AppliedConcat
  <2>5. Applied(p, Append(a, e) \o b) = Applied(Applied(p, Append(a, e)), b)
    <3> DEFINE c == Append(a, e)
    <3>1. c \in Seq(AnyFrame)
      BY <2>2
    <3> HIDE DEF c
    <3>2. Applied(p, c \o b) = Applied(Applied(p, c), b)
      BY <3>1, AppliedConcat
    <3> QED BY <3>2 DEF c
  <2>6. Applied(p, Append(a, e)) = Apply(r, e)
    BY AppliedAppend
  <2> HIDE DEF r
  <2>7. CASE f.type = "state"
    <3>1. SameLines(r, Apply(r, e))
      BY <2>1, <2>3, <2>7, StateLines DEF SameLines
    <3>2. SameLines(Applied(r, b), Applied(Apply(r, e), b))
      BY <2>3, <3>1, LinesApplied
    <3> QED BY <2>1, <2>2, <2>4, <2>5, <2>6, <2>7, <3>2
  <2>8. CASE f.type = "analysis"
    <3>1. Apply(r, e) = r
      BY <2>1, <2>3, <2>8, ApplyIs
    <3> QED BY <2>1, <2>2, <2>4, <2>5, <2>6, <2>8, <3>1 DEF SameLines
  <2> QED BY <1>2, <2>7, <2>8 DEF Coalesced
<1> QED
  <2>1. \/ Supersede(q, f) = q
        \/ f.type \in Coalesced /\ OneLess(AnyFrame, q, Supersede(q, f), f.type)
    BY SupersedeIs
  <2> QED BY <1>1, <1>2, <2>1

LEMMA PutIs ==
  ASSUME NEW q, NEW f, Accepts(q, f)
  PROVE  \/ /\ Put(q, f) = Append(Supersede(q, f), f)
            /\ Len(Supersede(q, f)) < QueueSize
         \/ /\ f.type \in Folding
            /\ Len(Without(Supersede(q, f), Folded)) <= QueueSize \div 2
            /\ f.type \in Folded =>
                 Put(q, f) = Append(Without(Supersede(q, f), Folded), LogHistory(session'))
            /\ f.type \notin Folded =>
                 Put(q, f) = Append(Append(Without(Supersede(q, f), Folded), LogHistory(session')), f)
BY DEF Accepts, Put, Fold, CanFold

\* A put keeps the queue in its bound and what is superseded or folded single.
LEMMA PutQueue ==
  ASSUME NEW S, NEW q \in Seq(S), NEW f \in S, LogHistory(session') \in S, Accepts(q, f),
         f.type # "log_history", Len(q) <= QueueSize,
         \A t \in Coalesced \cup {"log_history"} : Waiting(q, {t}) <= 1
  PROVE  /\ Put(q, f) \in Seq(S) /\ Len(Put(q, f)) <= QueueSize
         /\ \A t \in Coalesced \cup {"log_history"} : Waiting(Put(q, f), {t}) <= 1
         /\ \A t \in {"thumbnails", "error"} :
              Waiting(Put(q, f), {t}) <= Waiting(q, {t}) + (IF f.type = t THEN 1 ELSE 0)
<1> DEFINE rest  == Supersede(q, f)
           short == Without(rest, Folded)
           h     == LogHistory(session')
           one(t) == IF f.type = t THEN 1 ELSE 0
<1>1. rest \in Seq(S) /\ Len(rest) \in Nat /\ Len(q) \in Nat
  BY SupersedeWaiting, LenProperties
<1>2. ASSUME NEW t \in Coalesced \cup {"log_history", "thumbnails", "error"}
      PROVE  /\ Waiting(rest, {t}) \in Nat /\ Waiting(q, {t}) \in Nat
             /\ Waiting(rest, {t}) <= Waiting(q, {t})
             /\ t \in Coalesced /\ t = f.type => Waiting(rest, {t}) = 0
  <2>1. Waiting(rest, {t}) \in Nat /\ Waiting(q, {t}) \in Nat
    BY <1>1, WaitingNat
  <2>2. Waiting(rest, {t}) <= Waiting(q, {t})
    BY SupersedeWaiting
  <2>3. ASSUME t \in Coalesced, t = f.type PROVE Waiting(rest, {t}) = 0
    <3>1. Waiting(q, {t}) <= 1
      BY <2>3
    <3> QED BY <2>3, <3>1, SupersedeWaiting
  <2> QED BY <2>1, <2>2, <2>3
<1>3. short \in Seq(S) /\ Len(short) \in Nat
  BY <1>1, WithoutSeq, LenProperties
<1>4. h.type = "log_history"
  BY DEF LogHistory
<1>5. Append(short, h) \in Seq(S) /\ Len(Append(short, h)) = Len(short) + 1
  BY <1>3, AppendProperties
<1>6. ASSUME NEW t \in Coalesced \cup {"log_history", "thumbnails", "error"}
      PROVE  /\ Waiting(short, {t}) \in Nat
             /\ Waiting(short, {t}) <= Waiting(rest, {t})
             /\ t = "log_history" => Waiting(short, {t}) = 0
  <2>1. Waiting(short, {t}) \in Nat
    BY <1>3, WaitingNat
  <2>2. Waiting(short, {t}) <= Waiting(rest, {t})
        /\ ({t} \subseteq Folded => Waiting(short, {t}) = 0)
    BY <1>1, WaitingWithout
  <2> QED BY <2>1, <2>2 DEF Folded
<1>7. CASE Put(q, f) = Append(rest, f) /\ Len(rest) < QueueSize
  <2>1. Put(q, f) \in Seq(S) /\ Len(Put(q, f)) = Len(rest) + 1
    BY <1>1, <1>7, AppendProperties
  <2>2. ASSUME NEW t \in Coalesced \cup {"log_history", "thumbnails", "error"}
        PROVE  Waiting(Put(q, f), {t}) = Waiting(rest, {t}) + one(t)
    <3>1. Waiting(Append(rest, f), {t}) = Waiting(rest, {t}) + (IF f.type \in {t} THEN 1 ELSE 0)
      BY <1>1, WaitingAppend
    <3> QED BY <1>7, <3>1
  <2>3. Len(Put(q, f)) <= QueueSize
    BY <1>1, <1>7, <2>1, QueueAssumption
  <2>4. ASSUME NEW t \in Coalesced \cup {"log_history"} PROVE Waiting(Put(q, f), {t}) <= 1
    <3>1. Waiting(q, {t}) <= 1 /\ Waiting(Put(q, f), {t}) = Waiting(rest, {t}) + one(t)
      BY <2>2
    <3>2. CASE f.type = t
      <4>1. t \in Coalesced
        BY <3>2
      <4> QED BY <1>2, <3>1, <3>2, <4>1
    <3>3. CASE f.type # t
      <4>1. Waiting(rest, {t}) \in Nat /\ Waiting(q, {t}) \in Nat
            /\ Waiting(rest, {t}) <= Waiting(q, {t})
        BY <1>2
      <4>2. one(t) = 0
        BY <3>3
      <4> HIDE DEF one
      <4> QED BY <3>1, <4>1, <4>2
    <3> QED BY <3>2, <3>3
  <2>5. ASSUME NEW t \in {"thumbnails", "error"}
        PROVE  Waiting(Put(q, f), {t}) <= Waiting(q, {t}) + one(t)
    <3>1. /\ Waiting(Put(q, f), {t}) = Waiting(rest, {t}) + one(t)
          /\ Waiting(rest, {t}) \in Nat /\ Waiting(q, {t}) \in Nat
          /\ Waiting(rest, {t}) <= Waiting(q, {t}) /\ one(t) \in Nat
      BY <1>2, <2>2
    <3> HIDE DEF one
    <3> QED BY <3>1
  <2> QED BY <2>1, <2>3, <2>4, <2>5
<1>8. CASE /\ f.type \in Folding
           /\ Len(short) <= QueueSize \div 2
           /\ f.type \in Folded => Put(q, f) = Append(short, h)
           /\ f.type \notin Folded => Put(q, f) = Append(Append(short, h), f)
  <2>0. ASSUME NEW t \in Coalesced \cup {"log_history", "thumbnails", "error"}
        PROVE  Waiting(Append(short, h), {t}) = Waiting(short, {t}) + (IF t = "log_history" THEN 1 ELSE 0)
    <3>1. Waiting(Append(short, h), {t}) = Waiting(short, {t}) + (IF h.type \in {t} THEN 1 ELSE 0)
      BY <1>3, WaitingAppend
    <3> QED BY <1>4, <3>1
  <2>1. f.type \notin {"thumbnails", "error"}
    BY <1>8 DEF Folding, Folded, Coalesced
  <2>2. Len(short) + 2 <= QueueSize
    BY <1>3, <1>8, QueueAssumption
  <2>3. CASE f.type \in Folded
    <3>1. Put(q, f) = Append(short, h)
      BY <1>8, <2>3
    <3>2. ASSUME NEW t \in Coalesced \cup {"log_history"} PROVE Waiting(Put(q, f), {t}) <= 1
      <4>1. Waiting(q, {t}) <= 1
        OBVIOUS
      <4>2. /\ Waiting(rest, {t}) \in Nat /\ Waiting(q, {t}) \in Nat
            /\ Waiting(rest, {t}) <= Waiting(q, {t})
        BY <1>2
      <4>3. /\ Waiting(short, {t}) \in Nat
            /\ Waiting(short, {t}) <= Waiting(rest, {t})
            /\ t = "log_history" => Waiting(short, {t}) = 0
        BY <1>6
      <4>4. Waiting(Put(q, f), {t}) = Waiting(short, {t}) + (IF t = "log_history" THEN 1 ELSE 0)
        BY <2>0, <3>1
      <4> QED BY <4>1, <4>2, <4>3, <4>4
    <3>3. ASSUME NEW t \in {"thumbnails", "error"}
          PROVE  Waiting(Put(q, f), {t}) <= Waiting(q, {t}) + one(t)
      <4>1. one(t) = 0
        BY <2>1
      <4>2. /\ Waiting(rest, {t}) \in Nat /\ Waiting(q, {t}) \in Nat
            /\ Waiting(rest, {t}) <= Waiting(q, {t})
        BY <1>2
      <4>3. Waiting(short, {t}) \in Nat /\ Waiting(short, {t}) <= Waiting(rest, {t})
        BY <1>6
      <4>4. Waiting(Put(q, f), {t}) = Waiting(short, {t}) + (IF t = "log_history" THEN 1 ELSE 0)
        BY <2>0, <3>1
      <4>5. t # "log_history"
        OBVIOUS
      <4> HIDE DEF one
      <4> QED BY <4>1, <4>2, <4>3, <4>4, <4>5
    <3>4. Len(Put(q, f)) <= QueueSize
      BY <1>3, <1>5, <2>2, <3>1, QueueAssumption
    <3> QED BY <1>5, <3>1, <3>2, <3>3, <3>4
  <2>4. CASE f.type \notin Folded
    <3>1. Put(q, f) = Append(Append(short, h), f) /\ f.type \in Coalesced
      BY <1>8, <2>4 DEF Folding
    <3>2. Put(q, f) \in Seq(S) /\ Len(Put(q, f)) = Len(short) + 2
      BY <1>3, <1>5, <3>1, AppendProperties
    <3>3. ASSUME NEW t \in Coalesced \cup {"log_history", "thumbnails", "error"}
          PROVE  Waiting(Put(q, f), {t}) = Waiting(short, {t}) + (IF t = "log_history" THEN 1 ELSE 0) + one(t)
      <4>1. Waiting(Append(Append(short, h), f), {t})
              = Waiting(Append(short, h), {t}) + (IF f.type \in {t} THEN 1 ELSE 0)
        BY <1>5, WaitingAppend
      <4> QED BY <2>0, <3>1, <4>1
    <3>4. ASSUME NEW t \in Coalesced \cup {"log_history"} PROVE Waiting(Put(q, f), {t}) <= 1
      <4>1. Waiting(q, {t}) <= 1
        OBVIOUS
      <4>2. CASE t = "log_history"
        <5>1. Waiting(short, {t}) = 0 /\ one(t) = 0
          BY <1>6, <4>2
        <5> HIDE DEF one
        <5> QED BY <3>3, <4>2, <5>1
      <4>3. CASE t # "log_history" /\ f.type = t
        <5>1. Waiting(rest, {t}) = 0 /\ one(t) = 1
          BY <1>2, <3>1, <4>3
        <5> HIDE DEF one
        <5> QED BY <1>6, <3>3, <4>3, <5>1
      <4>4. CASE t # "log_history" /\ f.type # t
        <5>1. one(t) = 0
          BY <4>4
        <5> HIDE DEF one
        <5> QED BY <1>2, <1>6, <3>3, <4>1, <4>4, <5>1
      <4> QED BY <4>2, <4>3, <4>4
    <3>5. ASSUME NEW t \in {"thumbnails", "error"}
          PROVE  Waiting(Put(q, f), {t}) <= Waiting(q, {t}) + one(t)
      <4>1. one(t) = 0
        BY <2>1
      <4>2. /\ Waiting(rest, {t}) \in Nat /\ Waiting(q, {t}) \in Nat
            /\ Waiting(rest, {t}) <= Waiting(q, {t})
        BY <1>2
      <4>3. Waiting(short, {t}) \in Nat /\ Waiting(short, {t}) <= Waiting(rest, {t})
        BY <1>6
      <4>4. Waiting(Put(q, f), {t}) = Waiting(short, {t}) + (IF t = "log_history" THEN 1 ELSE 0) + one(t)
        BY <3>3
      <4>5. t # "log_history"
        OBVIOUS
      <4> HIDE DEF one
      <4> QED BY <4>1, <4>2, <4>3, <4>4, <4>5
    <3>6. Len(Put(q, f)) <= QueueSize
      BY <1>3, <2>2, <3>2, QueueAssumption
    <3> QED BY <3>2, <3>4, <3>5, <3>6
  <2> QED BY <2>3, <2>4
<1> HIDE DEF rest, short, h
<1>9. \/ Put(q, f) = Append(rest, f) /\ Len(rest) < QueueSize
      \/ /\ f.type \in Folding
         /\ Len(short) <= QueueSize \div 2
         /\ f.type \in Folded => Put(q, f) = Append(short, h)
         /\ f.type \notin Folded => Put(q, f) = Append(Append(short, h), f)
  BY PutIs DEF rest, short, h
<1> QED BY <1>7, <1>8, <1>9

\* What a put leads the page to: what it was led to, up to a superseded state, with f applied;
\* or, after a fold, with the log of the history, which f's line is in if f is one.
LEMMA PutPage ==
  ASSUME NEW p \in Page, NEW q \in Seq(AnyFrame), NEW f \in AnyFrame,
         LogHistory(session') \in AnyFrame, Accepts(q, f)
  PROVE  LET o == Applied(p, q)
             n == Applied(p, Put(q, f))
             whole == LastOf(LogHistory(session').lines, PageLines)
         IN \E r \in Page :
              /\ r.errors = o.errors
              /\ f.type # "state" \/ Waiting(q, {"state"}) = 0 => SameBoards(r, o)
              /\ \/ n = Apply(r, f) /\ r.log = o.log
                 \/ n = Apply(r, f) /\ r.log = whole /\ f.type \in Coalesced
                 \/ n = r /\ r.log = whole /\ f.type \in Folded
<1> DEFINE o == Applied(p, q)
           n == Applied(p, Put(q, f))
           h == LogHistory(session')
           rest == Supersede(q, f)
           short == Without(rest, Folded)
           r0 == Applied(p, rest)
           r1 == Apply(Applied(p, short), h)
           whole == LastOf(h.lines, PageLines)
<1>1. o \in Page
  BY AppliedPage
<1>2. rest \in Seq(AnyFrame)
  BY SupersedeWaiting
<1>3. short \in Seq(AnyFrame)
  BY <1>2, WithoutSeq
<1>4. r0 \in Page /\ Applied(p, short) \in Page
  BY <1>2, <1>3, AppliedPage
<1>5. SameLines(r0, o) /\ (f.type # "state" => r0 = o)
  BY SupersedePage
<1>6. f.type = "state" /\ Waiting(q, {"state"}) = 0 => r0 = o
  <2>1. f.type \in Coalesced /\ Waiting(q, {f.type}) = 0 => rest = q
    BY SupersedeWaiting
  <2> QED BY <2>1 DEF Coalesced
<1>7. f.type # "state" \/ Waiting(q, {"state"}) = 0 => SameBoards(r0, o)
  BY <1>5, <1>6 DEF SameBoards
<1>8. h.type = "log_history" /\ h \in AnyFrame
  BY DEF LogHistory
<1>9. r1 \in Page
  BY <1>4, <1>8, ApplyIs
<1>10. SameBoards(r1, Applied(p, short))
  BY <1>4, <1>8, FoldedBoards DEF Folded
<1>11. r1.log = whole
  BY <1>4, <1>8, ApplyFields
<1>12. SameBoards(Applied(p, short), r0)
  BY <1>2, BoardsFolded
<1>13. /\ r1.errors = o.errors
       /\ f.type # "state" \/ Waiting(q, {"state"}) = 0 => SameBoards(r1, o)
  BY <1>5, <1>7, <1>10, <1>12 DEF SameBoards, SameLines
<1>14. CASE Put(q, f) = Append(rest, f)
  <2>1. n = Apply(r0, f)
    <3>1. Applied(p, Append(rest, f)) = Apply(Applied(p, rest), f)
      BY <1>2, AppliedAppend
    <3> QED BY <1>14, <3>1
  <2>2. r0.errors = o.errors /\ r0.log = o.log
    BY <1>5 DEF SameLines
  <2> HIDE DEF n, o, r0, whole, h
  <2> QED BY <1>4, <1>7, <2>1, <2>2 DEF n, o, whole, h
<1>15. CASE f.type \in Folded /\ Put(q, f) = Append(short, h)
  <2>1. n = r1
    <3>1. Applied(p, Append(short, h)) = Apply(Applied(p, short), h)
      BY <1>3, <1>8, AppliedAppend
    <3> QED BY <1>15, <3>1
  <2> HIDE DEF n, o, r1, whole, h
  <2> QED BY <1>9, <1>11, <1>13, <1>15, <2>1 DEF n, o, whole, h
<1>16. CASE f.type \in Coalesced /\ Put(q, f) = Append(Append(short, h), f)
  <2>1. Append(short, h) \in Seq(AnyFrame)
    BY <1>3, <1>8, AppendProperties
  <2>2. n = Apply(r1, f)
    <3>1. Applied(p, Append(short, h)) = Apply(Applied(p, short), h)
      BY <1>3, <1>8, AppliedAppend
    <3>2. Applied(p, Append(Append(short, h), f)) = Apply(Applied(p, Append(short, h)), f)
      BY <2>1, AppliedAppend
    <3> QED BY <1>16, <3>1, <3>2
  <2> HIDE DEF n, o, r1, whole, h
  <2> QED BY <1>9, <1>11, <1>13, <1>16, <2>2 DEF n, o, whole, h
<1>17. \/ Put(q, f) = Append(rest, f)
       \/ f.type \in Folded /\ Put(q, f) = Append(short, h)
       \/ f.type \in Coalesced /\ Put(q, f) = Append(Append(short, h), f)
  BY PutIs DEF Folding
<1> QED BY <1>14, <1>15, <1>16, <1>17

-----------------------------------------------------------------------------
(* What the page is led to.                                                *)

\* A log that is a run of the lines up to the newest, and as long as a history.
WholeLog(log, lines) ==
  /\ Len(log) >= (IF lines < HistoryLines THEN lines ELSE HistoryLines)
  /\ log = LastOf([n \in 1 .. lines |-> n], Len(log))

\* The errors since the attachment are the last ones.
AllErrors(errors, before, now) ==
  LastOf(errors, now - before) = [k \in 1 .. now - before |-> before + k]

LEMMA CountIs ==
  ASSUME NEW lines \in Nat
  PROVE  /\ [n \in 1 .. lines |-> n] \in Seq(Nat) /\ Len([n \in 1 .. lines |-> n]) = lines
         /\ \A i \in 1 .. lines : [n \in 1 .. lines |-> n][i] = i
  OBVIOUS

\* A log is whole when it is long enough and its lines are the last ones.
LEMMA WholeIs ==
  ASSUME NEW log \in Seq(Nat), NEW lines \in Nat
  PROVE  WholeLog(log, lines) <=>
           /\ Len(log) >= (IF lines < HistoryLines THEN lines ELSE HistoryLines)
           /\ Len(log) <= lines
           /\ \A i \in 1 .. Len(log) : log[i] = lines - Len(log) + i
<1> DEFINE count == [n \in 1 .. lines |-> n]
           last  == LastOf(count, Len(log))
<1>1. count \in Seq(Nat) /\ Len(count) = lines /\ \A i \in 1 .. lines : count[i] = i
  BY CountIs
<1>2. Len(log) \in Nat
  BY LenProperties
<1> HIDE DEF count
<1>3. /\ last \in Seq(Nat)
      /\ Len(last) = IF Len(count) > Len(log) THEN Len(log) ELSE Len(count)
      /\ \A i \in 1 .. Len(last) : last[i] = count[Len(count) - Len(last) + i]
  BY <1>1, <1>2, LastOfIs
<1> HIDE DEF last
<1>4. ASSUME NEW i \in 1 .. Len(last) PROVE last[i] = lines - Len(last) + i
  <2>1. lines - Len(last) + i \in 1 .. lines
    BY <1>1, <1>2, <1>3
  <2> QED BY <1>1, <1>3, <2>1
<1>5. ASSUME log = last
      PROVE  Len(log) <= lines /\ \A i \in 1 .. Len(log) : log[i] = lines - Len(log) + i
  <2>1. Len(log) = Len(last)
    BY <1>5
  <2>2. Len(log) <= lines
    BY <1>1, <1>2, <1>3, <2>1
  <2>3. ASSUME NEW i \in 1 .. Len(log) PROVE log[i] = lines - Len(log) + i
    <3>1. last[i] = lines - Len(last) + i
      BY <1>4, <2>1
    <3> QED BY <1>5, <2>1, <3>1
  <2> QED BY <2>2, <2>3
<1>6. ASSUME Len(log) <= lines, \A i \in 1 .. Len(log) : log[i] = lines - Len(log) + i
      PROVE  log = last
  <2>1. Len(log) = Len(last)
    BY <1>1, <1>2, <1>3, <1>6
  <2>2. \A i \in 1 .. Len(log) : log[i] = last[i]
    BY <1>4, <1>6, <2>1
  <2> QED BY <1>3, <2>1, <2>2, SeqEqual
<1> QED BY <1>5, <1>6 DEF WholeLog, last, count

LEMMA HistoryWhole ==
  ASSUME NEW s, s.lines \in Nat
  PROVE  /\ LogHistory(s).lines \in Seq(1 .. s.lines) /\ LogHistory(s).lines \in Seq(Nat)
         /\ WholeLog(LastOf(LogHistory(s).lines, PageLines), s.lines)
<1> DEFINE count == [n \in 1 .. s.lines |-> n]
           h     == LastOf(count, HistoryLines)
           log   == LastOf(h, PageLines)
<1>0. HistoryLines \in Nat /\ PageLines \in Nat /\ PageLines >= HistoryLines
  BY HistoryAssumption
<1>1. count \in Seq(Nat) /\ count \in Seq(1 .. s.lines) /\ Len(count) = s.lines
      /\ \A i \in 1 .. s.lines : count[i] = i
  BY CountIs
<1> HIDE DEF count
<1>2. h \in Seq(1 .. s.lines)
  BY <1>0, <1>1, LastOfIs
<1>3. /\ h \in Seq(Nat)
      /\ Len(h) = IF Len(count) > HistoryLines THEN HistoryLines ELSE Len(count)
      /\ \A i \in 1 .. Len(h) : h[i] = count[Len(count) - Len(h) + i]
  BY <1>0, <1>1, LastOfIs
<1>4. LogHistory(s).lines = h
  BY DEF LogHistory, h, count
<1> HIDE DEF h
<1>5. /\ log \in Seq(Nat)
      /\ Len(log) = IF Len(h) > PageLines THEN PageLines ELSE Len(h)
      /\ \A i \in 1 .. Len(log) : log[i] = h[Len(h) - Len(log) + i]
  BY <1>0, <1>3, LastOfIs
<1> HIDE DEF log
<1>6. Len(log) = Len(h) /\ Len(h) \in Nat
  BY <1>0, <1>1, <1>3, <1>5
<1>7. ASSUME NEW i \in 1 .. Len(log) PROVE log[i] = s.lines - Len(log) + i
  <2>1. log[i] = h[i] /\ i \in 1 .. Len(h)
    BY <1>5, <1>6
  <2>2. h[i] = count[s.lines - Len(h) + i]
    BY <1>1, <1>3, <2>1
  <2>3. s.lines - Len(h) + i \in 1 .. s.lines
    <3>1. Len(h) <= s.lines
      BY <1>0, <1>1, <1>3
    <3> QED BY <1>6, <2>1, <3>1
  <2> QED BY <1>1, <1>6, <2>1, <2>2, <2>3
<1>8. WholeLog(log, s.lines)
  <2>1. Len(log) >= (IF s.lines < HistoryLines THEN s.lines ELSE HistoryLines) /\ Len(log) <= s.lines
    BY <1>0, <1>1, <1>3, <1>6
  <2> QED BY <1>5, <1>7, <2>1, WholeIs
<1> QED BY <1>2, <1>3, <1>4, <1>8 DEF log

LEMMA LineWhole ==
  ASSUME NEW log \in Seq(Nat), NEW lines \in Nat, WholeLog(log, lines)
  PROVE  WholeLog(LastOf(Append(log, lines + 1), PageLines), lines + 1)
<1> DEFINE more == Append(log, lines + 1)
           last == LastOf(more, PageLines)
<1>0. HistoryLines \in Nat /\ PageLines \in Nat /\ PageLines >= HistoryLines /\ Len(log) \in Nat
  BY HistoryAssumption, LenProperties
<1>1. /\ Len(log) >= (IF lines < HistoryLines THEN lines ELSE HistoryLines)
      /\ Len(log) <= lines
      /\ \A i \in 1 .. Len(log) : log[i] = lines - Len(log) + i
  BY WholeIs
<1>2. /\ more \in Seq(Nat) /\ Len(more) = Len(log) + 1
      /\ \A i \in 1 .. Len(log) : more[i] = log[i]
      /\ more[Len(log) + 1] = lines + 1
  BY AppendProperties
<1> HIDE DEF more
<1>3. /\ last \in Seq(Nat)
      /\ Len(last) = IF Len(more) > PageLines THEN PageLines ELSE Len(more)
      /\ \A i \in 1 .. Len(last) : last[i] = more[Len(more) - Len(last) + i]
  BY <1>0, <1>2, LastOfIs
<1> HIDE DEF last
<1>4. ASSUME NEW j \in 1 .. Len(more) PROVE more[j] = lines - Len(log) + j
  <2>1. CASE j = Len(log) + 1
    BY <1>0, <1>2, <2>1
  <2>2. CASE j # Len(log) + 1
    <3>1. j \in 1 .. Len(log)
      BY <1>0, <1>2, <2>2
    <3>2. more[j] = log[j] /\ log[j] = lines - Len(log) + j
      BY <1>1, <1>2, <3>1
    <3> QED BY <3>2
  <2> QED BY <2>1, <2>2
<1>5. Len(last) \in Nat /\ Len(last) <= Len(more)
  BY <1>0, <1>2, <1>3
<1>6. ASSUME NEW i \in 1 .. Len(last) PROVE last[i] = (lines + 1) - Len(last) + i
  <2>1. Len(more) - Len(last) + i \in 1 .. Len(more)
    BY <1>0, <1>2, <1>5
  <2>2. last[i] = lines - Len(log) + (Len(more) - Len(last) + i)
    BY <1>3, <1>4, <2>1
  <2> QED BY <1>0, <1>2, <1>5, <2>2
<1>7. /\ Len(last) >= (IF lines + 1 < HistoryLines THEN lines + 1 ELSE HistoryLines)
      /\ Len(last) <= lines + 1
  BY <1>0, <1>1, <1>2, <1>3
<1> QED BY <1>3, <1>6, <1>7, WholeIs DEF last, more

\* The errors are all there when the sequence is long enough and ends with them.
LEMMA ErrorsAre ==
  ASSUME NEW errors \in Seq(Nat), NEW before \in Nat, NEW now \in Nat, before <= now
  PROVE  AllErrors(errors, before, now) <=>
           /\ Len(errors) >= now - before
           /\ \A k \in 1 .. now - before : errors[Len(errors) - (now - before) + k] = before + k
<1> DEFINE n    == now - before
           all  == [k \in 1 .. n |-> before + k]
           last == LastOf(errors, n)
<1>1. n \in Nat /\ Len(errors) \in Nat
  BY LenProperties
<1>2. all \in Seq(Nat) /\ Len(all) = n /\ \A k \in 1 .. n : all[k] = before + k
  BY <1>1
<1> HIDE DEF n, all
<1>3. /\ last \in Seq(Nat)
      /\ Len(last) = IF Len(errors) > n THEN n ELSE Len(errors)
      /\ \A i \in 1 .. Len(last) : last[i] = errors[Len(errors) - Len(last) + i]
  BY <1>1, LastOfIs
<1> HIDE DEF last
<1>4. ASSUME last = all
      PROVE  Len(errors) >= n /\ \A k \in 1 .. n : errors[Len(errors) - n + k] = before + k
  <2>1. Len(last) = n /\ Len(errors) >= n
    BY <1>1, <1>2, <1>3, <1>4
  <2>2. ASSUME NEW k \in 1 .. n PROVE errors[Len(errors) - n + k] = before + k
    <3>1. last[k] = errors[Len(errors) - Len(last) + k]
      BY <1>3, <2>1
    <3>2. last[k] = before + k
      BY <1>2, <1>4
    <3> QED BY <2>1, <3>1, <3>2
  <2> QED BY <2>1, <2>2
<1>5. ASSUME Len(errors) >= n, \A k \in 1 .. n : errors[Len(errors) - n + k] = before + k
      PROVE  last = all
  <2>1. Len(last) = n
    BY <1>1, <1>3, <1>5
  <2>2. \A i \in 1 .. Len(last) : last[i] = all[i]
    BY <1>2, <1>3, <1>5, <2>1
  <2> QED BY <1>2, <1>3, <2>1, <2>2, SeqEqual
<1> QED BY <1>4, <1>5 DEF AllErrors, n, all, last

LEMMA ErrorsNone ==
  ASSUME NEW errors \in Seq(Nat), NEW before \in Nat
  PROVE  AllErrors(errors, before, before)
<1>1. Len(errors) \in Nat
  BY LenProperties
<1>2. /\ Len(errors) >= before - before
      /\ \A k \in 1 .. before - before : errors[Len(errors) - (before - before) + k] = before + k
  BY <1>1
<1> QED BY <1>2, ErrorsAre

LEMMA ErrorsMore ==
  ASSUME NEW errors \in Seq(Nat), NEW before \in Nat, NEW now \in Nat, before <= now,
         AllErrors(errors, before, now)
  PROVE  AllErrors(Append(errors, now + 1), before, now + 1)
<1> DEFINE more == Append(errors, now + 1)
<1>1. /\ Len(errors) \in Nat /\ Len(errors) >= now - before
      /\ \A k \in 1 .. now - before : errors[Len(errors) - (now - before) + k] = before + k
  BY LenProperties, ErrorsAre
<1>2. /\ more \in Seq(Nat) /\ Len(more) = Len(errors) + 1
      /\ \A i \in 1 .. Len(errors) : more[i] = errors[i]
      /\ more[Len(errors) + 1] = now + 1
  BY AppendProperties
<1> HIDE DEF more
<1>3. ASSUME NEW k \in 1 .. (now + 1) - before
      PROVE  more[Len(more) - ((now + 1) - before) + k] = before + k
  <2>1. CASE k = (now + 1) - before
    <3>1. Len(more) - ((now + 1) - before) + k = Len(errors) + 1
      BY <1>1, <1>2, <2>1
    <3> QED BY <1>2, <2>1, <3>1
  <2>2. CASE k # (now + 1) - before
    <3>1. k \in 1 .. now - before
      BY <2>2
    <3>2. /\ Len(more) - ((now + 1) - before) + k = Len(errors) - (now - before) + k
          /\ Len(errors) - (now - before) + k \in 1 .. Len(errors)
      BY <1>1, <1>2, <3>1
    <3> QED BY <1>1, <1>2, <3>1, <3>2
  <2> QED BY <2>1, <2>2
<1>4. Len(more) >= (now + 1) - before /\ before <= now + 1 /\ now + 1 \in Nat
  BY <1>1, <1>2
<1> QED BY <1>2, <1>3, <1>4, ErrorsAre DEF more

Good(p, s, before, old, left) ==
  /\ WholeLog(p.log, s.lines)
  /\ AllErrors(p.errors, before, s.errors)
  /\ p.boards = Boards(s) /\ p.active = s.active /\ DOMAIN p.tiles = Boards(s)
  /\ \A b \in Boards(s) :
       b = s.active \/ (~old /\ b \notin left) => p.tiles[b] = s.cursor[b]

Tiles == UNION {[bs -> 0 .. MaxCursor] : bs \in SUBSET (1 .. MaxBoards)}

SessionOk(s) ==
  /\ s \in [cursor : Tiles, active : 1 .. MaxBoards, next : 1 .. MaxBoards + 1,
            lines : Nat, errors : Nat]
  /\ s.active \in Boards(s)
  /\ \A b \in Boards(s) : b < s.next

\* What every change of the boards is: only the board that is active after it can be new or
\* stand at another position.
EditOk(s, t) ==
  /\ t.lines = s.lines /\ t.errors = s.errors
  /\ \A b \in Boards(t) : b = t.active \/ (b \in Boards(s) /\ t.cursor[b] = s.cursor[b])

LEMMA TilesAre ==
  ASSUME NEW c
  PROVE  c \in Tiles <=> /\ c \in [DOMAIN c -> 0 .. MaxCursor] /\ DOMAIN c \subseteq 1 .. MaxBoards
<1>1. ASSUME c \in Tiles
      PROVE  c \in [DOMAIN c -> 0 .. MaxCursor] /\ DOMAIN c \subseteq 1 .. MaxBoards
  <2>1. PICK bs \in SUBSET (1 .. MaxBoards) : c \in [bs -> 0 .. MaxCursor]
    BY <1>1 DEF Tiles
  <2> QED BY <2>1
<1>2. ASSUME c \in [DOMAIN c -> 0 .. MaxCursor], DOMAIN c \subseteq 1 .. MaxBoards
      PROVE  c \in Tiles
  BY <1>2 DEF Tiles
<1> QED BY <1>1, <1>2

LEMMA BoundsAre == MaxBoards \in Nat /\ MaxCursor \in Nat /\ MaxBoards >= 1
  BY BoundsAssumption

LEMMA TilesDrawings == Tiles \subseteq Drawings
<1> SUFFICES ASSUME NEW c \in Tiles PROVE c \in Drawings
  OBVIOUS
<1>1. c \in [DOMAIN c -> 0 .. MaxCursor] /\ DOMAIN c \subseteq 1 .. MaxBoards
  BY TilesAre
<1>2. DOMAIN c \subseteq Nat /\ c = [b \in DOMAIN c |-> c[b]] /\ \A b \in DOMAIN c : c[b] \in Nat
  BY <1>1, BoundsAre
<1> QED BY <1>2, DrawingIs

\* The frames of a session are frames.
LEMMA FramesAre ==
  ASSUME NEW s, SessionOk(s)
  PROVE  /\ StateFrame(s) \in [type : {"state"}, boards : SUBSET (1 .. MaxBoards),
                               active : 1 .. MaxBoards, drawn : 0 .. MaxCursor]
         /\ Thumbnails(s) \in [type : {"thumbnails"}, drawn : Tiles]
         /\ LogHistory(s) \in [type : {"log_history"}, lines : Seq(1 .. s.lines)]
         /\ LogHistory(s) \in AnyFrame /\ StateFrame(s) \in AnyFrame /\ Thumbnails(s) \in AnyFrame
<1>1. /\ s.cursor \in Tiles /\ s.active \in 1 .. MaxBoards /\ s.active \in Boards(s)
      /\ s.lines \in Nat
  BY DEF SessionOk
<1>2. s.cursor \in [Boards(s) -> 0 .. MaxCursor] /\ Boards(s) \subseteq 1 .. MaxBoards
  BY <1>1, TilesAre DEF Boards
<1>3. s.cursor[s.active] \in 0 .. MaxCursor
  BY <1>1, <1>2
<1>4. StateFrame(s) \in [type : {"state"}, boards : SUBSET (1 .. MaxBoards),
                         active : 1 .. MaxBoards, drawn : 0 .. MaxCursor]
  BY <1>1, <1>2, <1>3 DEF StateFrame
<1>5. Thumbnails(s) \in [type : {"thumbnails"}, drawn : Tiles]
  BY <1>1 DEF Thumbnails
<1>6. /\ LogHistory(s) \in [type : {"log_history"}, lines : Seq(1 .. s.lines)]
      /\ LogHistory(s) \in [type : {"log_history"}, lines : Seq(Nat)]
  <2>1. LogHistory(s).lines \in Seq(1 .. s.lines) /\ LogHistory(s).lines \in Seq(Nat)
    BY <1>1, HistoryWhole
  <2>2. LogHistory(s) = [type |-> "log_history", lines |-> LogHistory(s).lines]
    BY DEF LogHistory
  <2> QED BY <2>1, <2>2
<1>7. LogHistory(s) \in AnyFrame
  BY <1>6 DEF AnyFrame
<1>8. StateFrame(s) \in AnyFrame
  <2>1. StateFrame(s) \in [type : {"state"}, boards : SUBSET Nat, active : Nat, drawn : Nat]
    BY <1>1, <1>2, <1>3, BoundsAre DEF StateFrame
  <2> QED BY <2>1 DEF AnyFrame
<1>9. Thumbnails(s) \in AnyFrame
  <2>1. Thumbnails(s) \in [type : {"thumbnails"}, drawn : Drawings]
    BY <1>1, TilesDrawings DEF Thumbnails
  <2> QED BY <2>1 DEF AnyFrame
<1> QED BY <1>4, <1>5, <1>6, <1>7, <1>8, <1>9

\* A state put leads the page to it, but for the drawings a superseded state took with it.
LEMMA StateLeads ==
  ASSUME NEW p \in Page, NEW q \in Seq(AnyFrame), SessionOk(session), SessionOk(session'),
         EditOk(session, session'), Accepts(q, StateFrame(session')), NEW before, NEW old, NEW left,
         Good(Applied(p, q), session, before, old, left)
  PROVE  Good(Applied(p, Put(q, StateFrame(session'))), session', before,
              old \/ Waiting(q, {"state"}) > 0, left \ {session'.active})
<1> DEFINE f == StateFrame(session')
           o == Applied(p, q)
           n == Applied(p, Put(q, f))
           whole == LastOf(LogHistory(session').lines, PageLines)
<1>0. LogHistory(session') \in AnyFrame /\ f \in AnyFrame
  BY FramesAre
<1>1. /\ f.type = "state" /\ f.boards = Boards(session') /\ f.active = session'.active
      /\ f.drawn = session'.cursor[session'.active]
  BY DEF StateFrame
<1>2. o \in Page
  BY AppliedPage
<1> HIDE DEF f
<1>3. PICK r \in Page :
        /\ r.errors = o.errors
        /\ f.type # "state" \/ Waiting(q, {"state"}) = 0 => SameBoards(r, o)
        /\ \/ n = Apply(r, f) /\ r.log = o.log
           \/ n = Apply(r, f) /\ r.log = whole /\ f.type \in Coalesced
           \/ n = r /\ r.log = whole /\ f.type \in Folded
  BY <1>0, PutPage DEF f
<1> HIDE DEF n, o, whole
<1>4. n = Apply(r, f) /\ (r.log = o.log \/ r.log = whole)
  BY <1>1, <1>3 DEF Folded
<1>5. /\ n.log = r.log /\ n.errors = r.errors
      /\ n.boards = Boards(session') /\ n.active = session'.active
      /\ n.tiles = [Merge(r.tiles, Boards(session')) EXCEPT ![session'.active] = session'.cursor[session'.active]]
  <2>1. Apply(r, f).log = r.log /\ Apply(r, f).errors = r.errors
    <3>1. f.type \notin Folded /\ f.type # "error"
      BY <1>1 DEF Folded
    <3> QED BY <1>0, <3>1, ApplyFields
  <2>2. /\ Apply(r, f).boards = f.boards /\ Apply(r, f).active = f.active
        /\ Apply(r, f).tiles = [Merge(r.tiles, f.boards) EXCEPT ![f.active] = f.drawn]
    BY <1>0, <1>1, ApplyFields
  <2> QED BY <1>1, <1>4, <2>1, <2>2
<1>6. WholeLog(n.log, session'.lines)
  <2>1. WholeLog(o.log, session'.lines)
    BY DEF Good, EditOk, o
  <2>2. WholeLog(whole, session'.lines)
    BY HistoryWhole DEF SessionOk, whole
  <2> QED BY <1>4, <1>5, <2>1, <2>2
<1>7. AllErrors(n.errors, before, session'.errors)
  BY <1>3, <1>5 DEF Good, EditOk, o
<1>8. DOMAIN n.tiles = Boards(session')
  BY <1>5 DEF Merge
<1>9. ASSUME NEW b \in Boards(session'),
             \/ b = session'.active
             \/ ~(old \/ Waiting(q, {"state"}) > 0) /\ b \notin left \ {session'.active}
      PROVE  n.tiles[b] = session'.cursor[b]
  <2>1. CASE b = session'.active
    BY <1>5, <2>1 DEF Merge
  <2>2. CASE b # session'.active
    <3>1. ~old /\ ~(Waiting(q, {"state"}) > 0) /\ b \notin left
      BY <1>9, <2>2
    <3>2. Waiting(q, {"state"}) = 0
      BY <3>1, WaitingNat
    <3>3. r.tiles = o.tiles
      BY <1>3, <3>2 DEF SameBoards
    <3>4. b \in Boards(session) /\ session'.cursor[b] = session.cursor[b]
      BY <2>2 DEF EditOk
    <3>5. b \in DOMAIN o.tiles /\ o.tiles[b] = session.cursor[b]
      BY <3>1, <3>4 DEF Good, o
    <3>6. n.tiles[b] = Merge(r.tiles, Boards(session'))[b]
      BY <1>5, <2>2 DEF Merge
    <3> QED BY <3>3, <3>4, <3>5, <3>6 DEF Merge
  <2> QED BY <2>1, <2>2
<1> QED BY <1>5, <1>6, <1>7, <1>8, <1>9 DEF Good, n, f

\* So does an error or an analysis, and a line, which a fold puts into the history.
LEMMA OtherLeads ==
  ASSUME NEW p \in Page, NEW q \in Seq(AnyFrame), SessionOk(session), SessionOk(session'),
         session'.cursor = session.cursor, session'.active = session.active,
         NEW f, Accepts(q, f), NEW before \in Nat, before <= session.errors, NEW old, NEW left,
         Good(Applied(p, q), session, before, old, left),
         \/ f = LogLine(session'.lines) /\ session'.lines = session.lines + 1
              /\ session'.errors = session.errors
         \/ f = Error(session'.errors) /\ session'.errors = session.errors + 1
              /\ session'.lines = session.lines
         \/ f = Analysis /\ session'.lines = session.lines /\ session'.errors = session.errors
  PROVE  Good(Applied(p, Put(q, f)), session', before, old, left)
<1> DEFINE o == Applied(p, q)
           n == Applied(p, Put(q, f))
           whole == LastOf(LogHistory(session').lines, PageLines)
<1>0. LogHistory(session') \in AnyFrame
  BY FramesAre
<1>s. session.lines \in Nat /\ session'.lines \in Nat /\ session.errors \in Nat /\ session'.errors \in Nat
  BY DEF SessionOk
<1>1. f \in AnyFrame /\ f.type \in {"log", "error", "analysis"}
  BY <1>s DEF LogLine, Error, Analysis, AnyFrame
<1>2. o \in Page
  BY AppliedPage
<1>3. PICK r \in Page :
        /\ r.errors = o.errors
        /\ f.type # "state" \/ Waiting(q, {"state"}) = 0 => SameBoards(r, o)
        /\ \/ n = Apply(r, f) /\ r.log = o.log
           \/ n = Apply(r, f) /\ r.log = whole /\ f.type \in Coalesced
           \/ n = r /\ r.log = whole /\ f.type \in Folded
  BY <1>0, <1>1, PutPage
<1>4. WholeLog(whole, session'.lines)
  BY <1>s, HistoryWhole
<1>5. WholeLog(o.log, session.lines) /\ AllErrors(o.errors, before, session.errors)
  BY DEF Good
<1> HIDE DEF n, o, whole
<1>6. SameBoards(r, o)
  BY <1>1, <1>3
<1>7. n.boards = o.boards /\ n.active = o.active /\ n.tiles = o.tiles
  <2>1. Apply(r, f).boards = r.boards /\ Apply(r, f).active = r.active /\ Apply(r, f).tiles = r.tiles
    BY <1>1, ApplyFields
  <2> QED BY <1>3, <1>6, <2>1 DEF SameBoards
<1>8. /\ WholeLog(n.log, session'.lines)
      /\ AllErrors(n.errors, before, session'.errors)
  <2>1. CASE /\ f = LogLine(session'.lines) /\ session'.lines = session.lines + 1
             /\ session'.errors = session.errors
    <3>1. f.type = "log" /\ f.line = session.lines + 1
      BY <2>1 DEF LogLine
    <3>2. \/ n = Apply(r, f) /\ r.log = o.log
          \/ n = r /\ r.log = whole
      BY <1>3, <3>1 DEF Coalesced
    <3>3. /\ Apply(r, f).log = LastOf(Append(r.log, session.lines + 1), PageLines)
          /\ Apply(r, f).errors = r.errors
      <4>1. Apply(r, f).log = LastOf(Append(r.log, f.line), PageLines)
        BY <1>1, <3>1, ApplyFields
      <4>2. Apply(r, f).errors = r.errors
        <5>1. f.type # "error"
          BY <3>1
        <5> QED BY <1>1, <5>1, ApplyFields
      <4> QED BY <3>1, <4>1, <4>2
    <3>4. o.log \in Seq(Nat)
      BY <1>2 DEF Page
    <3>5. WholeLog(LastOf(Append(o.log, session.lines + 1), PageLines), session.lines + 1)
      BY <1>s, <1>5, <3>4, LineWhole
    <3> QED BY <1>3, <1>4, <1>5, <2>1, <3>2, <3>3, <3>5
  <2>2. CASE /\ f = Error(session'.errors) /\ session'.errors = session.errors + 1
             /\ session'.lines = session.lines
    <3>1. f.type = "error" /\ f.error = session.errors + 1
      BY <2>2 DEF Error
    <3>2. n = Apply(r, f) /\ r.log = o.log
      BY <1>3, <3>1 DEF Coalesced, Folded
    <3>3. /\ Apply(r, f).errors = Append(r.errors, session.errors + 1)
          /\ Apply(r, f).log = r.log
      <4>1. Apply(r, f).errors = Append(r.errors, f.error)
        BY <1>1, <3>1, ApplyFields
      <4>2. Apply(r, f).log = r.log
        <5>1. f.type \notin Folded
          BY <3>1 DEF Folded
        <5> QED BY <1>1, <5>1, ApplyFields
      <4> QED BY <3>1, <4>1, <4>2
    <3>4. o.errors \in Seq(Nat)
      BY <1>2 DEF Page
    <3>5. AllErrors(Append(o.errors, session.errors + 1), before, session.errors + 1)
      BY <1>s, <1>5, <3>4, ErrorsMore
    <3> QED BY <1>3, <1>5, <2>2, <3>2, <3>3, <3>5
  <2>3. CASE f = Analysis /\ session'.lines = session.lines /\ session'.errors = session.errors
    <3>1. f.type = "analysis"
      BY <2>3 DEF Analysis
    <3>2. n = Apply(r, f) /\ (r.log = o.log \/ r.log = whole)
      BY <1>3, <3>1 DEF Folded
    <3>3. Apply(r, f).log = r.log /\ Apply(r, f).errors = r.errors
      BY <1>1, <3>1, ApplyFields DEF Folded
    <3> QED BY <1>3, <1>4, <1>5, <2>3, <3>2, <3>3
  <2> QED BY <2>1, <2>2, <2>3
<1>9. Boards(session') = Boards(session)
  BY DEF Boards
<1> QED BY <1>7, <1>8, <1>9 DEF Good, n, o

-----------------------------------------------------------------------------
(* The invariant.                                                          *)

\* A closed tab has nothing under way; an acknowledgement is owed for every state on the wire;
\* the errors that wait were sent to this tab, and of the thumbnails there is one frame.
WayOk ==
  /\ conn = "closed" => wire = <<>> /\ acks = 0 /\ queue = <<>>
  /\ conn # "closed" => Waiting(wire, {"state"}) + acks <= unacked
  /\ conn = "open" => /\ Waiting(queue, {"error"}) <= session.errors - errorsBefore
                      /\ Waiting(queue, {"thumbnails"}) <= 1
  /\ conn = "overflowed" => session.errors - errorsBefore > 0

DeliveryInv ==
  /\ TypeOK
  /\ SessionOk(session)
  /\ page \in Page
  /\ errorsBefore \in Nat /\ errorsBefore <= session.errors
  /\ WayOk
  /\ conn = "open" => Good(Follows, session, errorsBefore, superseded, outdated)

\* The parts of TypeOK that are not the session's, by the frames there are.
TabOk(frames) ==
  /\ conn \in {"closed", "open", "overflowed"}
  /\ sender \in {"window", "get", "sending", "none"}
  /\ (sender = "none") <=> (conn # "open")
  /\ unacked \in Nat /\ acks \in Nat
  /\ queue \in Seq(frames) /\ wire \in Seq(frames)
  /\ Len(queue) <= QueueSize
  /\ \A t \in Coalesced \cup {"log_history"} : Waiting(queue, {t}) <= 1

LEMMA TypesAre ==
  ASSUME SessionOk(session)
  PROVE  TypeOK <=> TabOk(Frame)
<1>1. session.cursor \in [Boards(session) -> 0 .. MaxCursor]
  BY TilesAre DEF SessionOk, Boards
<1> QED BY <1>1 DEF TypeOK, TabOk, SessionOk

\* The frames a session may have sent.
FramesBy(s) ==
  [type : {"state"}, boards : SUBSET (1 .. MaxBoards), active : 1 .. MaxBoards, drawn : 0 .. MaxCursor]
  \cup [type : {"thumbnails"}, drawn : Tiles]
  \cup {Analysis}
  \cup {LogLine(n) : n \in 1 .. s.lines}
  \cup {Error(n) : n \in 1 .. s.errors}
  \cup [type : {"log_history"}, lines : Seq(1 .. s.lines)]

LEMMA FramesBySession ==
  ASSUME NEW s, SessionOk(s)
  PROVE  /\ FramesBy(s) \subseteq AnyFrame
         /\ StateFrame(s) \in FramesBy(s) /\ Thumbnails(s) \in FramesBy(s)
         /\ LogHistory(s) \in FramesBy(s) /\ Analysis \in FramesBy(s)
<1>0. s.lines \in Nat /\ s.errors \in Nat
  BY DEF SessionOk
<1>1. /\ StateFrame(s) \in FramesBy(s) /\ Thumbnails(s) \in FramesBy(s)
      /\ LogHistory(s) \in FramesBy(s) /\ Analysis \in FramesBy(s)
  BY FramesAre DEF FramesBy
<1>2. ASSUME NEW f \in FramesBy(s) PROVE f \in AnyFrame
  <2>1. CASE f \in [type : {"state"}, boards : SUBSET (1 .. MaxBoards), active : 1 .. MaxBoards,
                    drawn : 0 .. MaxCursor]
    <3>1. f \in [type : {"state"}, boards : SUBSET Nat, active : Nat, drawn : Nat]
      BY <2>1, BoundsAre
    <3> QED BY <3>1 DEF AnyFrame
  <2>2. CASE f \in [type : {"thumbnails"}, drawn : Tiles]
    <3>1. f \in [type : {"thumbnails"}, drawn : Drawings]
      BY <2>2, TilesDrawings
    <3> QED BY <3>1 DEF AnyFrame
  <2>3. CASE f = Analysis
    BY <2>3 DEF AnyFrame
  <2>4. CASE f \in {LogLine(n) : n \in 1 .. s.lines}
    <3>1. f \in [type : {"log"}, line : Nat]
      BY <1>0, <2>4 DEF LogLine
    <3> QED BY <3>1 DEF AnyFrame
  <2>5. CASE f \in {Error(n) : n \in 1 .. s.errors}
    <3>1. f \in [type : {"error"}, error : Nat]
      BY <1>0, <2>5 DEF Error
    <3> QED BY <3>1 DEF AnyFrame
  <2>6. CASE f \in [type : {"log_history"}, lines : Seq(1 .. s.lines)]
    <3>1. f.lines \in Seq(Nat)
      BY <1>0, <2>6
    <3>2. f \in [type : {"log_history"}, lines : Seq(Nat)]
      BY <2>6, <3>1
    <3> QED BY <3>2 DEF AnyFrame
  <2> QED BY <2>1, <2>2, <2>3, <2>4, <2>5, <2>6 DEF FramesBy
<1> QED BY <1>1, <1>2

LEMMA FramesKnown ==
  ASSUME SessionOk(session)
  PROVE  /\ Frame \subseteq AnyFrame
         /\ StateFrame(session) \in Frame /\ Thumbnails(session) \in Frame
         /\ LogHistory(session) \in Frame /\ Analysis \in Frame
<1>1. Frame = FramesBy(session)
  BY DEF Frame, FramesBy, Tiles
<1> QED BY <1>1, FramesBySession

LEMMA FramesNext ==
  ASSUME SessionOk(session')
  PROVE  /\ Frame' \subseteq AnyFrame
         /\ StateFrame(session') \in Frame' /\ Thumbnails(session') \in Frame'
         /\ LogHistory(session') \in Frame' /\ Analysis \in Frame'
<1>1. Frame' = FramesBy(session')
  BY DEF Frame, FramesBy, Tiles
<1> QED BY <1>1, FramesBySession

LEMMA SeqMore ==
  ASSUME NEW S, NEW T, S \subseteq T, NEW q \in Seq(S)
  PROVE  q \in Seq(T)
  OBVIOUS

\* The frames of a session are frames of a later one.
LEMMA FramesStay ==
  ASSUME SessionOk(session), SessionOk(session'), session.lines <= session'.lines,
         session.errors <= session'.errors
  PROVE  Frame \subseteq Frame'
<1>0. /\ session.lines \in Nat /\ session.errors \in Nat
      /\ session'.lines \in Nat /\ session'.errors \in Nat
  BY DEF SessionOk
<1>1. 1 .. session.lines \subseteq 1 .. session'.lines /\ 1 .. session.errors \subseteq 1 .. session'.errors
  BY <1>0
<1>2. {LogLine(n) : n \in 1 .. session.lines} \subseteq {LogLine(n) : n \in 1 .. session'.lines}
  BY <1>1
<1>3. {Error(n) : n \in 1 .. session.errors} \subseteq {Error(n) : n \in 1 .. session'.errors}
  BY <1>1
<1>4. [type : {"log_history"}, lines : Seq(1 .. session.lines)]
        \subseteq [type : {"log_history"}, lines : Seq(1 .. session'.lines)]
  <2>1. Seq(1 .. session.lines) \subseteq Seq(1 .. session'.lines)
    <3> DEFINE A == 1 .. session.lines
               B == 1 .. session'.lines
    <3>1. A \subseteq B
      BY <1>1
    <3> HIDE DEF A, B
    <3>2. Seq(A) \subseteq Seq(B)
      BY <3>1, SeqMore
    <3> QED BY <3>2 DEF A, B
  <2> QED BY <2>1
<1> QED BY <1>2, <1>3, <1>4 DEF Frame

LEMMA LedOn ==
  ASSUME NEW p, NEW w \in Seq(AnyFrame), NEW q \in Seq(AnyFrame)
  PROVE  Applied(p, w \o q) = Applied(Applied(p, w), q)
  BY AppliedConcat

LEMMA SentQueue ==
  ASSUME DeliveryInv, conn = "open", NEW f \in Frame', SessionOk(session'),
         session'.lines >= session.lines, session'.errors >= session.errors,
         f.type # "log_history", Accepts(queue, f), queue' = Put(queue, f)
  PROVE  /\ queue' \in Seq(Frame') /\ Len(queue') <= QueueSize
         /\ \A t \in Coalesced \cup {"log_history"} : Waiting(queue', {t}) <= 1
         /\ \A t \in {"thumbnails", "error"} :
              Waiting(queue', {t}) <= Waiting(queue, {t}) + (IF f.type = t THEN 1 ELSE 0)
<1> DEFINE S == Frame'
<1>0. SessionOk(session) /\ TabOk(Frame)
  BY TypesAre DEF DeliveryInv
<1>1. Frame \subseteq S
  <2>1. session.lines <= session'.lines /\ session.errors <= session'.errors
    BY <1>0 DEF SessionOk
  <2> QED BY <1>0, <2>1, FramesStay
<1>2. queue \in Seq(Frame)
  BY <1>0 DEF TabOk
<1>3. LogHistory(session') \in S
  BY FramesNext
<1> HIDE DEF S
<1>4. queue \in Seq(S)
  BY <1>1, <1>2, SeqMore
<1>5. Len(queue) <= QueueSize /\ \A t \in Coalesced \cup {"log_history"} : Waiting(queue, {t}) <= 1
  BY <1>0 DEF TabOk
<1>6. f \in S
  BY DEF S
<1>7. /\ Put(queue, f) \in Seq(S) /\ Len(Put(queue, f)) <= QueueSize
      /\ \A t \in Coalesced \cup {"log_history"} : Waiting(Put(queue, f), {t}) <= 1
      /\ \A t \in {"thumbnails", "error"} :
           Waiting(Put(queue, f), {t}) <= Waiting(queue, {t}) + (IF f.type = t THEN 1 ELSE 0)
  BY <1>3, <1>4, <1>5, <1>6, PutQueue
<1> QED BY <1>7 DEF S

\* A frame that a tab refuses finds errors waiting, or is one.
LEMMA Refused ==
  ASSUME DeliveryInv, conn = "open", NEW f, ~Accepts(queue, f),
         f.type \in {"state", "analysis", "log", "error"}
  PROVE  f.type = "error" \/ Waiting(queue, {"error"}) > 0
<1> SUFFICES ASSUME f.type # "error" PROVE Waiting(queue, {"error"}) > 0
  OBVIOUS
<1> DEFINE rest == Supersede(queue, f)
<1>1. queue \in Seq(AnyFrame) /\ \A t \in Coalesced : Waiting(queue, {t}) <= 1
  <2>1. queue \in Seq(Frame) /\ Frame \subseteq AnyFrame
    BY FramesKnown DEF DeliveryInv, TypeOK
  <2> QED BY <2>1, SeqMore DEF DeliveryInv, TypeOK
<1>2. rest \in Seq(AnyFrame) /\ \A types : Waiting(rest, types) <= Waiting(queue, types)
  BY <1>1, SupersedeWaiting
<1>3. \A types : Waiting(rest, types) \in Nat /\ Waiting(queue, types) \in Nat
  BY <1>1, <1>2, WaitingNat
<1>4. Len(Without(rest, Folded)) = Waiting(rest, {"state"}) + Waiting(rest, {"analysis"})
                                   + Waiting(rest, {"thumbnails"}) + Waiting(rest, {"error"})
  BY <1>2, FourTypes
<1>5. ~(Len(Without(rest, Folded)) <= QueueSize \div 2)
  <2>1. f.type \in Folding
    BY DEF Folding, Coalesced, Folded
  <2> QED BY <2>1 DEF Accepts, CanFold
<1>6. Waiting(queue, {"state"}) <= 1 /\ Waiting(queue, {"analysis"}) <= 1
      /\ Waiting(queue, {"thumbnails"}) <= 1
  BY <1>1 DEF Coalesced, DeliveryInv, WayOk
<1>7. QueueSize \div 2 \in Nat /\ QueueSize \div 2 >= 3
  BY QueueAssumption
<1>8. /\ Waiting(rest, {"state"}) \in Nat /\ Waiting(rest, {"state"}) <= 1
      /\ Waiting(rest, {"analysis"}) \in Nat /\ Waiting(rest, {"analysis"}) <= 1
      /\ Waiting(rest, {"thumbnails"}) \in Nat /\ Waiting(rest, {"thumbnails"}) <= 1
  <2>1. /\ Waiting(rest, {"state"}) <= Waiting(queue, {"state"})
        /\ Waiting(rest, {"analysis"}) <= Waiting(queue, {"analysis"})
        /\ Waiting(rest, {"thumbnails"}) <= Waiting(queue, {"thumbnails"})
    BY <1>2
  <2> QED BY <1>3, <1>6, <2>1
<1>9. Waiting(rest, {"error"}) \in Nat /\ Waiting(queue, {"error"}) \in Nat
      /\ Waiting(rest, {"error"}) <= Waiting(queue, {"error"})
  BY <1>2, <1>3
<1> HIDE DEF rest
<1> QED BY <1>4, <1>5, <1>7, <1>8, <1>9

LEMMA TypesNext ==
  ASSUME SessionOk(session'),
         conn' \in {"closed", "open", "overflowed"},
         sender' \in {"window", "get", "sending", "none"},
         (sender' = "none") <=> (conn' # "open"),
         unacked' \in Nat, acks' \in Nat,
         queue' \in Seq(Frame'), wire' \in Seq(Frame'),
         Len(queue') <= QueueSize,
         \A t \in Coalesced \cup {"log_history"} : Waiting(queue', {t}) <= 1
  PROVE  TypeOK'
<1>1. session'.cursor \in [Boards(session') -> 0 .. MaxCursor]
  BY TilesAre DEF SessionOk, Boards
<1>2. session'.active \in Boards(session') /\ \A b \in Boards(session') : b < session'.next
  BY DEF SessionOk
<1> QED BY <1>1, <1>2 DEF TypeOK

LEMMA FramesOf ==
  ASSUME DeliveryInv
  PROVE  /\ queue \in Seq(AnyFrame) /\ wire \in Seq(AnyFrame) /\ page \in Page
         /\ Applied(page, wire) \in Page
         /\ Follows = Applied(Applied(page, wire), queue)
<1>1. queue \in Seq(Frame) /\ wire \in Seq(Frame) /\ Frame \subseteq AnyFrame /\ page \in Page
  BY FramesKnown DEF DeliveryInv, TypeOK
<1>2. queue \in Seq(AnyFrame) /\ wire \in Seq(AnyFrame)
  BY <1>1, SeqMore
<1> QED BY <1>1, <1>2, LedOn, AppliedPage DEF Follows

LEMMA FramesKept ==
  ASSUME DeliveryInv, SessionOk(session'), session'.lines >= session.lines,
         session'.errors >= session.errors
  PROVE  queue \in Seq(Frame') /\ wire \in Seq(Frame')
<1> DEFINE S == Frame'
<1>1. Frame \subseteq S
  <2>1. session.lines <= session'.lines /\ session.errors <= session'.errors
    BY DEF DeliveryInv, SessionOk
  <2> QED BY <2>1, FramesStay DEF DeliveryInv
<1>2. queue \in Seq(Frame) /\ wire \in Seq(Frame)
  BY DEF DeliveryInv, TypeOK
<1> HIDE DEF S
<1>3. queue \in Seq(S) /\ wire \in Seq(S)
  BY <1>1, <1>2, SeqMore
<1> QED BY <1>3 DEF S

\* A broadcast keeps the invariant, if a tab that takes the frame is led on to the session.
LEMMA SentInv ==
  ASSUME DeliveryInv, NEW f \in Frame', SessionOk(session'),
         session'.lines >= session.lines, session'.errors >= session.errors,
         f.type \in {"state", "analysis", "log", "error"},
         f.type = "error" => session'.errors = session.errors + 1,
         Broadcast(f), SessionSteps,
         conn = "open" /\ Accepts(queue, f) =>
           Good(Applied(Applied(page, wire), Put(queue, f)), session', errorsBefore,
                superseded \/ (f.type = "state" /\ Waiting(queue, {"state"}) > 0),
                IF f.type = "state" THEN outdated \ {f.active} ELSE outdated)
  PROVE  DeliveryInv'
<1>0. /\ SessionOk(session) /\ TypeOK /\ WayOk /\ page \in Page
      /\ errorsBefore \in Nat /\ errorsBefore <= session.errors
  BY DEF DeliveryInv
<1>1. session.errors \in Nat /\ session'.errors \in Nat /\ session.lines \in Nat /\ session'.lines \in Nat
  BY <1>0 DEF SessionOk
<1>2. wire' = wire /\ acks' = acks /\ page' = page /\ errorsBefore' = errorsBefore
  BY DEF SessionSteps
<1>3. wire' \in Seq(Frame') /\ queue \in Seq(Frame')
  BY <1>2, FramesKept
<1>4. /\ page' \in Page
      /\ errorsBefore' \in Nat /\ errorsBefore' <= session'.errors
  BY <1>0, <1>1, <1>2
<1>5. /\ acks' \in Nat /\ acks \in Nat /\ unacked \in Nat
  BY <1>0, <1>2 DEF TypeOK
<1>6. CASE conn # "open"
  <2>1. queue' = queue /\ sender' = sender /\ unacked' = unacked /\ conn' = conn
    BY <1>6 DEF Broadcast, tab
  <2>2. queue' \in Seq(Frame')
    BY <1>3, <2>1
  <2>3. TypeOK'
    <3>1. /\ conn' \in {"closed", "open", "overflowed"}
          /\ sender' \in {"window", "get", "sending", "none"}
          /\ (sender' = "none") <=> (conn' # "open")
          /\ Len(queue') <= QueueSize
          /\ \A t \in Coalesced \cup {"log_history"} : Waiting(queue', {t}) <= 1
          /\ unacked' \in Nat
      BY <1>0, <2>1 DEF TypeOK
    <3> QED BY <1>3, <1>5, <2>2, <3>1, TypesNext
  <2>4. WayOk'
    <3>1. conn' = "closed" => wire' = <<>> /\ acks' = 0 /\ queue' = <<>>
      BY <1>0, <1>2, <2>1 DEF WayOk
    <3>2. conn' # "closed" => Waiting(wire', {"state"}) + acks' <= unacked'
      BY <1>0, <1>2, <2>1 DEF WayOk
    <3>3. conn' = "overflowed" => session'.errors - errorsBefore' > 0
      <4>1. conn' = "overflowed" => session.errors - errorsBefore > 0
        BY <1>0, <2>1 DEF WayOk
      <4> QED BY <1>0, <1>1, <1>2, <4>1
    <3> QED BY <1>6, <2>1, <3>1, <3>2, <3>3 DEF WayOk
  <2> QED BY <1>4, <1>6, <2>1, <2>3, <2>4 DEF DeliveryInv
<1>7. CASE conn = "open" /\ Accepts(queue, f)
  <2>1. /\ queue' = Put(queue, f) /\ sender' = sender /\ unacked' = unacked /\ conn' = conn
        /\ superseded' = (superseded \/ (f.type = "state" /\ Waiting(queue, {"state"}) > 0))
        /\ outdated' = (IF f.type = "state" THEN outdated \ {f.active} ELSE outdated)
    BY <1>7 DEF Broadcast
  <2>2. /\ queue' \in Seq(Frame') /\ Len(queue') <= QueueSize
        /\ \A t \in Coalesced \cup {"log_history"} : Waiting(queue', {t}) <= 1
        /\ \A t \in {"thumbnails", "error"} :
             Waiting(queue', {t}) <= Waiting(queue, {t}) + (IF f.type = t THEN 1 ELSE 0)
    BY <1>7, <2>1, SentQueue
  <2>3. TypeOK'
    <3>1. /\ conn' \in {"closed", "open", "overflowed"}
          /\ sender' \in {"window", "get", "sending", "none"}
          /\ (sender' = "none") <=> (conn' # "open")
          /\ unacked' \in Nat
      BY <1>0, <2>1 DEF TypeOK
    <3> QED BY <1>3, <1>5, <2>2, <3>1, TypesNext
  <2>4. WayOk'
    <3>1. Waiting(wire', {"state"}) + acks' <= unacked'
      BY <1>0, <1>2, <1>7, <2>1 DEF WayOk
    <3>2. Waiting(queue', {"error"}) <= session'.errors - errorsBefore'
      <4>1. Waiting(queue, {"error"}) <= session.errors - errorsBefore
        BY <1>0, <1>7 DEF WayOk
      <4>2. Waiting(queue', {"error"}) <= Waiting(queue, {"error"}) + (IF f.type = "error" THEN 1 ELSE 0)
        BY <2>2
      <4>3. queue \in Seq(AnyFrame) /\ queue' \in Seq(Frame')
        BY <2>2, FramesOf
      <4>4. Waiting(queue, {"error"}) \in Nat
        BY <4>3, WaitingNat
      <4>5. Waiting(queue', {"error"}) \in Nat
        BY <4>3, WaitingNat
      <4> QED BY <1>0, <1>1, <1>2, <4>1, <4>2, <4>4, <4>5
    <3>3. Waiting(queue', {"thumbnails"}) <= 1
      <4>1. Waiting(queue, {"thumbnails"}) <= 1
        BY <1>0, <1>7 DEF WayOk
      <4>2. Waiting(queue', {"thumbnails"}) <= Waiting(queue, {"thumbnails"}) + (IF f.type = "thumbnails" THEN 1 ELSE 0)
        BY <2>2
      <4>3. f.type # "thumbnails"
        OBVIOUS
      <4>4. queue \in Seq(AnyFrame) /\ queue' \in Seq(Frame')
        BY <2>2, FramesOf
      <4>5. Waiting(queue, {"thumbnails"}) \in Nat
        BY <4>4, WaitingNat
      <4>6. Waiting(queue', {"thumbnails"}) \in Nat
        BY <4>4, WaitingNat
      <4> QED BY <4>1, <4>2, <4>3, <4>5, <4>6
    <3> QED BY <1>7, <2>1, <3>1, <3>2, <3>3 DEF WayOk
  <2>5. Good(Follows', session', errorsBefore', superseded', outdated')
    <3>1. Follows' = Applied(Applied(page, wire), Put(queue, f))
      <4>1. wire \in Seq(AnyFrame)
        BY FramesOf
      <4>2. queue' \in Seq(AnyFrame)
        <5>1. Frame' \subseteq AnyFrame
          BY FramesNext
        <5> DEFINE S == Frame'
        <5>2. S \subseteq AnyFrame /\ queue' \in Seq(S)
          BY <2>2, <5>1
        <5> HIDE DEF S
        <5> QED BY <5>2, SeqMore
      <4>3. Applied(page, wire \o queue') = Applied(Applied(page, wire), queue')
        BY <4>1, <4>2, LedOn
      <4> QED BY <1>2, <2>1, <4>3 DEF Follows
    <3>2. Good(Follows', session', errorsBefore,
               superseded \/ (f.type = "state" /\ Waiting(queue, {"state"}) > 0),
               IF f.type = "state" THEN outdated \ {f.active} ELSE outdated)
      BY <1>7, <3>1
    <3> QED BY <1>2, <2>1, <3>2 DEF Good
  <2> QED BY <1>4, <2>3, <2>4, <2>5 DEF DeliveryInv
<1>8. CASE conn = "open" /\ ~Accepts(queue, f)
  <2>1. /\ queue' = queue /\ sender' = "none" /\ unacked' = unacked /\ conn' = "overflowed"
    BY <1>8 DEF Broadcast
  <2>2. queue' \in Seq(Frame')
    BY <1>3, <2>1
  <2>3. TypeOK'
    <3>1. /\ Len(queue') <= QueueSize
          /\ \A t \in Coalesced \cup {"log_history"} : Waiting(queue', {t}) <= 1
          /\ unacked' \in Nat
      BY <1>0, <2>1 DEF TypeOK
    <3> QED BY <1>3, <1>5, <2>1, <2>2, <3>1, TypesNext
  <2>4. WayOk'
    <3>1. Waiting(wire', {"state"}) + acks' <= unacked'
      BY <1>0, <1>2, <1>8, <2>1 DEF WayOk
    <3>2. session'.errors - errorsBefore' > 0
      <4>1. f.type = "error" \/ Waiting(queue, {"error"}) > 0
        BY <1>8, Refused
      <4>2. Waiting(queue, {"error"}) <= session.errors - errorsBefore
        BY <1>0, <1>8 DEF WayOk
      <4>3. queue \in Seq(AnyFrame)
        BY FramesOf
      <4>4. Waiting(queue, {"error"}) \in Nat
        BY <4>3, WaitingNat
      <4> QED BY <1>0, <1>1, <1>2, <4>1, <4>2, <4>4
    <3> QED BY <2>1, <3>1, <3>2 DEF WayOk
  <2> QED BY <1>4, <2>1, <2>3, <2>4 DEF DeliveryInv
<1> QED BY <1>6, <1>7, <1>8

-----------------------------------------------------------------------------
(* The session's steps.                                                    *)

LEMMA EditInv ==
  ASSUME DeliveryInv, NEW s, SessionOk(s), EditOk(session, s), Edit(s)
  PROVE  DeliveryInv'
<1> DEFINE f == StateFrame(session')
<1>1. session' = s /\ Broadcast(StateFrame(s)) /\ SessionSteps
  BY DEF Edit
<1>2. SessionOk(session) /\ SessionOk(session') /\ EditOk(session, session')
  BY <1>1 DEF DeliveryInv
<1>3. session'.lines >= session.lines /\ session'.errors >= session.errors
  BY <1>2 DEF EditOk, SessionOk
<1>4. f \in Frame' /\ f.type = "state" /\ f.active = session'.active /\ Broadcast(f)
  BY <1>1, <1>2, FramesNext DEF StateFrame
<1>5. conn = "open" /\ Accepts(queue, f) =>
        Good(Applied(Applied(page, wire), Put(queue, f)), session', errorsBefore,
             superseded \/ Waiting(queue, {"state"}) > 0, outdated \ {session'.active})
  <2> SUFFICES ASSUME conn = "open", Accepts(queue, f)
               PROVE  Good(Applied(Applied(page, wire), Put(queue, f)), session', errorsBefore,
                           superseded \/ Waiting(queue, {"state"}) > 0, outdated \ {session'.active})
    OBVIOUS
  <2>1. Good(Applied(Applied(page, wire), queue), session, errorsBefore, superseded, outdated)
    BY FramesOf DEF DeliveryInv
  <2>2. Applied(page, wire) \in Page /\ queue \in Seq(AnyFrame)
    BY FramesOf
  <2> QED BY <1>2, <2>1, <2>2, StateLeads
<1>6. conn = "open" /\ Accepts(queue, f) =>
        Good(Applied(Applied(page, wire), Put(queue, f)), session', errorsBefore,
             superseded \/ (f.type = "state" /\ Waiting(queue, {"state"}) > 0),
             IF f.type = "state" THEN outdated \ {f.active} ELSE outdated)
  BY <1>4, <1>5 DEF Good
<1> HIDE DEF f
<1> QED BY <1>1, <1>2, <1>3, <1>4, <1>6, SentInv

\* The session with other boards.
With(c, a, n) == [session EXCEPT !.cursor = c, !.active = a, !.next = n]

LEMMA SessionWith ==
  ASSUME SessionOk(session), NEW c \in Tiles, NEW a \in DOMAIN c, NEW n \in 1 .. MaxBoards + 1,
         \A b \in DOMAIN c : b < n
  PROVE  LET s == With(c, a, n)
         IN /\ SessionOk(s) /\ s.cursor = c /\ s.active = a /\ Boards(s) = DOMAIN c
            /\ s.lines = session.lines /\ s.errors = session.errors
<1> DEFINE s == With(c, a, n)
<1>1. a \in 1 .. MaxBoards
  BY TilesAre
<1>2. s \in [cursor : Tiles, active : 1 .. MaxBoards, next : 1 .. MaxBoards + 1,
             lines : Nat, errors : Nat]
  BY <1>1 DEF SessionOk, With
<1>3. /\ s.cursor = c /\ s.active = a /\ s.next = n
      /\ s.lines = session.lines /\ s.errors = session.errors
  BY DEF SessionOk, With
<1> HIDE DEF s
<1> QED BY <1>2, <1>3 DEF SessionOk, Boards, s

LEMMA MoveInv == DeliveryInv /\ Move => DeliveryInv'
<1> SUFFICES ASSUME DeliveryInv, Move PROVE DeliveryInv'
  OBVIOUS
<1> DEFINE a == session.active
<1>1. PICK c \in 0 .. MaxCursor : Edit([session EXCEPT !.cursor[a] = c])
  BY DEF Move
<1> DEFINE s == [session EXCEPT !.cursor[a] = c]
           k == [session.cursor EXCEPT ![a] = c]
<1>2. SessionOk(session) /\ a \in Boards(session) /\ session.cursor \in Tiles
      /\ session.next \in 1 .. MaxBoards + 1 /\ \A b \in Boards(session) : b < session.next
  BY DEF DeliveryInv, SessionOk
<1>3. k \in Tiles /\ DOMAIN k = Boards(session)
      /\ \A b \in Boards(session) : b # a => k[b] = session.cursor[b]
  BY <1>2, TilesAre DEF Boards
<1>4. s = With(k, a, session.next)
  BY <1>2 DEF SessionOk, With
<1> HIDE DEF s, k, a
<1>5. SessionOk(s) /\ s.cursor = k /\ s.active = a /\ Boards(s) = DOMAIN k
      /\ s.lines = session.lines /\ s.errors = session.errors
  <2>1. a \in DOMAIN k /\ \A b \in DOMAIN k : b < session.next
    BY <1>2, <1>3 DEF a
  <2> QED BY <1>2, <1>3, <1>4, <2>1, SessionWith
<1>6. EditOk(session, s)
  BY <1>3, <1>5 DEF EditOk
<1>7. Edit(s)
  BY <1>1 DEF s
<1> QED BY <1>5, <1>6, <1>7, EditInv

LEMMA BoardSelectInv == DeliveryInv /\ BoardSelect => DeliveryInv'
<1> SUFFICES ASSUME DeliveryInv, BoardSelect PROVE DeliveryInv'
  OBVIOUS
<1>1. PICK a \in Boards(session) : Edit([session EXCEPT !.active = a])
  BY DEF BoardSelect
<1> DEFINE s == [session EXCEPT !.active = a]
           k == session.cursor
<1>2. SessionOk(session) /\ k \in Tiles /\ DOMAIN k = Boards(session)
      /\ session.next \in 1 .. MaxBoards + 1 /\ \A b \in Boards(session) : b < session.next
  BY DEF DeliveryInv, SessionOk, Boards
<1>3. s = With(k, a, session.next)
  BY <1>2 DEF SessionOk, With
<1>4. SessionOk(s) /\ s.cursor = k /\ s.active = a /\ Boards(s) = DOMAIN k
      /\ s.lines = session.lines /\ s.errors = session.errors
  <2>1. a \in DOMAIN k /\ \A b \in DOMAIN k : b < session.next
    BY <1>2
  <2> QED BY <1>2, <1>3, <2>1, SessionWith
<1>5. EditOk(session, s)
  BY <1>2, <1>4 DEF EditOk
<1> QED BY <1>1, <1>4, <1>5, EditInv

LEMMA AnnounceInv == DeliveryInv /\ Announce => DeliveryInv'
<1> SUFFICES ASSUME DeliveryInv, Announce PROVE DeliveryInv'
  OBVIOUS
<1>1. SessionOk(session) /\ EditOk(session, session) /\ Edit(session)
  BY DEF DeliveryInv, EditOk, Announce
<1> QED BY <1>1, EditInv

LEMMA OpenInv ==
  ASSUME DeliveryInv, NEW cursor \in 0 .. MaxCursor, Open(cursor)
  PROVE  DeliveryInv'
<1> DEFINE a == session.next
           k == [b \in Boards(session) \cup {a} |-> IF b = a THEN cursor ELSE session.cursor[b]]
           s == [session EXCEPT !.cursor = [b \in Boards(session) \cup {a} |->
                                              IF b = a THEN cursor ELSE @[b]],
                                !.active = a, !.next = @ + 1]
<1>1. SessionOk(session) /\ session.cursor \in Tiles /\ a <= MaxBoards
      /\ a \in 1 .. MaxBoards + 1 /\ \A b \in Boards(session) : b < a
  BY DEF DeliveryInv, SessionOk, Open
<1>2. a \in 1 .. MaxBoards /\ a + 1 \in 1 .. MaxBoards + 1
  BY <1>1, BoundsAre
<1>3. /\ session.cursor \in [Boards(session) -> 0 .. MaxCursor]
      /\ Boards(session) \subseteq 1 .. MaxBoards
  BY <1>1, TilesAre DEF Boards
<1>4. DOMAIN k = Boards(session) \cup {a} /\ k \in [DOMAIN k -> 0 .. MaxCursor]
  BY <1>3
<1>5. k \in Tiles
  <2>1. DOMAIN k \subseteq 1 .. MaxBoards
    BY <1>2, <1>3, <1>4
  <2> QED BY <1>4, <2>1, TilesAre
<1>6. \A b \in DOMAIN k : b < a + 1
  BY <1>1, <1>2, <1>3, <1>4, BoundsAre
<1>7. s = With(k, a, a + 1)
  BY <1>1 DEF SessionOk, With
<1>8. \A b \in Boards(session) : b # a => k[b] = session.cursor[b]
  OBVIOUS
<1>9. Edit(s)
  BY DEF Open
<1> HIDE DEF s, k, a
<1>10. SessionOk(s) /\ s.cursor = k /\ s.active = a /\ Boards(s) = DOMAIN k
       /\ s.lines = session.lines /\ s.errors = session.errors
  <2>1. a \in DOMAIN k
    BY <1>4
  <2> QED BY <1>1, <1>2, <1>5, <1>6, <1>7, <2>1, SessionWith
<1>11. EditOk(session, s)
  BY <1>4, <1>8, <1>10 DEF EditOk
<1> QED BY <1>9, <1>10, <1>11, EditInv

LEMMA BoardNewInv == DeliveryInv /\ BoardNew => DeliveryInv'
<1> SUFFICES ASSUME DeliveryInv, BoardNew PROVE DeliveryInv'
  OBVIOUS
<1>1. 0 \in 0 .. MaxCursor /\ Open(0)
  BY BoundsAre DEF BoardNew
<1> QED BY <1>1, OpenInv

LEMMA BoardDuplicateInv == DeliveryInv /\ BoardDuplicate => DeliveryInv'
<1> SUFFICES ASSUME DeliveryInv, BoardDuplicate PROVE DeliveryInv'
  OBVIOUS
<1>1. PICK b \in Boards(session) : Open(session.cursor[b])
  BY DEF BoardDuplicate
<1>2. session.cursor \in [Boards(session) -> 0 .. MaxCursor]
  BY TilesAre DEF DeliveryInv, SessionOk, Boards
<1>3. session.cursor[b] \in 0 .. MaxCursor
  BY <1>2
<1> QED BY <1>1, <1>3, OpenInv

LEMMA BoardDeleteInv == DeliveryInv /\ BoardDelete => DeliveryInv'
<1> SUFFICES ASSUME DeliveryInv, BoardDelete PROVE DeliveryInv'
  OBVIOUS
<1>1. /\ SessionOk(session) /\ session.cursor \in Tiles /\ session.active \in Boards(session)
      /\ session.next \in 1 .. MaxBoards + 1 /\ \A b \in Boards(session) : b < session.next
  BY DEF DeliveryInv, SessionOk
<1>2. /\ session.cursor \in [Boards(session) -> 0 .. MaxCursor]
      /\ Boards(session) \subseteq 1 .. MaxBoards
  BY <1>1, TilesAre DEF Boards
<1>3. PICK d \in Boards(session) :
        LET left == Boards(session) \ {d}
        IN \/ left = {} /\ Edit([session EXCEPT !.cursor[d] = 0])
           \/ \E a \in (IF d = session.active THEN left ELSE {session.active}) :
                Edit([session EXCEPT !.cursor = [o \in left |-> @[o]], !.active = a])
  BY DEF BoardDelete
<1> DEFINE left == Boards(session) \ {d}
<1>4. CASE left = {} /\ Edit([session EXCEPT !.cursor[d] = 0])
  <2> DEFINE s == [session EXCEPT !.cursor[d] = 0]
             k == [session.cursor EXCEPT ![d] = 0]
  <2>1. d = session.active
    BY <1>1, <1>4
  <2>2. k \in Tiles /\ DOMAIN k = Boards(session)
        /\ \A b \in Boards(session) : b # d => k[b] = session.cursor[b]
    <3>1. DOMAIN k = Boards(session) /\ k \in [DOMAIN k -> 0 .. MaxCursor]
      BY <1>2, BoundsAre
    <3>2. k \in Tiles
      BY <1>2, <3>1, TilesAre
    <3> QED BY <1>2, <3>1, <3>2
  <2>3. s = With(k, session.active, session.next)
    BY <1>1 DEF SessionOk, With
  <2>4. Edit(s)
    BY <1>4
  <2> HIDE DEF s, k
  <2>5. SessionOk(s) /\ s.cursor = k /\ s.active = session.active /\ Boards(s) = DOMAIN k
        /\ s.lines = session.lines /\ s.errors = session.errors
    <3>1. session.active \in DOMAIN k /\ \A b \in DOMAIN k : b < session.next
      BY <1>1, <2>2
    <3> QED BY <1>1, <2>2, <2>3, <3>1, SessionWith
  <2>6. EditOk(session, s)
    BY <2>1, <2>2, <2>5 DEF EditOk
  <2> QED BY <2>4, <2>5, <2>6, EditInv
<1>5. CASE \E a \in (IF d = session.active THEN left ELSE {session.active}) :
             Edit([session EXCEPT !.cursor = [o \in left |-> @[o]], !.active = a])
  <2>1. PICK a \in (IF d = session.active THEN left ELSE {session.active}) :
          Edit([session EXCEPT !.cursor = [o \in left |-> @[o]], !.active = a])
    BY <1>5
  <2> DEFINE s == [session EXCEPT !.cursor = [o \in left |-> @[o]], !.active = a]
             k == [o \in left |-> session.cursor[o]]
  <2>2. a \in left
    BY <1>1, <2>1
  <2>3. DOMAIN k = left /\ k \in Tiles /\ \A b \in left : k[b] = session.cursor[b]
    <3>1. DOMAIN k = left /\ k \in [left -> 0 .. MaxCursor] /\ left \subseteq 1 .. MaxBoards
      BY <1>2
    <3> HIDE DEF k
    <3>2. k \in Tiles
      BY <3>1, TilesAre
    <3> QED BY <3>1, <3>2 DEF k
  <2>4. s = With(k, a, session.next)
    BY <1>1 DEF SessionOk, With
  <2>5. Edit(s)
    BY <2>1
  <2> HIDE DEF s, k
  <2>6. SessionOk(s) /\ s.cursor = k /\ s.active = a /\ Boards(s) = DOMAIN k
        /\ s.lines = session.lines /\ s.errors = session.errors
    <3>1. a \in DOMAIN k /\ \A b \in DOMAIN k : b < session.next
      BY <1>1, <2>2, <2>3
    <3> QED BY <1>1, <2>3, <2>4, <3>1, SessionWith
  <2>7. EditOk(session, s)
    BY <2>3, <2>6 DEF EditOk
  <2> QED BY <2>5, <2>6, <2>7, EditInv
<1> QED BY <1>3, <1>4, <1>5

\* A session that goes on with its boards as they are.
LEMMA OtherInv ==
  ASSUME DeliveryInv, SessionOk(session'), NEW f \in Frame', Broadcast(f), SessionSteps,
         session'.cursor = session.cursor, session'.active = session.active,
         \/ f = LogLine(session'.lines) /\ session'.lines = session.lines + 1
              /\ session'.errors = session.errors
         \/ f = Error(session'.errors) /\ session'.errors = session.errors + 1
              /\ session'.lines = session.lines
         \/ f = Analysis /\ session'.lines = session.lines /\ session'.errors = session.errors
  PROVE  DeliveryInv'
<1>1. SessionOk(session) /\ errorsBefore \in Nat /\ errorsBefore <= session.errors
      /\ session.lines \in Nat /\ session.errors \in Nat
  BY DEF DeliveryInv, SessionOk
<1>2. session'.lines >= session.lines /\ session'.errors >= session.errors
  BY <1>1
<1>3. f.type \in {"state", "analysis", "log", "error"} /\ f.type # "state"
      /\ (f.type = "error" => session'.errors = session.errors + 1)
  BY DEF LogLine, Error, Analysis
<1>4. conn = "open" /\ Accepts(queue, f) =>
        Good(Applied(Applied(page, wire), Put(queue, f)), session', errorsBefore, superseded, outdated)
  <2> SUFFICES ASSUME conn = "open", Accepts(queue, f)
               PROVE  Good(Applied(Applied(page, wire), Put(queue, f)), session', errorsBefore, superseded, outdated)
    OBVIOUS
  <2>1. Good(Applied(Applied(page, wire), queue), session, errorsBefore, superseded, outdated)
    BY FramesOf DEF DeliveryInv
  <2>2. Applied(page, wire) \in Page /\ queue \in Seq(AnyFrame)
    BY FramesOf
  <2> QED BY <1>1, <2>1, <2>2, OtherLeads
<1>5. conn = "open" /\ Accepts(queue, f) =>
        Good(Applied(Applied(page, wire), Put(queue, f)), session', errorsBefore,
             superseded \/ (f.type = "state" /\ Waiting(queue, {"state"}) > 0),
             IF f.type = "state" THEN outdated \ {f.active} ELSE outdated)
  BY <1>3, <1>4 DEF Good
<1> QED BY <1>2, <1>3, <1>5, SentInv

LEMMA RecordLogInv == DeliveryInv /\ RecordLog => DeliveryInv'
<1> SUFFICES ASSUME DeliveryInv, RecordLog PROVE DeliveryInv'
  OBVIOUS
<1>1. /\ session' = [session EXCEPT !.lines = @ + 1] /\ SessionSteps
      /\ Broadcast(LogLine(session'.lines))
  BY DEF RecordLog
<1>2. SessionOk(session)
  BY DEF DeliveryInv
<1>3. /\ session'.cursor = session.cursor /\ session'.active = session.active
      /\ session'.next = session.next
      /\ session'.lines = session.lines + 1 /\ session'.errors = session.errors
  BY <1>1, <1>2 DEF SessionOk
<1>4. session' \in [cursor : Tiles, active : 1 .. MaxBoards, next : 1 .. MaxBoards + 1,
                    lines : Nat, errors : Nat]
  BY <1>1, <1>2 DEF SessionOk
<1>5. SessionOk(session')
  BY <1>2, <1>3, <1>4 DEF SessionOk, Boards
<1>6. LogLine(session'.lines) \in Frame'
  <2>1. session'.lines \in 1 .. session'.lines
    BY <1>2, <1>3 DEF SessionOk
  <2> QED BY <2>1 DEF Frame
<1> QED BY <1>1, <1>3, <1>5, <1>6, OtherInv

LEMMA FailInv == DeliveryInv /\ Fail => DeliveryInv'
<1> SUFFICES ASSUME DeliveryInv, Fail PROVE DeliveryInv'
  OBVIOUS
<1>1. /\ session' = [session EXCEPT !.errors = @ + 1] /\ SessionSteps
      /\ Broadcast(Error(session'.errors))
  BY DEF Fail
<1>2. SessionOk(session)
  BY DEF DeliveryInv
<1>3. /\ session'.cursor = session.cursor /\ session'.active = session.active
      /\ session'.next = session.next
      /\ session'.lines = session.lines /\ session'.errors = session.errors + 1
  BY <1>1, <1>2 DEF SessionOk
<1>4. session' \in [cursor : Tiles, active : 1 .. MaxBoards, next : 1 .. MaxBoards + 1,
                    lines : Nat, errors : Nat]
  BY <1>1, <1>2 DEF SessionOk
<1>5. SessionOk(session')
  BY <1>2, <1>3, <1>4 DEF SessionOk, Boards
<1>6. Error(session'.errors) \in Frame'
  <2>1. session'.errors \in 1 .. session'.errors
    BY <1>2, <1>3 DEF SessionOk
  <2> QED BY <2>1 DEF Frame
<1> QED BY <1>1, <1>3, <1>5, <1>6, OtherInv

LEMMA ReportInv == DeliveryInv /\ Report => DeliveryInv'
<1> SUFFICES ASSUME DeliveryInv, Report PROVE DeliveryInv'
  OBVIOUS
<1>1. session' = session /\ SessionSteps /\ Broadcast(Analysis)
  BY DEF Report
<1>2. SessionOk(session')
  BY <1>1 DEF DeliveryInv
<1>3. Analysis \in Frame'
  BY <1>2, FramesNext
<1> QED BY <1>1, <1>2, <1>3, OtherInv

-----------------------------------------------------------------------------
(* The sender, the page and the socket.                                    *)

LEMMA TailIs ==
  ASSUME NEW S, NEW q \in Seq(S), q # <<>>
  PROVE  /\ Head(q) \in S /\ Tail(q) \in Seq(S) /\ q = <<Head(q)>> \o Tail(q)
         /\ Len(Tail(q)) <= Len(q)
         /\ \A types : /\ Waiting(Tail(q), types) \in Nat
                       /\ Waiting(q, types) = Waiting(Tail(q), types)
                                              + (IF Head(q).type \in types THEN 1 ELSE 0)
<1> DEFINE h == Head(q)
           t == Tail(q)
<1>1. h \in S /\ t \in Seq(S) /\ Len(t) = Len(q) - 1 /\ \A i \in 1 .. Len(t) : t[i] = q[i + 1]
  BY HeadTailProperties
<1>2. Len(q) \in Nat /\ Len(q) >= 1 /\ h = q[1]
  BY LenProperties
<1>3. <<h>> \in Seq(S) /\ Len(<<h>>) = 1 /\ <<h>>[1] = h
  BY <1>1
<1> HIDE DEF h, t
<1>4. q = <<h>> \o t
  <2> DEFINE u == <<h>> \o t
  <2>1. /\ u \in Seq(S) /\ Len(u) = 1 + Len(t)
        /\ \A i \in 1 .. 1 + Len(t) : u[i] = IF i <= 1 THEN <<h>>[i] ELSE t[i - 1]
    BY <1>1, <1>3, ConcatProperties
  <2> HIDE DEF u
  <2>2. Len(u) = Len(q)
    BY <1>1, <1>2, <2>1
  <2>3. ASSUME NEW i \in 1 .. Len(q) PROVE q[i] = u[i]
    <3>1. CASE i = 1
      BY <1>1, <1>2, <1>3, <2>1, <3>1
    <3>2. CASE i # 1
      <4>1. i - 1 \in 1 .. Len(t) /\ (i - 1) + 1 = i /\ i \in 1 .. 1 + Len(t) /\ ~(i <= 1)
        BY <1>1, <1>2, <3>2
      <4>2. q[i] = t[i - 1]
        BY <1>1, <4>1
      <4> QED BY <2>1, <4>1, <4>2
    <3> QED BY <3>1, <3>2
  <2>4. q = u
    BY <2>1, <2>2, <2>3, SeqEqual
  <2> QED BY <2>4 DEF u
<1>5. ASSUME NEW types
      PROVE  /\ Waiting(t, types) \in Nat
             /\ Waiting(q, types) = Waiting(t, types) + (IF h.type \in types THEN 1 ELSE 0)
  <2>1. Waiting(<<h>> \o t, types) = Waiting(<<h>>, types) + Waiting(t, types)
    BY <1>1, <1>3, WaitingConcat
  <2>2. Waiting(<<h>>, types) = IF h.type \in types THEN 1 ELSE 0
    BY WaitingOne
  <2>3. Waiting(t, types) \in Nat
    BY <1>1, WaitingNat
  <2>4. Waiting(q, types) = Waiting(<<h>> \o t, types)
    BY <1>4
  <2> QED BY <2>1, <2>2, <2>3, <2>4
<1>6. Len(t) <= Len(q)
  BY <1>1, <1>2
<1> QED BY <1>1, <1>4, <1>5, <1>6 DEF h, t

\* Taking the oldest frame of the queue to the wire moves the frames along.
LEMMA TakenIs ==
  ASSUME NEW S, NEW w \in Seq(S), NEW q \in Seq(S), q # <<>>
  PROVE  Append(w, Head(q)) \in Seq(S) /\ Append(w, Head(q)) \o Tail(q) = w \o q
<1> DEFINE h == Head(q)
           t == Tail(q)
<1>1. h \in S /\ t \in Seq(S) /\ q = <<h>> \o t
  BY TailIs
<1> HIDE DEF h, t
<1>2. <<h>> \in Seq(S) /\ Append(w, h) = w \o <<h>> /\ Append(w, h) \in Seq(S)
  BY <1>1, AppendIsConcat, AppendProperties
<1>3. (w \o <<h>>) \o t = w \o (<<h>> \o t)
  BY <1>1, <1>2, ConcatAssociative
<1>4. Append(w, h) \o t = w \o q
  BY <1>1, <1>2, <1>3
<1> QED BY <1>2, <1>4 DEF h, t

LEMMA SameSession ==
  ASSUME DeliveryInv, session' = session, page' \in Page, errorsBefore' = errorsBefore,
         conn' \in {"closed", "open", "overflowed"},
         sender' \in {"window", "get", "sending", "none"},
         (sender' = "none") <=> (conn' # "open"),
         unacked' \in Nat, acks' \in Nat,
         queue' \in Seq(Frame), wire' \in Seq(Frame),
         Len(queue') <= QueueSize,
         \A t \in Coalesced \cup {"log_history"} : Waiting(queue', {t}) <= 1,
         WayOk', conn' = "open" => Good(Follows', session, errorsBefore, superseded', outdated')
  PROVE  DeliveryInv'
<1>1. Frame' = Frame
  BY DEF Frame
<1>2. SessionOk(session') /\ errorsBefore' \in Nat /\ errorsBefore' <= session'.errors
  BY DEF DeliveryInv
<1>3. TypeOK'
  BY <1>1, <1>2, TypesNext
<1>4. conn' = "open" => Good(Follows', session', errorsBefore', superseded', outdated')
  OBVIOUS
<1> QED BY <1>2, <1>3, <1>4 DEF DeliveryInv

LEMMA TakeInv ==
  ASSUME DeliveryInv, conn = "open", queue # <<>>, TakeNext, SenderSteps
  PROVE  DeliveryInv'
<1> DEFINE h == Head(queue)
<1>1. /\ queue' = Tail(queue) /\ wire' = Append(wire, h) /\ sender' = "sending"
      /\ unacked' = (IF h.type = "state" THEN unacked + 1 ELSE unacked)
      /\ session' = session /\ conn' = conn /\ acks' = acks /\ page' = page
      /\ superseded' = superseded /\ outdated' = outdated /\ errorsBefore' = errorsBefore
  BY DEF TakeNext, SenderSteps, past
<1>2. /\ TypeOK /\ WayOk /\ queue \in Seq(Frame) /\ wire \in Seq(Frame) /\ page \in Page
      /\ unacked \in Nat /\ acks \in Nat /\ Len(queue) <= QueueSize
  BY DEF DeliveryInv, TypeOK
<1>3. /\ h \in Frame /\ Tail(queue) \in Seq(Frame) /\ Len(Tail(queue)) <= Len(queue)
      /\ \A types : /\ Waiting(Tail(queue), types) \in Nat
                    /\ Waiting(queue, types) = Waiting(Tail(queue), types)
                                               + (IF h.type \in types THEN 1 ELSE 0)
  BY <1>2, TailIs
<1>4. Append(wire, h) \in Seq(Frame) /\ Append(wire, h) \o Tail(queue) = wire \o queue
  BY <1>2, TakenIs
<1> HIDE DEF h
<1>5. \A types : Waiting(queue', types) \in Nat /\ Waiting(queue', types) <= Waiting(queue, types)
  <2> SUFFICES ASSUME NEW types
               PROVE  Waiting(queue', types) \in Nat /\ Waiting(queue', types) <= Waiting(queue, types)
    OBVIOUS
  <2>1. /\ Waiting(Tail(queue), types) \in Nat
        /\ Waiting(queue, types) = Waiting(Tail(queue), types) + (IF h.type \in types THEN 1 ELSE 0)
    BY <1>3
  <2> QED BY <1>1, <2>1
<1>6. Len(queue') <= QueueSize
  <2>1. Len(Tail(queue)) \in Nat /\ Len(queue) \in Nat
    BY <1>2, <1>3, LenProperties
  <2> QED BY <1>1, <1>2, <1>3, <2>1, QueueAssumption
<1>7. ASSUME NEW t \in Coalesced \cup {"log_history"} PROVE Waiting(queue', {t}) <= 1
  <2>1. Waiting(queue, {t}) <= 1
    BY <1>2 DEF TypeOK
  <2>2. Waiting(queue, {t}) \in Nat
    BY <1>2, WaitingNat
  <2>3. Waiting(queue', {t}) \in Nat /\ Waiting(queue', {t}) <= Waiting(queue, {t})
    BY <1>5
  <2> QED BY <2>1, <2>2, <2>3
<1>8. unacked' \in Nat
  BY <1>1, <1>2
<1>9. WayOk'
  <2>1. Waiting(wire', {"state"}) + acks' <= unacked'
    <3>1. Waiting(Append(wire, h), {"state"}) = Waiting(wire, {"state"}) + (IF h.type \in {"state"} THEN 1 ELSE 0)
      BY <1>2, <1>3, WaitingAppend
    <3>2. Waiting(wire, {"state"}) \in Nat /\ Waiting(wire, {"state"}) + acks <= unacked
      BY <1>2, WaitingNat DEF WayOk
    <3> QED BY <1>1, <1>2, <3>1, <3>2
  <2>2. Waiting(queue', {"error"}) <= session'.errors - errorsBefore'
    <3>1. Waiting(queue, {"error"}) <= session.errors - errorsBefore
      BY <1>2 DEF WayOk
    <3>2. Waiting(queue, {"error"}) \in Nat
      BY <1>2, WaitingNat
    <3>3. Waiting(queue', {"error"}) \in Nat /\ Waiting(queue', {"error"}) <= Waiting(queue, {"error"})
      BY <1>5
    <3>4. session.errors - errorsBefore \in Int
      BY DEF DeliveryInv, SessionOk
    <3> QED BY <1>1, <3>1, <3>2, <3>3, <3>4
  <2>3. Waiting(queue', {"thumbnails"}) <= 1
    <3>1. Waiting(queue, {"thumbnails"}) <= 1
      BY <1>2 DEF WayOk
    <3>2. Waiting(queue, {"thumbnails"}) \in Nat
      BY <1>2, WaitingNat
    <3>3. Waiting(queue', {"thumbnails"}) \in Nat /\ Waiting(queue', {"thumbnails"}) <= Waiting(queue, {"thumbnails"})
      BY <1>5
    <3> QED BY <3>1, <3>2, <3>3
  <2> QED BY <1>1, <2>1, <2>2, <2>3 DEF WayOk
<1>10. Follows' = Follows
  BY <1>1, <1>4 DEF Follows
<1>11. Good(Follows', session, errorsBefore, superseded', outdated')
  BY <1>1, <1>10 DEF DeliveryInv
<1>12. /\ conn' \in {"closed", "open", "overflowed"}
       /\ sender' \in {"window", "get", "sending", "none"}
       /\ (sender' = "none") <=> (conn' # "open")
  BY <1>1
<1>13. queue' \in Seq(Frame) /\ wire' \in Seq(Frame) /\ page' \in Page /\ acks' \in Nat
  BY <1>1, <1>2, <1>3, <1>4
<1> QED BY <1>1, <1>6, <1>7, <1>8, <1>9, <1>11, <1>12, <1>13, SameSession

\* A step that leaves the frames and the counts where they are.
LEMMA StillInv ==
  ASSUME DeliveryInv, UNCHANGED <<session, conn, queue, unacked, wire, acks, page, superseded, outdated, errorsBefore>>,
         sender' \in {"window", "get", "sending"}, conn = "open"
  PROVE  DeliveryInv'
<1>1. Frame' = Frame /\ Follows' = Follows
  BY DEF Frame, Follows
<1>2. WayOk'
  BY DEF DeliveryInv, WayOk
<1>3. TypeOK'
  BY <1>1 DEF DeliveryInv, TypeOK
<1> QED BY <1>1, <1>2, <1>3 DEF DeliveryInv

LEMMA PassWindowInv == DeliveryInv /\ PassWindow => DeliveryInv'
<1> SUFFICES ASSUME DeliveryInv, PassWindow PROVE DeliveryInv'
  OBVIOUS
<1>1. sender = "window" /\ SenderSteps /\ conn = "open"
  BY DEF PassWindow, DeliveryInv, TypeOK
<1>2. CASE queue = <<>>
  <2>1. sender' = "get" /\ UNCHANGED <<queue, unacked, wire>>
    BY <1>2 DEF PassWindow
  <2> QED BY <1>1, <2>1, StillInv DEF SenderSteps, past
<1>3. CASE queue # <<>>
  <2>1. TakeNext
    BY <1>3 DEF PassWindow
  <2> QED BY <1>1, <1>3, <2>1, TakeInv
<1> QED BY <1>2, <1>3

LEMMA TakeWaitedInv == DeliveryInv /\ TakeWaited => DeliveryInv'
<1> SUFFICES ASSUME DeliveryInv, TakeWaited PROVE DeliveryInv'
  OBVIOUS
<1>1. conn = "open" /\ queue # <<>> /\ TakeNext /\ SenderSteps
  BY DEF TakeWaited, DeliveryInv, TypeOK
<1> QED BY <1>1, TakeInv

LEMMA SendReturnsInv == DeliveryInv /\ SendReturns => DeliveryInv'
<1> SUFFICES ASSUME DeliveryInv, SendReturns PROVE DeliveryInv'
  OBVIOUS
<1>1. /\ conn = "open" /\ sender' = "window"
      /\ UNCHANGED <<session, conn, queue, unacked, wire, acks, page, superseded, outdated, errorsBefore>>
  BY DEF SendReturns, SenderSteps, past, DeliveryInv, TypeOK
<1> QED BY <1>1, StillInv

LEMMA AckInv == DeliveryInv /\ Ack => DeliveryInv'
<1> SUFFICES ASSUME DeliveryInv, Ack PROVE DeliveryInv'
  OBVIOUS
<1>1. /\ conn # "closed" /\ acks > 0 /\ acks' = acks - 1
      /\ unacked' = (IF unacked > 0 THEN unacked - 1 ELSE 0)
      /\ UNCHANGED <<session, conn, queue, sender, wire, page, superseded, outdated, errorsBefore>>
  BY DEF Ack, past
<1>2. TypeOK /\ WayOk /\ acks \in Nat /\ unacked \in Nat /\ wire \in Seq(Frame)
  BY DEF DeliveryInv, TypeOK
<1>3. Frame' = Frame /\ Follows' = Follows
  BY <1>1 DEF Frame, Follows
<1>4. acks' \in Nat /\ unacked' \in Nat
  BY <1>1, <1>2
<1>5. TypeOK'
  BY <1>1, <1>2, <1>3, <1>4 DEF TypeOK
<1>6. WayOk'
  <2>1. Waiting(wire, {"state"}) \in Nat /\ Waiting(wire, {"state"}) + acks <= unacked
    BY <1>1, <1>2, WaitingNat DEF WayOk
  <2>2. Waiting(wire', {"state"}) + acks' <= unacked'
    BY <1>1, <1>2, <2>1
  <2> QED BY <1>1, <1>2, <2>2 DEF WayOk
<1> QED BY <1>1, <1>3, <1>5, <1>6 DEF DeliveryInv

LEMMA ReceiveInv == DeliveryInv /\ Receive => DeliveryInv'
<1> SUFFICES ASSUME DeliveryInv, Receive PROVE DeliveryInv'
  OBVIOUS
<1> DEFINE h == Head(wire)
<1>1. /\ wire # <<>> /\ page' = Apply(page, h) /\ wire' = Tail(wire)
      /\ acks' = (IF h.type = "state" THEN acks + 1 ELSE acks)
      /\ UNCHANGED <<session, conn, queue, sender, unacked, superseded, outdated, errorsBefore>>
  BY DEF Receive, tab, past
<1>2. /\ TypeOK /\ WayOk /\ acks \in Nat /\ unacked \in Nat /\ page \in Page
      /\ wire \in Seq(AnyFrame) /\ queue \in Seq(AnyFrame) /\ wire \in Seq(Frame)
  BY FramesOf DEF DeliveryInv, TypeOK
<1>3. /\ h \in Frame /\ Tail(wire) \in Seq(Frame)
      /\ \A types : /\ Waiting(Tail(wire), types) \in Nat
                    /\ Waiting(wire, types) = Waiting(Tail(wire), types)
                                              + (IF h.type \in types THEN 1 ELSE 0)
  BY <1>1, <1>2, TailIs
<1>4. h \in AnyFrame /\ Tail(wire) \in Seq(AnyFrame) /\ wire = <<h>> \o Tail(wire)
  BY <1>1, <1>2, TailIs
<1> HIDE DEF h
<1>5. page' \in Page
  BY <1>1, <1>2, <1>4, ApplyIs
<1>6. Follows' = Follows
  <2> DEFINE t == Tail(wire)
  <2>1. <<h>> \in Seq(AnyFrame) /\ t \in Seq(AnyFrame) /\ t \o queue \in Seq(AnyFrame)
    BY <1>2, <1>4, ConcatProperties
  <2>2. wire = <<h>> \o t
    BY <1>4
  <2> HIDE DEF t
  <2>3. wire \o queue = <<h>> \o (t \o queue)
    BY <1>2, <2>1, <2>2, ConcatAssociative
  <2>4. Applied(page, <<h>> \o (t \o queue)) = Applied(Applied(page, <<h>>), t \o queue)
    BY <2>1, LedOn
  <2>5. Applied(page, <<h>>) = Apply(page, h)
    BY AppliedOne
  <2>6. Follows' = Applied(Apply(page, h), t \o queue)
    BY <1>1 DEF Follows, t
  <2> QED BY <2>3, <2>4, <2>5, <2>6 DEF Follows
<1>7. acks' \in Nat
  BY <1>1, <1>2
<1>8. WayOk'
  <2>1. conn # "closed"
    BY <1>1, <1>2 DEF WayOk
  <2>2. Waiting(wire', {"state"}) + acks' <= unacked'
    <3>1. Waiting(wire, {"state"}) + acks <= unacked
      BY <1>2, <2>1 DEF WayOk
    <3>2. /\ Waiting(Tail(wire), {"state"}) \in Nat
          /\ Waiting(wire, {"state"}) = Waiting(Tail(wire), {"state"})
                                        + (IF h.type \in {"state"} THEN 1 ELSE 0)
      BY <1>3
    <3> QED BY <1>1, <1>2, <3>1, <3>2
  <2> QED BY <1>1, <1>2, <2>1, <2>2 DEF WayOk
<1>9. conn' = "open" => Good(Follows', session, errorsBefore, superseded', outdated')
  BY <1>1, <1>6 DEF DeliveryInv
<1>10. /\ conn' \in {"closed", "open", "overflowed"}
       /\ sender' \in {"window", "get", "sending", "none"}
       /\ (sender' = "none") <=> (conn' # "open")
       /\ queue' \in Seq(Frame) /\ Len(queue') <= QueueSize
       /\ \A t \in Coalesced \cup {"log_history"} : Waiting(queue', {t}) <= 1
       /\ unacked' \in Nat
  BY <1>1, <1>2 DEF TypeOK
<1>11. wire' \in Seq(Frame) /\ session' = session /\ errorsBefore' = errorsBefore
  BY <1>1, <1>3
<1> QED BY <1>5, <1>7, <1>8, <1>9, <1>10, <1>11, SameSession

LEMMA SocketEndsInv == DeliveryInv /\ SocketEnds => DeliveryInv'
<1> SUFFICES ASSUME DeliveryInv, SocketEnds PROVE DeliveryInv'
  OBVIOUS
<1>1. /\ conn' = "closed" /\ sender' = "none" /\ queue' = <<>> /\ wire' = <<>> /\ acks' = 0
      /\ UNCHANGED <<session, unacked, page, superseded, outdated, errorsBefore>>
  BY DEF SocketEnds, past
<1>2. /\ queue' \in Seq(Frame) /\ wire' \in Seq(Frame) /\ Len(queue') = 0
      /\ \A types : Waiting(queue', types) = 0
  BY <1>1, EmptySeq, WaitingEmpty
<1>3. WayOk'
  BY <1>1 DEF WayOk
<1>4. unacked' \in Nat /\ acks' \in Nat /\ page' \in Page
  BY <1>1 DEF DeliveryInv, TypeOK
<1>5. Len(queue') <= QueueSize
  BY <1>2, QueueAssumption
<1>6. \A t \in Coalesced \cup {"log_history"} : Waiting(queue', {t}) <= 1
  BY <1>2
<1>7. /\ conn' \in {"closed", "open", "overflowed"}
      /\ sender' \in {"window", "get", "sending", "none"}
      /\ (sender' = "none") <=> (conn' # "open")
      /\ (conn' = "open" => Good(Follows', session, errorsBefore, superseded', outdated'))
  BY <1>1
<1> QED BY <1>1, <1>2, <1>3, <1>4, <1>5, <1>6, <1>7, SameSession

\* What a new tab is sent shows it the whole session, but for the tiles its page had drawn as they
\* no longer are.
LEMMA AttachLeads ==
  ASSUME SessionOk(session), page \in Page, NEW old
  PROVE  Good(Apply(Apply(Apply(page, StateFrame(session)), Thumbnails(session)), LogHistory(session)),
              session, session.errors, old, Behind)
<1> DEFINE p1 == Apply(page, StateFrame(session))
           p2 == Apply(p1, Thumbnails(session))
           p3 == Apply(p2, LogHistory(session))
           bs == Boards(session)
           st == StateFrame(session)
           th == Thumbnails(session)
           hi == LogHistory(session)
<1>1. /\ session.cursor \in Tiles /\ session.active \in bs /\ session.lines \in Nat
      /\ session.errors \in Nat /\ DOMAIN session.cursor = bs
  BY DEF SessionOk, Boards
<1>2. /\ st \in AnyFrame /\ st.type = "state" /\ st.boards = bs /\ st.active = session.active
      /\ th \in AnyFrame /\ th.type = "thumbnails" /\ th.drawn = session.cursor
      /\ hi \in AnyFrame /\ hi.type = "log_history"
  BY FramesAre DEF StateFrame, Thumbnails, LogHistory
<1> HIDE DEF st, th, hi
<1>3. p1 \in Page /\ p1 = Apply(page, st)
  <2>1. Apply(page, st) \in Page
    BY <1>2, ApplyIs
  <2> QED BY <2>1 DEF st
<1> HIDE DEF p1
<1>4. p2 \in Page /\ p2 = Apply(p1, th)
  <2>1. Apply(p1, th) \in Page
    BY <1>2, <1>3, ApplyIs
  <2> QED BY <2>1 DEF th
<1> HIDE DEF p2
<1>5. p3 \in Page /\ p3 = Apply(p2, hi)
  <2>1. Apply(p2, hi) \in Page
    BY <1>2, <1>4, ApplyIs
  <2> QED BY <2>1 DEF hi
<1> HIDE DEF p3
<1>6. /\ p1.boards = bs /\ p1.active = session.active /\ DOMAIN p1.tiles = bs
      /\ p1.tiles = [Merge(page.tiles, bs) EXCEPT ![session.active] = session.cursor[session.active]]
  <2>1. /\ p1.boards = st.boards /\ p1.active = st.active
        /\ p1.tiles = [Merge(page.tiles, st.boards) EXCEPT ![st.active] = st.drawn]
    BY <1>2, <1>3, ApplyFields
  <2>2. DOMAIN Merge(page.tiles, bs) = bs
    BY DEF Merge
  <2>3. p1.tiles = [Merge(page.tiles, bs) EXCEPT ![session.active] = session.cursor[session.active]]
    <3>1. st.drawn = session.cursor[session.active]
      BY FramesAre DEF StateFrame, st
    <3> QED BY <1>2, <2>1, <3>1
  <2> QED BY <1>2, <2>1, <2>2, <2>3
<1>t. p2.tiles = Merge(Fill(p1.tiles, session.cursor), bs)
  <2>1. p2.tiles = IF p1.boards = {} THEN Draw(p1.tiles, th.drawn)
                   ELSE Merge(Fill(p1.tiles, th.drawn), p1.boards)
    BY <1>2, <1>3, <1>4, ApplyFields
  <2> QED BY <1>1, <1>2, <1>6, <2>1
<1>f. /\ DOMAIN Fill(p1.tiles, session.cursor) = bs
      /\ \A b \in bs : Fill(p1.tiles, session.cursor)[b]
                       = IF p1.tiles[b] # NoDrawing THEN p1.tiles[b] ELSE session.cursor[b]
  BY <1>1, <1>6 DEF Fill, Draw, Drawn
<1>7. /\ p2.boards = bs /\ p2.active = session.active /\ DOMAIN p2.tiles = bs
      /\ \A b \in bs : b = session.active \/ b \notin Behind => p2.tiles[b] = session.cursor[b]
  <2>1. p2.boards = p1.boards /\ p2.active = p1.active
    BY <1>2, <1>3, <1>4, ApplyFields
  <2>2. DOMAIN p2.tiles = bs
        /\ \A b \in bs : p2.tiles[b] = IF p1.tiles[b] # NoDrawing THEN p1.tiles[b] ELSE session.cursor[b]
    BY <1>t, <1>f DEF Merge
  <2>3. ASSUME NEW b \in bs, b = session.active \/ b \notin Behind
        PROVE  p1.tiles[b] # NoDrawing => p1.tiles[b] = session.cursor[b]
    <3>1. CASE b = session.active
      BY <1>1, <1>6, <3>1 DEF Merge
    <3>2. CASE b # session.active /\ b \notin Behind
      <4>1. p1.tiles[b] = IF b \in DOMAIN page.tiles THEN page.tiles[b] ELSE NoDrawing
        BY <1>6, <3>2 DEF Merge
      <4> QED BY <3>2, <4>1 DEF Behind, Drawn
    <3> QED BY <2>3, <3>1, <3>2
  <2> QED BY <1>6, <2>1, <2>2, <2>3
<1>8. /\ p3.boards = p2.boards /\ p3.active = p2.active /\ p3.tiles = p2.tiles
      /\ p3.log = LastOf(hi.lines, PageLines) /\ p3.errors = p2.errors
  <2>1. hi.type # "state" /\ hi.type \notin {"state", "thumbnails"} /\ hi.type # "error"
    BY <1>2
  <2>2. p3.boards = p2.boards /\ p3.active = p2.active /\ p3.tiles = p2.tiles /\ p3.errors = p2.errors
    <3>1. p2 \in Page /\ hi \in AnyFrame
      BY <1>2, <1>4
    <3>2. Apply(p2, hi).boards = p2.boards /\ Apply(p2, hi).active = p2.active
      BY <2>1, <3>1, ApplyFields
    <3>3. Apply(p2, hi).tiles = p2.tiles
      BY <2>1, <3>1, ApplyFields
    <3>4. Apply(p2, hi).errors = p2.errors
      BY <2>1, <3>1, ApplyFields
    <3> QED BY <1>5, <3>2, <3>3, <3>4
  <2>3. p3.log = LastOf(hi.lines, PageLines)
    BY <1>2, <1>4, <1>5, ApplyFields
  <2> QED BY <2>2, <2>3
<1>9. WholeLog(p3.log, session.lines)
  BY <1>1, <1>8, HistoryWhole DEF hi
<1>10. AllErrors(p3.errors, session.errors, session.errors)
  <2>1. p3.errors \in Seq(Nat)
    BY <1>5 DEF Page
  <2> QED BY <1>1, <2>1, ErrorsNone
<1>11. Good(p3, session, session.errors, old, Behind)
  BY <1>7, <1>8, <1>9, <1>10 DEF Good
<1> QED BY <1>11 DEF p1, p2, p3

\* The frames of a new tab: one of each type.
LEMMA AttachQueue ==
  ASSUME SessionOk(session), NEW last \in {<<>>, <<Analysis>>}
  PROVE  LET q == AttachFrames(session) \o last
         IN /\ q \in Seq(Frame) /\ Len(q) <= 4
            /\ \A t \in {"state", "analysis", "log_history", "thumbnails"} : Waiting(q, {t}) <= 1
            /\ Waiting(q, {"error"}) = 0
            /\ \A p \in Page : /\ Applied(p, q) = Apply(Apply(Apply(p, StateFrame(session)),
                                                              Thumbnails(session)), LogHistory(session))
<1> DEFINE st == StateFrame(session)
           th == Thumbnails(session)
           hi == LogHistory(session)
           an == Analysis
           q1 == Append(<<>>, st)
           q2 == Append(q1, th)
           q3 == Append(q2, hi)
           q  == AttachFrames(session) \o last
<1>1. st \in Frame /\ th \in Frame /\ hi \in Frame /\ an \in Frame /\ Frame \subseteq AnyFrame
  BY FramesKnown
<1>2. st.type = "state" /\ th.type = "thumbnails" /\ hi.type = "log_history" /\ an.type = "analysis"
  BY DEF StateFrame, Thumbnails, LogHistory, Analysis
<1>3. AttachFrames(session) = q3
  BY DEF AttachFrames
<1> HIDE DEF st, th, hi, an
<1>4. /\ <<>> \in Seq(Frame) /\ q1 \in Seq(Frame) /\ q2 \in Seq(Frame) /\ q3 \in Seq(Frame)
      /\ Len(q3) = 3 /\ Append(q3, an) \in Seq(Frame) /\ Len(Append(q3, an)) = 4
  BY <1>1
<1>5. ASSUME NEW types
      PROVE  /\ Waiting(q3, types) = (IF st.type \in types THEN 1 ELSE 0)
                                     + (IF th.type \in types THEN 1 ELSE 0)
                                     + (IF hi.type \in types THEN 1 ELSE 0)
             /\ Waiting(Append(q3, an), types) = Waiting(q3, types) + (IF an.type \in types THEN 1 ELSE 0)
  <2> HIDE DEF q1, q2, q3
  <2>1. Waiting(q1, types) = Waiting(<<>>, types) + (IF st.type \in types THEN 1 ELSE 0)
    BY <1>1, <1>4, WaitingAppend DEF q1
  <2>2. Waiting(q2, types) = Waiting(q1, types) + (IF th.type \in types THEN 1 ELSE 0)
    BY <1>1, <1>4, WaitingAppend DEF q2
  <2>3. Waiting(q3, types) = Waiting(q2, types) + (IF hi.type \in types THEN 1 ELSE 0)
    BY <1>1, <1>4, WaitingAppend DEF q3
  <2>4. Waiting(Append(q3, an), types) = Waiting(q3, types) + (IF an.type \in types THEN 1 ELSE 0)
    BY <1>1, <1>4, WaitingAppend
  <2>5. Waiting(<<>>, types) = 0
    BY WaitingEmpty
  <2> QED BY <2>1, <2>2, <2>3, <2>4, <2>5
<1>6. q = q3 \/ q = Append(q3, an)
  <2>1. CASE last = <<>>
    <3>1. q3 \o <<>> = q3
      BY <1>4, ConcatEmptySeq
    <3> QED BY <1>3, <2>1, <3>1
  <2>2. CASE last = <<Analysis>>
    <3>1. Append(q3, an) = q3 \o <<an>>
      BY <1>1, <1>4, AppendIsConcat
    <3> QED BY <1>3, <2>2, <3>1 DEF an
  <2> QED BY <2>1, <2>2
<1>7. ASSUME NEW p \in Page
      PROVE  /\ Applied(p, q3) = Apply(Apply(Apply(p, st), th), hi)
             /\ Applied(p, Append(q3, an)) = Applied(p, q3)
  <2> HIDE DEF q1, q2, q3
  <2>1. Applied(p, q1) = Apply(Applied(p, <<>>), st)
    BY <1>1, <1>4, AppliedAppend DEF q1
  <2>2. Applied(p, q2) = Apply(Applied(p, q1), th)
    BY <1>1, <1>4, AppliedAppend DEF q2
  <2>3. Applied(p, q3) = Apply(Applied(p, q2), hi)
    BY <1>1, <1>4, AppliedAppend DEF q3
  <2>4. Applied(p, Append(q3, an)) = Apply(Applied(p, q3), an)
    BY <1>1, <1>4, AppliedAppend
  <2>5. Applied(p, q3) \in Page
    <3>1. q3 \in Seq(AnyFrame)
      BY <1>1, <1>4, SeqMore
    <3> QED BY <3>1, AppliedPage
  <2>6. an \in AnyFrame
    BY <1>1
  <2>7. Apply(Applied(p, q3), an) = Applied(p, q3)
    BY <1>2, <2>5, <2>6, ApplyIs
  <2>8. Applied(p, <<>>) = p
    BY AppliedEmpty
  <2> QED BY <2>1, <2>2, <2>3, <2>4, <2>7, <2>8
<1> HIDE DEF q, q3
<1>8. q \in Seq(Frame) /\ Len(q) <= 4
  BY <1>4, <1>6
<1>9. ASSUME NEW t \in {"state", "analysis", "log_history", "thumbnails"} PROVE Waiting(q, {t}) <= 1
  <2>1. /\ Waiting(q3, {t}) = (IF st.type \in {t} THEN 1 ELSE 0)
                              + (IF th.type \in {t} THEN 1 ELSE 0)
                              + (IF hi.type \in {t} THEN 1 ELSE 0)
        /\ Waiting(Append(q3, an), {t}) = Waiting(q3, {t}) + (IF an.type \in {t} THEN 1 ELSE 0)
    BY <1>5
  <2>2. st.type = "state" /\ th.type = "thumbnails" /\ hi.type = "log_history" /\ an.type = "analysis"
    BY <1>2
  <2>3. Waiting(q3, {t}) = (IF t = "state" THEN 1 ELSE 0) + (IF t = "thumbnails" THEN 1 ELSE 0)
                           + (IF t = "log_history" THEN 1 ELSE 0)
    BY <2>1, <2>2
  <2>4. Waiting(Append(q3, an), {t}) = Waiting(q3, {t}) + (IF t = "analysis" THEN 1 ELSE 0)
    BY <2>1, <2>2
  <2>5. Waiting(q3, {t}) <= 1 /\ Waiting(Append(q3, an), {t}) <= 1
    BY <2>3, <2>4
  <2> QED BY <1>6, <2>5
<1>10. Waiting(q, {"error"}) = 0
  <2>1. /\ Waiting(q3, {"error"}) = (IF st.type \in {"error"} THEN 1 ELSE 0)
                              + (IF th.type \in {"error"} THEN 1 ELSE 0)
                              + (IF hi.type \in {"error"} THEN 1 ELSE 0)
        /\ Waiting(Append(q3, an), {"error"}) = Waiting(q3, {"error"}) + (IF an.type \in {"error"} THEN 1 ELSE 0)
    BY <1>5
  <2>2. st.type = "state" /\ th.type = "thumbnails" /\ hi.type = "log_history" /\ an.type = "analysis"
    BY <1>2
  <2>3. Waiting(q3, {"error"}) = 0
    BY <2>1, <2>2
  <2>4. Waiting(Append(q3, an), {"error"}) = 0
    BY <2>1, <2>2, <2>3
  <2> QED BY <1>6, <2>3, <2>4
<1>11. \A p \in Page : Applied(p, q) = Apply(Apply(Apply(p, st), th), hi)
  BY <1>6, <1>7
<1> QED BY <1>8, <1>9, <1>10, <1>11 DEF q, st, th, hi

LEMMA AttachInv == DeliveryInv /\ Attach => DeliveryInv'
<1> SUFFICES ASSUME DeliveryInv, Attach PROVE DeliveryInv'
  OBVIOUS
<1>1. /\ conn = "closed" /\ conn' = "open" /\ sender' = "window" /\ unacked' = 0
      /\ superseded' = FALSE /\ outdated' = Behind /\ errorsBefore' = session.errors
      /\ UNCHANGED <<session, wire, acks, page>>
  BY DEF Attach
<1>2. PICK last \in {<<>>, <<Analysis>>} : queue' = AttachFrames(session) \o last
  BY DEF Attach
<1> DEFINE q == AttachFrames(session) \o last
           shown == Apply(Apply(Apply(page, StateFrame(session)), Thumbnails(session)), LogHistory(session))
<1>3. SessionOk(session) /\ page \in Page /\ wire = <<>> /\ acks = 0
  BY <1>1 DEF DeliveryInv, WayOk
<1>4. /\ q \in Seq(Frame) /\ Len(q) <= 4
      /\ \A t \in {"state", "analysis", "log_history", "thumbnails"} : Waiting(q, {t}) <= 1
      /\ Waiting(q, {"error"}) = 0
      /\ Applied(page, q) = shown
  BY <1>3, AttachQueue
<1> HIDE DEF q
<1>5. Good(shown, session, session.errors, superseded', outdated')
  BY <1>1, <1>3, AttachLeads
<1> HIDE DEF shown
<1>6. queue' = q
  BY <1>2 DEF q
<1>7. Follows' = Applied(page, q)
  <2>1. <<>> \o q = q
    BY <1>4, ConcatEmptySeq
  <2>2. Follows' = Applied(page', wire' \o queue')
    BY DEF Follows
  <2> QED BY <1>1, <1>3, <1>6, <2>1, <2>2
<1>8. Frame' = Frame
  BY <1>1 DEF Frame
<1>9. SessionOk(session') /\ errorsBefore' \in Nat /\ errorsBefore' <= session'.errors
  BY <1>1, <1>3 DEF SessionOk
<1>10. Waiting(wire', {"state"}) + acks' <= unacked'
  BY <1>1, <1>3, WaitingEmpty
<1>11. WayOk'
  <2>1. Waiting(queue', {"error"}) <= session'.errors - errorsBefore'
    BY <1>1, <1>4, <1>6, <1>9
  <2> QED BY <1>1, <1>4, <1>6, <1>10, <2>1 DEF WayOk
<1>12. TypeOK'
  <2>1. Len(queue') <= QueueSize
    BY <1>4, <1>6, LenProperties, QueueAssumption
  <2>2. \A t \in Coalesced \cup {"log_history"} : Waiting(queue', {t}) <= 1
    BY <1>4, <1>6 DEF Coalesced
  <2>3. queue' \in Seq(Frame') /\ wire' \in Seq(Frame')
    BY <1>1, <1>3, <1>4, <1>6, <1>8
  <2>4. unacked' \in Nat /\ acks' \in Nat
    BY <1>1, <1>3
  <2> QED BY <1>1, <1>9, <2>1, <2>2, <2>3, <2>4, TypesNext
<1>13. Good(Follows', session', errorsBefore', superseded', outdated')
  BY <1>1, <1>4, <1>5, <1>7
<1> QED BY <1>1, <1>3, <1>9, <1>11, <1>12, <1>13 DEF DeliveryInv

-----------------------------------------------------------------------------
(* The theorems.                                                           *)

LEMMA InitInv == Init => DeliveryInv
<1> SUFFICES ASSUME Init PROVE DeliveryInv
  OBVIOUS
<1>1. /\ session = [cursor |-> [b \in {1} |-> 0], active |-> 1, next |-> 2, lines |-> 0, errors |-> 0]
      /\ page = [boards |-> {}, active |-> 0, tiles |-> [b \in {} |-> NoDrawing],
                 log |-> <<>>, errors |-> <<>>]
      /\ conn = "closed" /\ sender = "none" /\ queue = <<>> /\ wire = <<>>
      /\ unacked = 0 /\ acks = 0 /\ errorsBefore = 0
  BY DEF Init
<1>2. SessionOk(session)
  <2> DEFINE c == [b \in {1} |-> 0]
  <2>1. c \in [DOMAIN c -> 0 .. MaxCursor] /\ DOMAIN c \subseteq 1 .. MaxBoards /\ DOMAIN c = {1}
    BY BoundsAre
  <2>2. c \in Tiles
    BY <2>1, TilesAre
  <2> HIDE DEF c
  <2>3. session = [cursor |-> c, active |-> 1, next |-> 2, lines |-> 0, errors |-> 0]
    BY <1>1 DEF c
  <2>4. 1 \in 1 .. MaxBoards /\ 2 \in 1 .. MaxBoards + 1
    BY BoundsAre
  <2> QED BY <2>1, <2>2, <2>3, <2>4 DEF SessionOk, Boards
<1>3. page \in Page
  <2> DEFINE t == [b \in {} |-> NoDrawing]
  <2>1. t \in Drawings
    BY DrawingIs
  <2> HIDE DEF t
  <2>2. page = [boards |-> {}, active |-> 0, tiles |-> t, log |-> <<>>, errors |-> <<>>]
    BY <1>1 DEF t
  <2> QED BY <2>1, <2>2, EmptySeq DEF Page
<1>4. TypeOK
  <2>1. queue \in Seq(Frame) /\ wire \in Seq(Frame) /\ Len(queue) <= QueueSize
    BY <1>1, EmptySeq, QueueAssumption
  <2>2. \A t \in Coalesced \cup {"log_history"} : Waiting(queue, {t}) <= 1
    BY <1>1, WaitingEmpty
  <2> QED BY <1>1, <1>2, <2>1, <2>2, TypesAre DEF TabOk
<1>5. WayOk
  BY <1>1 DEF WayOk
<1> QED BY <1>1, <1>2, <1>3, <1>4, <1>5 DEF DeliveryInv, SessionOk

LEMMA NextInv == DeliveryInv /\ [Next]_vars => DeliveryInv'
<1> SUFFICES ASSUME DeliveryInv, [Next]_vars PROVE DeliveryInv'
  OBVIOUS
<1>1. CASE SessionNext
  BY <1>1, MoveInv, AnnounceInv, BoardSelectInv, BoardNewInv, BoardDuplicateInv, BoardDeleteInv,
     RecordLogInv, FailInv, ReportInv DEF SessionNext
<1>2. CASE TabNext
  BY <1>2, PassWindowInv, TakeWaitedInv, SendReturnsInv, AckInv DEF TabNext
<1>3. CASE PageNext
  BY <1>3, ReceiveInv DEF PageNext
<1>4. CASE CloseOverflow \/ LoseSocket
  BY <1>4, SocketEndsInv DEF CloseOverflow, LoseSocket
<1>5. CASE Attach
  BY <1>5, AttachInv
<1>6. CASE UNCHANGED vars
  <2>1. UNCHANGED <<session, conn, queue, sender, unacked, wire, acks, page, superseded, outdated, errorsBefore>>
    BY <1>6 DEF vars, tab, past
  <2>2. Frame' = Frame /\ Follows' = Follows
    BY <2>1 DEF Frame, Follows
  <2>3. TypeOK' /\ WayOk'
    BY <2>1, <2>2 DEF DeliveryInv, TypeOK, WayOk
  <2> QED BY <2>1, <2>2, <2>3 DEF DeliveryInv
<1> QED BY <1>1, <1>2, <1>3, <1>4, <1>5, <1>6 DEF Next

\* What the theorems below rest on: at every moment the frames on their way lead the page to the
\* session.
THEOREM DeliveryInvariant == Spec => []DeliveryInv
<1>1. Init => DeliveryInv
  BY InitInv
<1>2. DeliveryInv /\ [Next]_vars => DeliveryInv'
  BY NextInv
<1> QED BY <1>1, <1>2, PTL DEF Spec

\* A tab's queue never holds more than its size, nor two states, two analyses or two histories,
\* whatever it takes and however slowly it is read (TabQueue.put in spaces.py).
THEOREM QueueIsBounded == Spec => []TypeOK
<1>1. DeliveryInv => TypeOK
  BY DEF DeliveryInv
<1> QED BY <1>1, DeliveryInvariant, PTL

\* The log the page is led to ends with the session's newest line and has no gap, wherever a fold
\* fell (TabQueue._fold in spaces.py, appendLog and the log_history frame in app.js).
THEOREM LogStaysWhole == Spec => []LogIsWhole
<1>1. DeliveryInv => LogIsWhole
  BY DEF DeliveryInv, Good, WholeLog, LogIsWhole
<1> QED BY <1>1, DeliveryInvariant, PTL

\* Whatever was superseded, the page is led to the session's boards and the active one's
\* position; and to every drawing, as long as no state was superseded, but for the tiles it had
\* drawn before its socket was lost and that changed meanwhile (TabQueue.put in spaces.py,
\* receiveThumbnails and mergeBoards in app.js).
THEOREM PageFollows == Spec => []PageIsLed
<1>1. DeliveryInv => PageIsLed
  BY DEF DeliveryInv, Good, PageIsLed
<1> QED BY <1>1, DeliveryInvariant, PTL

\* Every error sent since the tab attached reaches its page once and in order, and only a tab
\* that was sent errors is ever dropped as slow (TabQueue.put, Hub.broadcast in spaces.py).
THEOREM NoErrorIsLost == Spec => []ErrorsArrive
<1>1. DeliveryInv => ErrorsArrive
  BY DEF DeliveryInv, Good, WayOk, AllErrors, ErrorsArrive
<1> QED BY <1>1, DeliveryInvariant, PTL

\* An acknowledging tab is sent no frame from the window while states it was sent are unapplied
\* (Tab.window, Tab.ack and Tab._drain in spaces.py).
THEOREM SendingIsPaced == Spec => Paced
<1>1. DeliveryInv /\ [Next]_vars =>
        [Len(wire') > Len(wire) /\ paced /\ sender = "window" =>
           Waiting(wire, {"state"}) + acks < StateWindow]_vars
  <2> SUFFICES ASSUME DeliveryInv, Next, Len(wire') > Len(wire), paced, sender = "window"
               PROVE  Waiting(wire, {"state"}) + acks < StateWindow
    BY DEF vars
  <2>1. /\ wire \in Seq(Frame) /\ Len(wire) \in Nat /\ unacked \in Nat /\ acks \in Nat
        /\ conn = "open" /\ Waiting(wire, {"state"}) + acks <= unacked
    BY LenProperties DEF DeliveryInv, TypeOK, WayOk
  <2>2. Waiting(wire, {"state"}) \in Nat
    BY <2>1, WaitingNat
  <2>3. ~SessionNext
    <3>1. SessionNext => wire' = wire
      BY DEF SessionNext, Move, Announce, BoardSelect, BoardNew, BoardDuplicate, BoardDelete, Open,
             Edit, RecordLog, Fail, Report, SessionSteps
    <3> QED BY <2>1, <3>1
  <2>4. ~Receive
    <3>1. Receive => Len(wire') <= Len(wire)
      <4> SUFFICES ASSUME Receive PROVE Len(wire') <= Len(wire)
        OBVIOUS
      <4>1. wire # <<>> /\ wire' = Tail(wire)
        BY DEF Receive
      <4>2. Len(Tail(wire)) <= Len(wire)
        BY <2>1, <4>1, TailIs
      <4> QED BY <4>1, <4>2
    <3>2. Receive => Len(wire') \in Nat
      <4> SUFFICES ASSUME Receive PROVE Len(wire') \in Nat
        OBVIOUS
      <4>1. wire # <<>> /\ wire' = Tail(wire)
        BY DEF Receive
      <4>2. Tail(wire) \in Seq(Frame)
        BY <2>1, <4>1, TailIs
      <4> QED BY <4>1, <4>2, LenProperties
    <3> QED BY <2>1, <3>1, <3>2
  <2>5. ~(SendReturns \/ Ack \/ Attach)
    BY <2>1 DEF SendReturns, Ack, Attach
  <2>6. ~(CloseOverflow \/ LoseSocket)
    <3>1. CloseOverflow \/ LoseSocket => wire' = <<>>
      BY DEF CloseOverflow, LoseSocket, SocketEnds
    <3> QED BY <2>1, <3>1, EmptySeq
  <2>7. PassWindow
    BY <2>3, <2>4, <2>5, <2>6 DEF Next, TabNext, PageNext, TakeWaited
  <2>8. unacked < StateWindow
    BY <2>7 DEF PassWindow, WindowOpen
  <2> QED BY <2>1, <2>2, <2>8, WindowAssumption
<1> QED BY <1>1, DeliveryInvariant, PTL DEF Spec, Paced
=============================================================================

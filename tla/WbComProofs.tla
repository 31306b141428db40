----------------------------- MODULE WbComProofs -----------------------------
(***************************************************************************)
(* What the crossbar promises its masters, for both sizes of FIFOs that    *)
(* the direction registers have bits for, every address map without        *)
(* overlaps, every set of requests and slaves of any delay up to BScale:   *)
(* headers never overflow and requests are served in their order; until it *)
(* goes astray, nothing overflows, each answer is the one the oldest       *)
(* request is owed, and none takes longer than AnswerTime.                 *)
(***************************************************************************)
EXTENDS WbCom, SequenceTheorems, WellFoundedInduction, TLAPS

(***************************************************************************)
(* Of a sequence o, those elements in P, in their order: the sequence l.   *)
(***************************************************************************)
Picks(f, l, o, P) ==
    /\ f \in [1 .. Len(l) -> 1 .. Len(o)]
    /\ \A i, j \in 1 .. Len(l) : i < j => f[i] < f[j]
    /\ \A k \in 1 .. Len(o) : o[k] \in P <=> \E i \in 1 .. Len(l) : f[i] = k
    /\ \A i \in 1 .. Len(l) : l[i] = o[f[i]] /\ Len(l) - i <= Len(o) - f[i]
Those(l, o, P) == \E f : Picks(f, l, o, P)

(* An element of P that is appended is chosen.                             *)
LEMMA ThoseAppendIn ==
    ASSUME NEW X, NEW l \in Seq(X), NEW o \in Seq(X), NEW P, Those(l, o, P), NEW x \in X, x \in P
    PROVE  Those(Append(l, x), Append(o, x), P)
<1>1. PICK f : Picks(f, l, o, P)
  BY DEF Those
<1> DEFINE n == Len(l)
           k == Len(o)
           l2 == Append(l, x)
           o2 == Append(o, x)
           g == [i \in 1 .. n + 1 |-> IF i = n + 1 THEN k + 1 ELSE f[i]]
<1>a. n \in Nat /\ k \in Nat
  OBVIOUS
<1>b. Len(l2) = n + 1 /\ Len(o2) = k + 1
  OBVIOUS
<1>c. \A i \in 1 .. n : l2[i] = l[i]
  OBVIOUS
<1>d. \A i \in 1 .. k : o2[i] = o[i]
  OBVIOUS
<1>e. l2[n + 1] = x /\ o2[k + 1] = x
  OBVIOUS
<1>f. f \in [1 .. n -> 1 .. k]
  BY <1>1 DEF Picks
<1>g. \A i, j \in 1 .. n : i < j => f[i] < f[j]
  BY <1>1 DEF Picks
<1>h. \A p \in 1 .. k : o[p] \in P <=> \E i \in 1 .. n : f[i] = p
  BY <1>1 DEF Picks
<1>i. \A i \in 1 .. n : l[i] = o[f[i]] /\ n - i <= k - f[i]
  BY <1>1 DEF Picks
<1> HIDE DEF n, k, l2, o2
<1>4. \A i \in 1 .. n : f[i] \in 1 .. k /\ g[i] = f[i] /\ i \in 1 .. n + 1
  BY ONLY <1>a, <1>f
<1>5. g[n + 1] = k + 1
  BY ONLY <1>a
<1>0. \A i \in 1 .. n + 1 : i \in 1 .. n \/ i = n + 1
  BY ONLY <1>a
<1>j. g = [i \in 1 .. n + 1 |-> g[i]]
  BY ONLY <1>a
<1> HIDE DEF g
<1>k. \A i \in 1 .. n + 1 : g[i] \in 1 .. k + 1
  BY ONLY <1>a, <1>0, <1>4, <1>5, SMTT(30)
<1>6. g \in [1 .. n + 1 -> 1 .. k + 1]
  BY ONLY <1>j, <1>k
<1>7. \A i, j \in 1 .. n + 1 : i < j => g[i] < g[j]
  <2> SUFFICES ASSUME NEW i \in 1 .. n + 1, NEW j \in 1 .. n + 1, i < j PROVE g[i] < g[j]
    OBVIOUS
  <2>0. i \in 1 .. n
    BY ONLY <1>a, i \in 1 .. n + 1, j \in 1 .. n + 1, i < j
  <2>1. CASE j = n + 1
    BY ONLY <1>a, <1>4, <1>5, <2>1, <2>0
  <2>2. CASE j \in 1 .. n
    BY ONLY <1>a, <1>g, <1>4, <2>2, <2>0, i < j
  <2> QED
    BY ONLY <2>1, <2>2, <1>0, j \in 1 .. n + 1
<1>8. \A p \in 1 .. k + 1 : o2[p] \in P <=> \E i \in 1 .. n + 1 : g[i] = p
  <2> TAKE p \in 1 .. k + 1
  <2>1. CASE p = k + 1
    BY ONLY <1>a, <1>e, <1>5, <2>1, x \in P
  <2>2. CASE p \in 1 .. k
    <3>1. o2[p] = o[p]
      BY ONLY <1>d, <2>2
    <3>2. (\E i \in 1 .. n : f[i] = p) => (\E i \in 1 .. n + 1 : g[i] = p)
      BY ONLY <1>4
    <3>3. (\E i \in 1 .. n + 1 : g[i] = p) => (\E i \in 1 .. n : f[i] = p)
      BY ONLY <1>a, <1>0, <1>4, <1>5, <2>2, SMTT(30)
    <3> QED
      BY ONLY <1>h, <3>1, <3>2, <3>3, <2>2
  <2> QED
    BY ONLY <1>a, <2>1, <2>2, p \in 1 .. k + 1
<1>9. \A i \in 1 .. n + 1 : l2[i] = o2[g[i]] /\ (n + 1) - i <= (k + 1) - g[i]
  <2> TAKE i \in 1 .. n + 1
  <2>1. CASE i = n + 1
    BY ONLY <1>a, <1>e, <1>5, <2>1
  <2>2. CASE i \in 1 .. n
    <3>1. l2[i] = l[i] /\ g[i] = f[i] /\ f[i] \in 1 .. k /\ o2[f[i]] = o[f[i]]
      BY ONLY <1>c, <1>d, <1>4, <2>2
    <3>2. l[i] = o[f[i]] /\ n - i <= k - f[i]
      BY ONLY <1>i, <2>2
    <3> QED
      BY ONLY <1>a, <3>1, <3>2, <2>2, SMTT(30)
  <2> QED
    BY ONLY <1>0, <2>1, <2>2, i \in 1 .. n + 1
<1>10. Picks(g, l2, o2, P)
  BY ONLY <1>b, <1>6, <1>7, <1>8, <1>9 DEF Picks
<1> QED
  BY <1>10 DEF Those, l2, o2

(* Any other is not.                                                       *)
LEMMA ThoseAppendOut ==
    ASSUME NEW X, NEW l \in Seq(X), NEW o \in Seq(X), NEW P, Those(l, o, P), NEW x \in X, x \notin P
    PROVE  Those(l, Append(o, x), P)
<1>1. PICK f : Picks(f, l, o, P)
  BY DEF Those
<1> DEFINE n == Len(l)
           k == Len(o)
           o2 == Append(o, x)
<1>a. n \in Nat /\ k \in Nat
  OBVIOUS
<1>b. Len(o2) = k + 1
  OBVIOUS
<1>d. \A i \in 1 .. k : o2[i] = o[i]
  OBVIOUS
<1>e. o2[k + 1] = x
  OBVIOUS
<1>f. f \in [1 .. n -> 1 .. k]
  BY <1>1 DEF Picks
<1>g. \A i, j \in 1 .. n : i < j => f[i] < f[j]
  BY <1>1 DEF Picks
<1>h. \A p \in 1 .. k : o[p] \in P <=> \E i \in 1 .. n : f[i] = p
  BY <1>1 DEF Picks
<1>i. \A i \in 1 .. n : l[i] = o[f[i]] /\ n - i <= k - f[i]
  BY <1>1 DEF Picks
<1> HIDE DEF k, o2, n
<1>2. \A i \in 1 .. n : f[i] \in 1 .. k
  BY ONLY <1>f
<1>3. \A i \in 1 .. n : f[i] \in 1 .. k + 1 /\ f[i] # k + 1
  BY ONLY <1>a, <1>2
<1>4. f \in [1 .. n -> 1 .. k + 1]
  BY ONLY <1>f, <1>3
<1>5. \A p \in 1 .. k + 1 : o2[p] \in P <=> \E i \in 1 .. n : f[i] = p
  <2> TAKE p \in 1 .. k + 1
  <2>1. CASE p = k + 1
    BY ONLY <1>e, <1>3, <2>1, x \notin P
  <2>2. CASE p \in 1 .. k
    <3>1. o2[p] = o[p]
      BY ONLY <1>d, <2>2
    <3> QED
      BY ONLY <1>h, <3>1, <2>2
  <2> QED
    BY ONLY <1>a, <2>1, <2>2, p \in 1 .. k + 1
<1>6. \A i \in 1 .. n : l[i] = o2[f[i]] /\ n - i <= (k + 1) - f[i]
  <2> TAKE i \in 1 .. n
  <2>1. f[i] \in 1 .. k /\ o2[f[i]] = o[f[i]]
    BY ONLY <1>2, <1>d, i \in 1 .. n
  <2>2. l[i] = o[f[i]] /\ n - i <= k - f[i]
    BY ONLY <1>i, i \in 1 .. n
  <2> QED
    BY ONLY <1>a, <2>1, <2>2, i \in 1 .. n
<1>7. Picks(f, l, o2, P)
  BY ONLY <1>b, <1>g, <1>4, <1>5, <1>6 DEF Picks, n
<1> QED
  BY <1>7 DEF Those, o2

(* If the first element is in P it is the first chosen one.                *)
LEMMA ThoseTailIn ==
    ASSUME NEW X, NEW l \in Seq(X), NEW o \in Seq(X), NEW P, Those(l, o, P), o # <<>>, o[1] \in P
    PROVE  l # <<>> /\ l[1] = o[1] /\ Those(Tail(l), Tail(o), P)
<1>1. PICK f : Picks(f, l, o, P)
  BY DEF Those
<1> DEFINE n == Len(l)
           k == Len(o)
<1>a. n \in Nat /\ k \in Nat \ {0} /\ (l = <<>> <=> n = 0)
  OBVIOUS
<1>f. f \in [1 .. n -> 1 .. k]
  BY <1>1 DEF Picks
<1>g. \A i, j \in 1 .. n : i < j => f[i] < f[j]
  BY <1>1 DEF Picks
<1>h. \A p \in 1 .. k : o[p] \in P <=> \E i \in 1 .. n : f[i] = p
  BY <1>1 DEF Picks
<1>i. \A i \in 1 .. n : l[i] = o[f[i]] /\ n - i <= k - f[i]
  BY <1>1 DEF Picks
<1>2. n > 0 /\ f[1] = 1 /\ l[1] = o[1]
  <2> HIDE DEF n, k
  <2>1. \A i \in 1 .. n : f[i] \in 1 .. k
    BY ONLY <1>f
  <2>2. PICK e \in 1 .. n : f[e] = 1
    BY ONLY <1>a, <1>h, o[1] \in P
  <2>3. n > 0 /\ 1 \in 1 .. n
    BY ONLY <1>a, e \in 1 .. n
  <2>4. e = 1
    <3>1. ~ (1 < e)
      <4> SUFFICES ASSUME 1 < e PROVE FALSE
        OBVIOUS
      <4>1. f[1] < f[e] /\ f[1] \in 1 .. k
        BY ONLY <1>g, <2>1, <2>3, e \in 1 .. n, 1 < e
      <4> QED
        BY ONLY <1>a, <4>1, <2>2
    <3> QED
      BY ONLY <1>a, <3>1, e \in 1 .. n
  <2>5. l[1] = o[f[1]]
    BY ONLY <1>i, <2>3
  <2> QED
    BY ONLY <2>2, <2>3, <2>4, <2>5
<1> DEFINE l2 == Tail(l)
           o2 == Tail(o)
           g == [i \in 1 .. n - 1 |-> f[i + 1] - 1]
<1>b. Len(l2) = n - 1 /\ Len(o2) = k - 1
  BY <1>a, <1>2
<1>c. \A i \in 1 .. n - 1 : l2[i] = l[i + 1]
  BY <1>a, <1>2
<1>d. \A i \in 1 .. k - 1 : o2[i] = o[i + 1]
  BY <1>a
<1> HIDE DEF n, k, l2, o2
<1>4. \A i \in 1 .. n - 1 : i + 1 \in 1 .. n /\ f[i + 1] \in 2 .. k /\ g[i] = f[i + 1] - 1
  <2> TAKE i \in 1 .. n - 1
  <2>1. i + 1 \in 1 .. n /\ 1 \in 1 .. n /\ 1 < i + 1
    BY ONLY <1>a, <1>2, i \in 1 .. n - 1
  <2>2. f[1] < f[i + 1] /\ f[i + 1] \in 1 .. k
    BY ONLY <1>f, <1>g, <2>1
  <2>3. f[i + 1] \in 2 .. k
    BY ONLY <1>a, <1>2, <2>2
  <2>4. g[i] = f[i + 1] - 1
    BY ONLY i \in 1 .. n - 1
  <2> QED
    BY ONLY <2>1, <2>3, <2>4
<1>j. g = [i \in 1 .. n - 1 |-> g[i]]
  BY ONLY <1>a
<1> HIDE DEF g
<1>k. \A i \in 1 .. n - 1 : g[i] \in 1 .. k - 1 /\ g[i] + 1 = f[i + 1]
  <2> TAKE i \in 1 .. n - 1
  <2>1. f[i + 1] \in 2 .. k /\ g[i] = f[i + 1] - 1
    BY ONLY <1>4, i \in 1 .. n - 1
  <2> QED
    BY ONLY <1>a, <2>1
<1>6. g \in [1 .. n - 1 -> 1 .. k - 1]
  BY ONLY <1>j, <1>k
<1>7. \A i, j \in 1 .. n - 1 : i < j => g[i] < g[j]
  <2> SUFFICES ASSUME NEW i \in 1 .. n - 1, NEW j \in 1 .. n - 1, i < j PROVE g[i] < g[j]
    OBVIOUS
  <2>1. i + 1 \in 1 .. n /\ j + 1 \in 1 .. n /\ i + 1 < j + 1
    BY ONLY <1>a, i \in 1 .. n - 1, j \in 1 .. n - 1, i < j
  <2>2. f[i + 1] < f[j + 1]
    BY ONLY <1>g, <2>1
  <2>3. g[i] \in 1 .. k - 1 /\ g[i] + 1 = f[i + 1] /\ g[j] \in 1 .. k - 1 /\ g[j] + 1 = f[j + 1]
    BY ONLY <1>k, i \in 1 .. n - 1, j \in 1 .. n - 1
  <2> QED
    BY ONLY <1>a, <2>2, <2>3
<1>8. \A p \in 1 .. k - 1 : o2[p] \in P <=> \E i \in 1 .. n - 1 : g[i] = p
  <2> TAKE p \in 1 .. k - 1
  <2>1. p + 1 \in 1 .. k /\ o2[p] = o[p + 1] /\ p > 0
    BY ONLY <1>a, <1>d, p \in 1 .. k - 1
  <2>2. ASSUME NEW i \in 1 .. n, f[i] = p + 1 PROVE \E j \in 1 .. n - 1 : g[j] = p
    <3>1. i # 1 /\ i - 1 \in 1 .. n - 1 /\ (i - 1) + 1 = i
      BY ONLY <1>a, <1>2, <2>1, <2>2, i \in 1 .. n, p \in 1 .. k - 1
    <3>2. g[i - 1] \in 1 .. k - 1 /\ g[i - 1] + 1 = f[i]
      BY ONLY <1>k, <3>1
    <3>3. g[i - 1] = p
      BY ONLY <1>a, <2>2, <3>2, p \in 1 .. k - 1
    <3> QED
      BY ONLY <3>1, <3>3
  <2>3. ASSUME NEW j \in 1 .. n - 1, g[j] = p PROVE \E i \in 1 .. n : f[i] = p + 1
    <3>1. j + 1 \in 1 .. n
      BY ONLY <1>a, j \in 1 .. n - 1
    <3>2. f[j + 1] = p + 1
      BY ONLY <1>k, <2>3, j \in 1 .. n - 1
    <3> QED
      BY ONLY <3>1, <3>2
  <2> QED
    BY ONLY <1>h, <2>1, <2>2, <2>3
<1>9. \A i \in 1 .. n - 1 : l2[i] = o2[g[i]] /\ (n - 1) - i <= (k - 1) - g[i]
  <2> TAKE i \in 1 .. n - 1
  <2>1. l2[i] = l[i + 1] /\ g[i] \in 1 .. k - 1 /\ g[i] + 1 = f[i + 1] /\ i + 1 \in 1 .. n
    BY ONLY <1>c, <1>4, <1>k, i \in 1 .. n - 1
  <2>2. o2[g[i]] = o[g[i] + 1]
    BY ONLY <1>d, <2>1
  <2>3. l[i + 1] = o[f[i + 1]] /\ n - (i + 1) <= k - f[i + 1]
    BY ONLY <1>i, <2>1
  <2>4. n - (i + 1) <= k - (g[i] + 1)
    BY ONLY <2>1, <2>3
  <2>5. (n - 1) - i <= (k - 1) - g[i]
    BY ONLY <1>a, <2>1, <2>4, i \in 1 .. n - 1
  <2> QED
    BY ONLY <2>1, <2>2, <2>3, <2>5
<1>10. Picks(g, l2, o2, P)
  BY ONLY <1>b, <1>6, <1>7, <1>8, <1>9 DEF Picks
<1> QED
  BY <1>a, <1>2, <1>10 DEF Those, l2, o2

(* If it is not, taking it away leaves the chosen ones as they are.        *)
LEMMA ThoseTailOut ==
    ASSUME NEW X, NEW l \in Seq(X), NEW o \in Seq(X), NEW P, Those(l, o, P), o # <<>>, o[1] \notin P
    PROVE  Those(l, Tail(o), P)
<1>1. PICK f : Picks(f, l, o, P)
  BY DEF Those
<1> DEFINE n == Len(l)
           k == Len(o)
           o2 == Tail(o)
           g == [i \in 1 .. n |-> f[i] - 1]
<1>a. n \in Nat /\ k \in Nat \ {0}
  OBVIOUS
<1>b. Len(o2) = k - 1
  OBVIOUS
<1>d. \A i \in 1 .. k - 1 : o2[i] = o[i + 1]
  OBVIOUS
<1>f. f \in [1 .. n -> 1 .. k]
  BY <1>1 DEF Picks
<1>g. \A i, j \in 1 .. n : i < j => f[i] < f[j]
  BY <1>1 DEF Picks
<1>h. \A p \in 1 .. k : o[p] \in P <=> \E i \in 1 .. n : f[i] = p
  BY <1>1 DEF Picks
<1>i. \A i \in 1 .. n : l[i] = o[f[i]] /\ n - i <= k - f[i]
  BY <1>1 DEF Picks
<1> HIDE DEF n, k, o2
<1>2. \A i \in 1 .. n : f[i] \in 1 .. k
  BY ONLY <1>f
<1>3. \A i \in 1 .. n : f[i] # 1
  BY ONLY <1>a, <1>h, o[1] \notin P
<1>4. \A i \in 1 .. n : f[i] \in 2 .. k /\ g[i] = f[i] - 1
  BY ONLY <1>a, <1>2, <1>3
<1>j. g = [i \in 1 .. n |-> g[i]]
  BY ONLY <1>a
<1> HIDE DEF g
<1>k. \A i \in 1 .. n : g[i] \in 1 .. k - 1 /\ g[i] + 1 = f[i]
  <2> TAKE i \in 1 .. n
  <2>1. f[i] \in 2 .. k /\ g[i] = f[i] - 1
    BY ONLY <1>4, i \in 1 .. n
  <2> QED
    BY ONLY <1>a, <2>1
<1>6. g \in [1 .. n -> 1 .. k - 1]
  BY ONLY <1>j, <1>k
<1>7. \A i, j \in 1 .. n : i < j => g[i] < g[j]
  <2> SUFFICES ASSUME NEW i \in 1 .. n, NEW j \in 1 .. n, i < j PROVE g[i] < g[j]
    OBVIOUS
  <2>1. f[i] < f[j]
    BY ONLY <1>g, i \in 1 .. n, j \in 1 .. n, i < j
  <2>2. g[i] \in 1 .. k - 1 /\ g[i] + 1 = f[i] /\ g[j] \in 1 .. k - 1 /\ g[j] + 1 = f[j]
    BY ONLY <1>k, i \in 1 .. n, j \in 1 .. n
  <2> QED
    BY ONLY <1>a, <2>1, <2>2
<1>8. \A p \in 1 .. k - 1 : o2[p] \in P <=> \E i \in 1 .. n : g[i] = p
  <2> TAKE p \in 1 .. k - 1
  <2>1. p + 1 \in 1 .. k /\ o2[p] = o[p + 1]
    BY ONLY <1>a, <1>d, p \in 1 .. k - 1
  <2>2. \A i \in 1 .. n : g[i] = p <=> f[i] = p + 1
    BY ONLY <1>a, <1>k, p \in 1 .. k - 1
  <2> QED
    BY ONLY <1>h, <2>1, <2>2
<1>9. \A i \in 1 .. n : l[i] = o2[g[i]] /\ n - i <= (k - 1) - g[i]
  <2> TAKE i \in 1 .. n
  <2>1. g[i] \in 1 .. k - 1 /\ g[i] + 1 = f[i]
    BY ONLY <1>k, i \in 1 .. n
  <2>2. o2[g[i]] = o[g[i] + 1]
    BY ONLY <1>d, <2>1
  <2>3. l[i] = o[f[i]] /\ n - i <= k - f[i]
    BY ONLY <1>i, i \in 1 .. n
  <2>4. n - i <= k - (g[i] + 1)
    BY ONLY <2>1, <2>3
  <2>5. n - i <= (k - 1) - g[i]
    BY ONLY <1>a, <2>1, <2>4, i \in 1 .. n
  <2> QED
    BY ONLY <2>1, <2>2, <2>3, <2>5
<1>10. Picks(g, l, o2, P)
  BY ONLY <1>b, <1>6, <1>7, <1>8, <1>9 DEF Picks, n
<1> QED
  BY <1>10 DEF Those, o2

(* No more are chosen than there are, and all of them are in P.            *)
LEMMA ThoseLen ==
    ASSUME NEW X, NEW l \in Seq(X), NEW o \in Seq(X), NEW P, Those(l, o, P)
    PROVE  Len(l) <= Len(o) /\ \A i \in 1 .. Len(l) : l[i] \in P
<1>1. PICK f : Picks(f, l, o, P)
  BY DEF Those
<1> DEFINE n == Len(l)
           k == Len(o)
<1>a. n \in Nat /\ k \in Nat
  OBVIOUS
<1>f. f \in [1 .. n -> 1 .. k]
  BY <1>1 DEF Picks
<1>h. \A p \in 1 .. k : o[p] \in P <=> \E i \in 1 .. n : f[i] = p
  BY <1>1 DEF Picks
<1>i. \A i \in 1 .. n : l[i] = o[f[i]] /\ n - i <= k - f[i]
  BY <1>1 DEF Picks
<1> HIDE DEF n, k
<1>2. \A i \in 1 .. n : f[i] \in 1 .. k
  BY ONLY <1>f
<1>3. n <= k
  <2>1. CASE n = 0
    BY ONLY <1>a, <2>1
  <2>2. CASE n # 0
    <3>1. 1 \in 1 .. n
      BY ONLY <1>a, <2>2
    <3>2. f[1] \in 1 .. k /\ n - 1 <= k - f[1]
      BY ONLY <1>2, <1>i, <3>1
    <3> QED
      BY ONLY <1>a, <3>2
  <2> QED
    BY ONLY <2>1, <2>2
<1>4. \A i \in 1 .. n : l[i] \in P
  BY ONLY <1>2, <1>h, <1>i
<1> QED
  BY <1>3, <1>4 DEF n, k

(* Nothing is chosen of nothing.                                           *)
LEMMA ThoseEmpty == ASSUME NEW P PROVE Those(<<>>, <<>>, P)
<1> DEFINE f == [i \in 1 .. 0 |-> i]
<1>1. Len(<<>>) = 0 /\ 1 .. 0 = {}
  OBVIOUS
<1>2. Picks(f, <<>>, <<>>, P)
  BY <1>1 DEF Picks
<1> QED
  BY <1>2 DEF Those

(***************************************************************************)
(* The requests fl of a master to slave s that are not answered yet: the   *)
(* first wait as answers A, the next is in the slave (H), the others wait  *)
(* as headers D.                                                           *)
(***************************************************************************)
IsAns(a, r, s) == (a.err <=> r.we /\ s \in ReadOnly) /\ a.dat = r.addr
IsBus(x, r)    == x.we = r.we /\ x.dat = r.addr
IsHdr(h, r)    == h.addr = r.addr /\ h.we = r.we
Flight(fl, A, H, D, s) ==
    /\ Len(fl) = Len(A) + Len(H) + Len(D)
    /\ \A i \in 1 .. Len(A) : IsAns(A[i], fl[i], s)
    /\ \A i \in 1 .. Len(H) : IsBus(H[i], fl[Len(A) + i])
    /\ \A i \in 1 .. Len(D) : IsHdr(D[i], fl[Len(A) + Len(H) + i])

(* The oldest answer is of the oldest request; a master takes both.        *)
LEMMA FlightRead ==
    ASSUME NEW X, NEW Y, NEW Z, NEW W, NEW fl \in Seq(X), NEW A \in Seq(Y), NEW H \in Seq(Z),
           NEW D \in Seq(W), NEW s, Flight(fl, A, H, D, s), A # <<>>
    PROVE  fl # <<>> /\ IsAns(A[1], fl[1], s) /\ Flight(Tail(fl), Tail(A), H, D, s)
<1> DEFINE n == Len(fl)
           a == Len(A)
           h == Len(H)
           d == Len(D)
           fl2 == Tail(fl)
           A2 == Tail(A)
<1>a. n \in Nat /\ a \in Nat \ {0} /\ h \in Nat /\ d \in Nat
  OBVIOUS
<1>b. n = a + h + d
  BY DEF Flight
<1>c. \A i \in 1 .. a : IsAns(A[i], fl[i], s)
  BY DEF Flight
<1>d. \A i \in 1 .. h : IsBus(H[i], fl[a + i])
  BY DEF Flight
<1>e. \A i \in 1 .. d : IsHdr(D[i], fl[a + h + i])
  BY DEF Flight
<1>0. n # 0
  <2> HIDE DEF n, a, h, d
  <2> QED
    BY ONLY <1>a, <1>b
<1>1. fl # <<>>
  BY <1>0
<1>f. Len(fl2) = n - 1 /\ Len(A2) = a - 1
  BY <1>1
<1>g. \A i \in 1 .. n - 1 : fl2[i] = fl[i + 1]
  BY <1>1
<1>h. \A i \in 1 .. a - 1 : A2[i] = A[i + 1]
  OBVIOUS
<1> HIDE DEF n, a, h, d, fl2, A2
<1>2. IsAns(A[1], fl[1], s)
  BY ONLY <1>a, <1>c
<1>3. n - 1 = (a - 1) + h + d
  BY ONLY <1>a, <1>b
<1>4. \A i \in 1 .. a - 1 : IsAns(A2[i], fl2[i], s)
  <2> TAKE i \in 1 .. a - 1
  <2>1. i + 1 \in 1 .. a /\ i \in 1 .. n - 1
    BY ONLY <1>a, <1>b, i \in 1 .. a - 1
  <2> QED
    BY ONLY <1>c, <1>g, <1>h, <2>1, i \in 1 .. a - 1
<1>5. \A i \in 1 .. h : IsBus(H[i], fl2[(a - 1) + i])
  <2> TAKE i \in 1 .. h
  <2>1. (a - 1) + i \in 1 .. n - 1 /\ ((a - 1) + i) + 1 = a + i
    BY ONLY <1>a, <1>b, i \in 1 .. h
  <2>2. fl2[(a - 1) + i] = fl[a + i]
    BY ONLY <1>g, <2>1
  <2> QED
    BY ONLY <1>d, <2>2, i \in 1 .. h
<1>6. \A i \in 1 .. d : IsHdr(D[i], fl2[(a - 1) + h + i])
  <2> TAKE i \in 1 .. d
  <2>1. (a - 1) + h + i \in 1 .. n - 1 /\ ((a - 1) + h + i) + 1 = a + h + i
    BY ONLY <1>a, <1>b, i \in 1 .. d
  <2>2. fl2[(a - 1) + h + i] = fl[a + h + i]
    BY ONLY <1>g, <2>1
  <2> QED
    BY ONLY <1>e, <2>2, i \in 1 .. d
<1>7. Flight(fl2, A2, H, D, s)
  BY ONLY <1>f, <1>3, <1>4, <1>5, <1>6 DEF Flight, h, d
<1> QED
  BY <1>1, <1>2, <1>7 DEF fl2, A2

(* The slave answers the oldest request it holds.                          *)
LEMMA FlightAnswer ==
    ASSUME NEW X, NEW Y, NEW Z, NEW W, NEW fl \in Seq(X), NEW A \in Seq(Y), NEW H \in Seq(Z),
           NEW D \in Seq(W), NEW s, Flight(fl, A, H, D, s), H # <<>>, NEW w \in Y,
           \A r \in X : IsBus(H[1], r) => IsAns(w, r, s)
    PROVE  Flight(fl, Append(A, w), Tail(H), D, s)
<1> DEFINE n == Len(fl)
           a == Len(A)
           h == Len(H)
           d == Len(D)
           A2 == Append(A, w)
           H2 == Tail(H)
<1>a. n \in Nat /\ a \in Nat /\ h \in Nat \ {0} /\ d \in Nat
  OBVIOUS
<1>c. n = a + h + d
  BY DEF Flight
<1>d. \A i \in 1 .. a : IsAns(A[i], fl[i], s)
  BY DEF Flight
<1>e. \A i \in 1 .. h : IsBus(H[i], fl[a + i])
  BY DEF Flight
<1>f. \A i \in 1 .. d : IsHdr(D[i], fl[a + h + i])
  BY DEF Flight
<1>g. Len(A2) = a + 1 /\ A2[a + 1] = w /\ Len(H2) = h - 1
  OBVIOUS
<1>h. \A i \in 1 .. a : A2[i] = A[i]
  OBVIOUS
<1>j. \A i \in 1 .. h - 1 : H2[i] = H[i + 1]
  OBVIOUS
<1>i. \A i \in 1 .. n : fl[i] \in X
  OBVIOUS
<1> HIDE DEF n, a, h, d, A2, H2
<1>1. a + 1 \in 1 .. n /\ 1 \in 1 .. h
  BY ONLY <1>a, <1>c
<1>2. IsAns(w, fl[a + 1], s)
  BY <1>1, <1>e, <1>i
<1>3. \A i \in 1 .. a + 1 : IsAns(A2[i], fl[i], s)
  <2> TAKE i \in 1 .. a + 1
  <2>1. CASE i \in 1 .. a
    BY ONLY <1>d, <1>h, <2>1
  <2>2. CASE i = a + 1
    BY ONLY <1>g, <1>2, <2>2
  <2> QED
    BY ONLY <1>a, <2>1, <2>2, i \in 1 .. a + 1
<1>4. n = (a + 1) + (h - 1) + d
  BY ONLY <1>a, <1>c
<1>5. \A i \in 1 .. d : IsHdr(D[i], fl[(a + 1) + (h - 1) + i])
  <2> TAKE i \in 1 .. d
  <2>1. (a + 1) + (h - 1) + i = a + h + i
    BY ONLY <1>a, i \in 1 .. d
  <2> QED
    BY ONLY <1>f, <2>1, i \in 1 .. d
<1>6. \A i \in 1 .. h - 1 : IsBus(H2[i], fl[(a + 1) + i])
  <2> TAKE i \in 1 .. h - 1
  <2>1. i + 1 \in 1 .. h /\ a + (i + 1) = (a + 1) + i
    BY ONLY <1>a, i \in 1 .. h - 1
  <2>2. IsBus(H[i + 1], fl[(a + 1) + i])
    BY ONLY <1>e, <2>1
  <2> QED
    BY ONLY <1>j, <2>2, i \in 1 .. h - 1
<1>7. Flight(fl, A2, H2, D, s)
  BY ONLY <1>g, <1>3, <1>4, <1>5, <1>6 DEF Flight, n, d
<1> QED
  BY <1>7 DEF A2, H2

(* The slave takes the oldest header.                                      *)
LEMMA FlightTake ==
    ASSUME NEW X, NEW Y, NEW Z, NEW W, NEW fl \in Seq(X), NEW A \in Seq(Y), NEW H \in Seq(Z), NEW x \in Z,
           NEW D \in Seq(W), NEW s, Flight(fl, A, H, D, s), D # <<>>,
           \A r \in X : IsHdr(D[1], r) => IsBus(x, r)
    PROVE  Flight(fl, A, Append(H, x), Tail(D), s)
<1> DEFINE n == Len(fl)
           a == Len(A)
           h == Len(H)
           d == Len(D)
           H2 == Append(H, x)
           D2 == Tail(D)
<1>a. n \in Nat /\ a \in Nat /\ h \in Nat /\ d \in Nat \ {0}
  OBVIOUS
<1>c. n = a + h + d
  BY DEF Flight
<1>d. \A i \in 1 .. a : IsAns(A[i], fl[i], s)
  BY DEF Flight
<1>e. \A i \in 1 .. h : IsBus(H[i], fl[a + i])
  BY DEF Flight
<1>f. \A i \in 1 .. d : IsHdr(D[i], fl[a + h + i])
  BY DEF Flight
<1>g. Len(D2) = d - 1 /\ Len(H2) = h + 1 /\ H2[h + 1] = x
  OBVIOUS
<1>h. \A i \in 1 .. d - 1 : D2[i] = D[i + 1]
  OBVIOUS
<1>j. \A i \in 1 .. h : H2[i] = H[i]
  OBVIOUS
<1>i. \A i \in 1 .. n : fl[i] \in X
  OBVIOUS
<1> HIDE DEF n, a, h, d, D2, H2
<1>1. 1 \in 1 .. d /\ a + (h + 1) \in 1 .. n /\ a + h + 1 = a + (h + 1)
  BY ONLY <1>a, <1>c
<1>2. IsHdr(D[1], fl[a + (h + 1)])
  BY ONLY <1>1, <1>f
<1>3. IsBus(x, fl[a + (h + 1)])
  BY <1>1, <1>2, <1>i
<1>4. \A i \in 1 .. h + 1 : IsBus(H2[i], fl[a + i])
  <2> TAKE i \in 1 .. h + 1
  <2>1. CASE i \in 1 .. h
    BY ONLY <1>e, <1>j, <2>1
  <2>2. CASE i = h + 1
    BY ONLY <1>g, <1>3, <2>2
  <2> QED
    BY ONLY <1>a, <2>1, <2>2, i \in 1 .. h + 1
<1>5. n = a + (h + 1) + (d - 1)
  BY ONLY <1>a, <1>c
<1>6. \A i \in 1 .. d - 1 : IsHdr(D2[i], fl[a + (h + 1) + i])
  <2> TAKE i \in 1 .. d - 1
  <2>1. i + 1 \in 1 .. d /\ a + h + (i + 1) = a + (h + 1) + i
    BY ONLY <1>a, i \in 1 .. d - 1
  <2>2. IsHdr(D[i + 1], fl[a + (h + 1) + i])
    BY ONLY <1>f, <2>1
  <2> QED
    BY ONLY <1>h, <2>2, i \in 1 .. d - 1
<1>7. Flight(fl, A, H2, D2, s)
  BY ONLY <1>d, <1>g, <1>4, <1>5, <1>6 DEF Flight, n, a
<1> QED
  BY <1>7 DEF D2, H2

(* A new request joins with its header.                                    *)
LEMMA FlightAsk ==
    ASSUME NEW X, NEW Y, NEW Z, NEW W, NEW fl \in Seq(X), NEW A \in Seq(Y), NEW H \in Seq(Z),
           NEW D \in Seq(W), NEW s, Flight(fl, A, H, D, s), NEW r \in X, NEW w \in W, IsHdr(w, r)
    PROVE  Flight(Append(fl, r), A, H, Append(D, w), s)
<1> DEFINE n == Len(fl)
           a == Len(A)
           h == Len(H)
           d == Len(D)
           fl2 == Append(fl, r)
           D2 == Append(D, w)
<1>a. n \in Nat /\ a \in Nat /\ h \in Nat /\ d \in Nat
  OBVIOUS
<1>b. n = a + h + d
  BY DEF Flight
<1>c. \A i \in 1 .. a : IsAns(A[i], fl[i], s)
  BY DEF Flight
<1>d. \A i \in 1 .. h : IsBus(H[i], fl[a + i])
  BY DEF Flight
<1>e. \A i \in 1 .. d : IsHdr(D[i], fl[a + h + i])
  BY DEF Flight
<1>f. Len(fl2) = n + 1 /\ Len(D2) = d + 1 /\ fl2[n + 1] = r /\ D2[d + 1] = w
  OBVIOUS
<1>g. \A i \in 1 .. n : fl2[i] = fl[i]
  OBVIOUS
<1>h. \A i \in 1 .. d : D2[i] = D[i]
  OBVIOUS
<1> HIDE DEF n, a, h, d, fl2, D2
<1>1. n + 1 = a + h + (d + 1)
  BY ONLY <1>a, <1>b
<1>2. \A i \in 1 .. a : IsAns(A[i], fl2[i], s)
  <2> TAKE i \in 1 .. a
  <2>1. i \in 1 .. n
    BY ONLY <1>a, <1>b, i \in 1 .. a
  <2> QED
    BY ONLY <1>c, <1>g, <2>1, i \in 1 .. a
<1>3. \A i \in 1 .. h : IsBus(H[i], fl2[a + i])
  <2> TAKE i \in 1 .. h
  <2>1. a + i \in 1 .. n
    BY ONLY <1>a, <1>b, i \in 1 .. h
  <2> QED
    BY ONLY <1>d, <1>g, <2>1, i \in 1 .. h
<1>4. \A i \in 1 .. d + 1 : IsHdr(D2[i], fl2[a + h + i])
  <2> TAKE i \in 1 .. d + 1
  <2>1. CASE i \in 1 .. d
    <3>1. a + h + i \in 1 .. n
      BY ONLY <1>a, <1>b, <2>1
    <3> QED
      BY ONLY <1>e, <1>g, <1>h, <2>1, <3>1
  <2>2. CASE i = d + 1
    <3>1. a + h + i = n + 1
      BY ONLY <1>a, <1>b, <2>2
    <3> QED
      BY ONLY <1>f, <2>2, <3>1, IsHdr(w, r)
  <2> QED
    BY ONLY <1>a, <2>1, <2>2, i \in 1 .. d + 1
<1>5. Flight(fl2, A, H, D2, s)
  BY ONLY <1>f, <1>1, <1>2, <1>3, <1>4 DEF Flight, a, h
<1> QED
  BY <1>5 DEF fl2, D2

(***************************************************************************)
(* The inductive invariant. Always, whatever the slaves do: the headers    *)
(* fit, and the words of the writes are in the data FIFO. Sound, until the *)
(* crossbar goes astray. DirOwed: the direction and error registers of a   *)
(* master say of each request in flight where it went. HeldInOrder: those  *)
(* of a slave say of each request it holds whose it is, and none is older  *)
(* than the slave allows. InFlight: the unanswered requests of a master to *)
(* a slave are its answers, what the slave holds for it and its headers,   *)
(* in this order.                                                          *)
(***************************************************************************)
Req  == Requests[0] \cup Requests[1]
Addr == {r.addr : r \in Req}
Hdr  == [addr : Addr, we : BOOLEAN, tag : Nat]
Bus  == [from : Master, we : BOOLEAN, dat : Addr]
Ans  == [err : BOOLEAN, dat : Addr]
For(s)  == {r \in Req : Hit(s, r.addr)}
From(m) == {x \in Bus : x.from = m}
Wr      == {h \in Hdr : h.we}

TypeA ==
    /\ req \in [Master -> Req \cup {None}] /\ time_tag \in Nat /\ astray \in Nat
    /\ headers \in [Master -> [Slave -> Seq(Hdr)]] /\ data \in [Master -> [Slave -> Seq(Addr)]]
TypeS ==
    /\ answers \in [Slave -> [Master -> Seq(Ans)]]
    /\ held \in [Slave -> Seq(Bus)] /\ age \in [Slave -> Seq(Nat)] /\ owed \in [Master -> Seq(Req)]

DirOwed(m) ==
    /\ m_dir_fst[m] = Len(owed[m]) /\ Len(owed[m]) <= BScale
    /\ \A i \in 1 .. Len(owed[m]) :
          /\ m_dir_sel[m][Len(owed[m]) + 1 - i] <=> Hit(1, owed[m][i].addr)
          /\ m_err_sel[m][Len(owed[m]) + 1 - i] <=> \A s \in Slave : ~ Hit(s, owed[m][i].addr)

AgesIn(a, d) ==
    /\ \A i \in 1 .. Len(a) : 1 <= a[i] /\ a[i] + i <= d + 1
    /\ \A i, j \in 1 .. Len(a) : i < j => a[j] + j <= a[i] + i
HeldInOrder(s) ==
    /\ s_dir_fst[s] = Len(held[s]) /\ Len(age[s]) = Len(held[s]) /\ AgesIn(age[s], Delay[s])
    /\ \A i \in 1 .. Len(held[s]) : s_dir_sel[s][Len(held[s]) + 1 - i] <=> held[s][i].from = 1

DataOf(d, h) == \E w \in Seq(Hdr) : /\ Those(w, h, Wr) /\ Len(d) = Len(w)
                                    /\ \A i \in 1 .. Len(d) : d[i] = w[i].addr

HeadersFit(m, s) == Len(headers[m][s]) <= Depth /\ DataOf(data[m][s], headers[m][s])
InFlight(m, s) ==
    \E fl \in Seq(Req), h \in Seq(Bus) : /\ Those(fl, owed[m], For(s)) /\ Those(h, held[s], From(m))
                                         /\ Flight(fl, answers[s][m], h, headers[m][s], s)

Always == TypeA /\ \A m \in Master, s \in Slave : HeadersFit(m, s)
Sound  == /\ TypeS
          /\ \A m \in Master : DirOwed(m)
          /\ \A s \in Slave : HeldInOrder(s)
          /\ \A m \in Master, s \in Slave : InFlight(m, s)
IInv == Always /\ (astray = 0 => Sound)

(* The sizes, and a mark that moves up below its limit.                    *)
LEMMA Sizes ==
    /\ Depth \in Nat \ {0, 1} /\ BScale \in Nat \ {0} /\ HalfTag \in Nat \ {0}
    /\ 1 <= BScale /\ BScale <= DirBits /\ DirBits \in Nat
    /\ \A n \in Nat : n < BScale => (n + 1) % (BScale + 1) = n + 1
<1>1. Depth \in Nat \ {0, 1} /\ BScale \in Nat \ {0} /\ HalfTag \in Nat \ {0}
  BY PowerAssumption
<1>2. \A b \in Nat : \A n \in Nat : n < b => (n + 1) % (b + 1) = n + 1
  OBVIOUS
<1>3. BScale <= DirBits /\ DirBits \in Nat
  BY DelayAssumption DEF DirBits
<1> QED
  BY <1>1, <1>2, <1>3

(* A step that does not lead astray: no offered request is stalled, and    *)
(* every answer comes with its acknowledge.                                *)
Steady(replies) == replies \in Replies({}) /\ Edge({}, replies, replies)

(* Only a steady step leaves it so.                                        *)
LEMMA SteadySteps ==
    ASSUME Always, Next, astray' = 0
    PROVE  astray = 0 /\ \E replies : Steady(replies)
<1>1. PICK stalls \in SUBSET {s \in Stalling : s_wb_stb(s)} : \E replies \in Replies(stalls) :
         \E acks \in Acks(stalls, replies) : Edge(stalls, replies, acks)
  BY DEF Next
<1>2. PICK replies \in Replies(stalls) : \E acks \in Acks(stalls, replies) : Edge(stalls, replies, acks)
  BY <1>1
<1>3. PICK acks \in Acks(stalls, replies) : Edge(stalls, replies, acks)
  BY <1>2
<1>4. astray' = IF astray > 0 \/ GoesAstray(stalls, replies, acks) THEN astray + 1 ELSE 0
  BY <1>3 DEF Edge, History
<1>5. astray \in Nat
  BY DEF Always, TypeA
<1>6. astray = 0 /\ ~ GoesAstray(stalls, replies, acks)
  BY <1>4, <1>5
<1>7. stalls = {} /\ acks = replies
  BY <1>6 DEF GoesAstray
<1> QED
  BY <1>2, <1>3, <1>6, <1>7 DEF Steady

(* A request that is accepted is one of the program's.                     *)
LEMMA AskedFor ==
    ASSUME Always, NEW m \in Master, Accepted(m)
    PROVE  /\ req[m] \in Req /\ req[m].addr \in Addr /\ req[m].we \in BOOLEAN
           /\ [addr |-> req[m].addr, we |-> req[m].we, tag |-> time_tag] \in Hdr
           /\ ~ (Hit(0, req[m].addr) /\ Hit(1, req[m].addr))
<1>1. req[m] \in Req
  BY DEF Always, TypeA, Accepted
<1>2. \A r \in Req : r.we \in BOOLEAN /\ ~ (Hit(0, r.addr) /\ Hit(1, r.addr))
  BY RequestAssumption, RangeAssumption DEF Req, Master
<1>3. time_tag \in Nat
  BY DEF Always, TypeA
<1> QED
  BY <1>1, <1>2, <1>3 DEF Addr, Hdr

(* The state of one master, one slave and one pair of them.                *)
LEMMA Fronts ==
    ASSUME Always, NEW m \in Master, NEW s \in Slave
    PROVE  /\ headers[m][s] \in Seq(Hdr) /\ data[m][s] \in Seq(Addr) /\ time_tag \in Nat
           /\ HeadersFit(m, s)
<1> QED
  BY DEF Always, TypeA

(* The same while the crossbar is sound.                                   *)
LEMMA Parts ==
    ASSUME Always, Sound, NEW m \in Master, NEW s \in Slave
    PROVE  /\ headers[m][s] \in Seq(Hdr) /\ data[m][s] \in Seq(Addr) /\ answers[s][m] \in Seq(Ans)
           /\ held[s] \in Seq(Bus) /\ age[s] \in Seq(Nat) /\ owed[m] \in Seq(Req) /\ time_tag \in Nat
           /\ DirOwed(m) /\ HeldInOrder(s) /\ InFlight(m, s)
<1> QED
  BY DEF Always, TypeA, Sound, TypeS

(* Only a FIFO with a header in it is read.                                *)
LEMMA Popped ==
    ASSUME NEW m \in Master, NEW s \in Slave, hrden(m, s)
    PROVE  headers[m][s] # <<>>
<1> QED
  BY DEF hrden, s_wb_stb, m1_dir, hempty, Master

(* The registers of a master: what the mark points at is the oldest        *)
(* request, so the next answer is taken from the slave it went to.         *)
LEMMA Pointed ==
    ASSUME Always, Sound, NEW m \in Master, owed[m] # <<>>
    PROVE  /\ owed[m][1] \in Req
           /\ m_error(m) <=> \A s \in Slave : ~ Hit(s, owed[m][1].addr)
           /\ m_arb(m) = IF Hit(1, owed[m][1].addr) THEN 1 ELSE 0
<1> DEFINE n == Len(owed[m])
<1>1. owed[m] \in Seq(Req) /\ DirOwed(m)
  BY Parts DEF Slave
<1>2. n \in Nat /\ n > 0 /\ owed[m][1] \in Req /\ 1 \in 1 .. n /\ n + 1 - 1 = n
  BY <1>1
<1>3. m_dir_fst[m] = n
  BY <1>1 DEF DirOwed
<1>4. /\ m_dir_sel[m][n] <=> Hit(1, owed[m][1].addr)
      /\ m_err_sel[m][n] <=> \A s \in Slave : ~ Hit(s, owed[m][1].addr)
  <2>1. \A i \in 1 .. n : /\ m_dir_sel[m][n + 1 - i] <=> Hit(1, owed[m][i].addr)
                          /\ m_err_sel[m][n + 1 - i] <=> \A s \in Slave : ~ Hit(s, owed[m][i].addr)
    BY <1>1 DEF DirOwed
  <2> HIDE DEF n
  <2> QED
    BY <1>2, <2>1
<1> HIDE DEF n
<1> QED
  BY <1>2, <1>3, <1>4 DEF m_error, m_arb, Marked

(* An answer is on its way only for a request that is owed one.            *)
LEMMA NothingUnasked ==
    ASSUME Always, Sound, NEW m \in Master, NEW s \in Slave, answers[s][m] # <<>>
    PROVE  owed[m] # <<>>
<1>1. PICK fl \in Seq(Req), hd \in Seq(Bus) : /\ Those(fl, owed[m], For(s)) /\ Those(hd, held[s], From(m))
                                              /\ Flight(fl, answers[s][m], hd, headers[m][s], s)
  BY Parts DEF InFlight
<1>2. Len(fl) <= Len(owed[m])
  BY <1>1, Parts, ThoseLen
<1>3. Len(fl) \in Nat /\ Len(answers[s][m]) \in Nat \ {0} /\ Len(headers[m][s]) \in Nat /\ Len(owed[m]) \in Nat
  BY <1>1, Parts
<1>4. Len(hd) \in Nat
  OBVIOUS
<1>5. Len(fl) = Len(answers[s][m]) + Len(hd) + Len(headers[m][s])
  BY <1>1 DEF Flight
<1>6. Len(owed[m]) # 0
  <2> DEFINE f == Len(fl)
             o == Len(owed[m])
             a == Len(answers[s][m])
             h == Len(hd)
             d == Len(headers[m][s])
  <2>1. f <= o /\ f \in Nat /\ a \in Nat \ {0} /\ d \in Nat /\ o \in Nat /\ h \in Nat /\ f = a + h + d
    BY <1>2, <1>3, <1>4, <1>5
  <2> HIDE DEF f, o, a, h, d
  <2>2. o # 0
    BY ONLY <2>1
  <2> QED
    BY <2>2 DEF o
<1> QED
  BY <1>6

(* A master that is answered is owed an answer, and takes it from the      *)
(* slave its oldest request went to.                                       *)
LEMMA HeadOwed ==
    ASSUME Always, Sound, NEW m \in Master, Answered(m)
    PROVE  /\ owed[m] # <<>> /\ owed[m][1] \in Req
           /\ m_error(m) <=> \A s \in Slave : ~ Hit(s, owed[m][1].addr)
           /\ \A s \in Slave : drden(s, m) <=> Hit(s, owed[m][1].addr)
           /\ ~ m_error(m) => Waiting(m) # <<>> /\ Hit(m_arb(m), owed[m][1].addr)
<1>1. m_error(m) \/ Waiting(m) # <<>>
  BY DEF Answered, m_wb_ack_i, m_wb_err_i
<1>0. m_arb(m) \in Slave
  BY DEF m_arb, Slave
<1>2. owed[m] # <<>>
  <2>1. CASE Waiting(m) # <<>>
    BY <2>1, <1>0, NothingUnasked DEF Waiting
  <2>2. CASE m_error(m)
    <3>1. owed[m] \in Seq(Req) /\ DirOwed(m)
      BY Parts DEF Slave
    <3>2. m_dir_fst[m] = Len(owed[m]) /\ m_dir_fst[m] > 0
      BY <3>1, <2>2 DEF DirOwed, m_error, Marked
    <3> QED
      BY <3>1, <3>2
  <2> QED
    BY <1>1, <2>1, <2>2
<1>3. /\ owed[m][1] \in Req
      /\ m_error(m) <=> \A s \in Slave : ~ Hit(s, owed[m][1].addr)
      /\ m_arb(m) = IF Hit(1, owed[m][1].addr) THEN 1 ELSE 0
  BY <1>2, Pointed
<1>4. ~ (Hit(0, owed[m][1].addr) /\ Hit(1, owed[m][1].addr))
  BY <1>3, RangeAssumption DEF Req, Master
<1> DEFINE a == owed[m][1].addr
           e == m_error(m)
           w == Waiting(m) # <<>>
<1>5. ASSUME NEW s \in Slave PROVE drden(s, m) <=> (m_arb(m) = s /\ w /\ ~ e)
  BY DEF drden
<1> HIDE DEF a
<1>6. /\ e <=> ~ Hit(0, a) /\ ~ Hit(1, a)
      /\ m_arb(m) = IF Hit(1, a) THEN 1 ELSE 0
      /\ ~ (Hit(0, a) /\ Hit(1, a))
  BY <1>3, <1>4 DEF a, Slave
<1> HIDE DEF e, w
<1>7. e \/ w
  BY <1>1 DEF e, w
<1>8. \A s \in Slave : drden(s, m) <=> Hit(s, a)
  BY <1>5, <1>6, <1>7 DEF Slave
<1>9. ~ e => w /\ Hit(m_arb(m), a)
  BY <1>6, <1>7
<1> QED
  BY <1>2, <1>3, <1>8, <1>9 DEF a, e, w

(* Otherwise it takes nothing.                                             *)
LEMMA NothingTaken ==
    ASSUME NEW m \in Master, NEW s \in Slave, ~ Answered(m)
    PROVE  ~ drden(s, m)
<1> QED
  BY DEF Answered, m_wb_ack_i, m_wb_err_i, drden

Out(m) == IF Answered(m) THEN 1 ELSE 0
In(m)  == IF Accepted(m) THEN 1 ELSE 0

(* What a step does to the requests of a master: the answered one leaves,  *)
(* the accepted one joins.                                                 *)
LEMMA OwedAfter ==
    ASSUME Always, Sound, Next, astray' = 0, NEW m \in Master
    PROVE  /\ owed'[m] \in Seq(Req) /\ Len(owed'[m]) = Len(owed[m]) - Out(m) + In(m)
           /\ Out(m) <= Len(owed[m]) /\ Len(owed[m]) + In(m) <= BScale
           /\ \A k \in 1 .. Len(owed'[m]) :
                 owed'[m][k] = IF k <= Len(owed[m]) - Out(m) THEN owed[m][k + Out(m)] ELSE req[m]
<1> DEFINE o == IF Answered(m) THEN 1 ELSE 0
           a == IF Accepted(m) THEN 1 ELSE 0
           rest == IF Answered(m) THEN Tail(owed[m]) ELSE owed[m]
           n == Len(owed[m])
           b == Len(rest)
<1>1. owed'[m] = IF Accepted(m) THEN Append(rest, req[m]) ELSE rest
  BY DEF Next, Edge, History
<1>2. owed[m] \in Seq(Req) /\ DirOwed(m) /\ n \in Nat
  BY Parts DEF Slave
<1>3. Answered(m) => owed[m] # <<>>
  BY HeadOwed
<1>4. rest \in Seq(Req) /\ b = n - o /\ b \in Nat
  BY <1>2, <1>3
<1>5. \A k \in 1 .. b : rest[k] = owed[m][k + o]
  BY <1>2, <1>3
<1>6. Accepted(m) => req[m] \in Req
  BY AskedFor DEF Always
<1>7. n <= BScale /\ (Accepted(m) => n # BScale)
  BY <1>2 DEF DirOwed, Accepted, m_wb_stall_i
<1>8. owed'[m] \in Seq(Req) /\ Len(owed'[m]) = b + a
  <2> HIDE DEF rest, n
  <2> QED
    BY <1>1, <1>4, <1>6
<1>9. ASSUME NEW k \in 1 .. b + a PROVE owed'[m][k] = IF k <= b THEN rest[k] ELSE req[m]
  <2> HIDE DEF rest, n
  <2> QED
    BY <1>1, <1>4, <1>6
<1>10. o \in {0, 1} /\ a \in {0, 1} /\ (a = 1 => Accepted(m))
  OBVIOUS
<1> HIDE DEF rest, n, b, o, a
<1>11. n + a <= BScale /\ o <= n
  BY <1>2, <1>4, <1>7, <1>10, Sizes
<1>12. \A k \in 1 .. b + a : owed'[m][k] = IF k <= n - o THEN owed[m][k + o] ELSE req[m]
  BY ONLY <1>2, <1>4, <1>5, <1>9, <1>10, <1>11
<1> QED
  BY <1>4, <1>8, <1>11, <1>12 DEF n, o, a, Out, In

(* The registers follow: what is shifted in is the direction of the        *)
(* request that joins, and the others move up with it.                     *)
LEMMA MastersFollow ==
    ASSUME Always, Sound, Next, astray' = 0, NEW m \in Master
    PROVE  DirOwed(m)'
<1> DEFINE n == Len(owed[m])
           n2 == Len(owed'[m])
           o == Out(m)
           a == In(m)
<1>1. /\ n2 = n - o + a
      /\ o <= n /\ n + a <= BScale
      /\ \A k \in 1 .. n2 : owed'[m][k] = IF k <= n - o THEN owed[m][k + o] ELSE req[m]
  BY OwedAfter
<1>2. DirOwed(m) /\ n \in Nat /\ o \in {0, 1} /\ a \in {0, 1}
  BY Parts DEF Slave, Out, In
<1>3. m_dir_fst'[m] = MarkAfter(m_dir_fst[m], Accepted(m), Answered(m))
  BY DEF Next, Edge, MasterMarks
<1>4. m_dir_fst[m] = n
  BY <1>2 DEF DirOwed
<1>5. Accepted(m) \in BOOLEAN /\ (Accepted(m) <=> a = 1)
  BY DEF Accepted, In
<1>6. Answered(m) \in BOOLEAN /\ (Answered(m) <=> o = 1)
  BY DEF Answered, Out
<1>7. m_dir_fst'[m] = n2
  <2> DEFINE in == Accepted(m)
             out == Answered(m)
  <2>1. m_dir_fst'[m] = IF in <=> out THEN n
                        ELSE IF in THEN (n + 1) % (BScale + 1)
                        ELSE IF n = 0 THEN 0 ELSE n - 1
    BY <1>3, <1>4, <1>5, <1>6 DEF MarkAfter
  <2> HIDE DEF n, n2, o, a, in, out
  <2>2. in <=> a = 1
    BY <1>5 DEF in
  <2>3. out <=> o = 1
    BY <1>6 DEF out
  <2>4. n < BScale => (n + 1) % (BScale + 1) = n + 1
    BY <1>2, Sizes
  <2>5. BScale \in Nat
    BY Sizes
  <2> QED
    BY ONLY <1>1, <1>2, <2>1, <2>2, <2>3, <2>4, <2>5
<1>8. ASSUME NEW p \in 1 .. n2
      PROVE  /\ m_dir_sel'[m][p] <=> IF a = 0 THEN m_dir_sel[m][p] ELSE IF p = 1 THEN hwren(m, 1) ELSE m_dir_sel[m][p - 1]
             /\ m_err_sel'[m][p] <=> IF a = 0 THEN m_err_sel[m][p]
                                     ELSE IF p = 1 THEN \A s \in Slave : ~ hwren(m, s) ELSE m_err_sel[m][p - 1]
  <2>1. p \in 1 .. BScale /\ p <= n2 /\ p <= DirBits
    <3> HIDE DEF n, n2, o, a
    <3> QED
      BY <1>1, <1>2, Sizes
  <2>2. /\ m_dir_sel'[m] = ShiftIn(m_dir_sel[m], n2, Accepted(m), hwren(m, 1))
        /\ m_err_sel'[m] = ShiftIn(m_err_sel[m], n2, Accepted(m), \A s \in Slave : ~ hwren(m, s))
    BY <1>7 DEF Next, Edge, MasterMarks
  <2>3. a = 0 <=> ~ Accepted(m)
    BY DEF In
  <2> HIDE DEF n2, a
  <2> QED
    BY <2>1, <2>2, <2>3 DEF ShiftIn
<1>9. a = 1 => /\ hwren(m, 1) <=> Hit(1, req[m].addr)
               /\ (\A s \in Slave : ~ hwren(m, s)) <=> \A s \in Slave : ~ Hit(s, req[m].addr)
  BY DEF hwren, In
<1>10. \A k \in 1 .. n : /\ m_dir_sel[m][n + 1 - k] <=> Hit(1, owed[m][k].addr)
                         /\ m_err_sel[m][n + 1 - k] <=> \A s \in Slave : ~ Hit(s, owed[m][k].addr)
  BY <1>2 DEF DirOwed
<1> HIDE DEF n, n2, o, a
<1>11. ASSUME NEW k \in 1 .. n2
       PROVE  /\ m_dir_sel'[m][n2 + 1 - k] <=> Hit(1, owed'[m][k].addr)
              /\ m_err_sel'[m][n2 + 1 - k] <=> \A s \in Slave : ~ Hit(s, owed'[m][k].addr)
  <2> DEFINE p == n2 + 1 - k
             r == owed'[m][k]
  <2>0. n2 \in Nat /\ k \in Nat /\ 1 <= k /\ k <= n2
    BY ONLY <1>1, <1>2, k \in 1 .. n2
  <2>1. p \in 1 .. n2
    BY ONLY <2>0
  <2>2. r = IF k <= n - o THEN owed[m][k + o] ELSE req[m]
    BY ONLY <1>1, k \in 1 .. n2
  <2>3. CASE k <= n - o
    <3>1. k + o \in 1 .. n /\ n + 1 - (k + o) = IF a = 0 THEN p ELSE p - 1
      BY ONLY <1>1, <1>2, <2>0, <2>3
    <3>2. a = 1 => p # 1
      BY ONLY <1>1, <1>2, <2>0, <2>3
    <3>3. r = owed[m][k + o]
      BY ONLY <2>2, <2>3
    <3> DEFINE q == n + 1 - (k + o)
    <3>4. /\ m_dir_sel[m][q] <=> Hit(1, r.addr)
          /\ m_err_sel[m][q] <=> \A s \in Slave : ~ Hit(s, r.addr)
      BY ONLY <1>10, <3>1, <3>3
    <3> HIDE DEF q, p, r
    <3>5. q = IF a = 0 THEN p ELSE p - 1
      BY ONLY <3>1 DEF q
    <3>6. /\ m_dir_sel'[m][p] <=> m_dir_sel[m][q]
          /\ m_err_sel'[m][p] <=> m_err_sel[m][q]
      BY <1>8, <2>1, <3>2, <3>5, <1>2
    <3> QED
      BY <3>4, <3>6 DEF p, r
  <2>4. CASE ~ (k <= n - o)
    <3>1. a = 1 /\ p = 1 /\ r = req[m]
      BY ONLY <1>1, <1>2, <2>0, <2>2, <2>4
    <3> HIDE DEF p, r
    <3> QED
      BY <1>8, <1>9, <2>1, <3>1 DEF p, r
  <2> QED
    BY <2>3, <2>4
<1>12. n2 <= BScale
  BY <1>1, <1>2, Sizes
<1> QED
  BY <1>7, <1>11, <1>12 DEF DirOwed, n2

(* The word of a write that leads its FIFO leads the data FIFO.            *)
LEMMA WordOfHead ==
    ASSUME Always, NEW m \in Master, NEW s \in Slave, headers[m][s] # <<>>, headers[m][s][1].we
    PROVE  data[m][s] # <<>> /\ data[m][s][1] = headers[m][s][1].addr
<1>1. PICK w \in Seq(Hdr) : /\ Those(w, headers[m][s], Wr) /\ Len(data[m][s]) = Len(w)
                            /\ \A i \in 1 .. Len(data[m][s]) : data[m][s][i] = w[i].addr
  BY Fronts DEF HeadersFit, DataOf
<1>2. headers[m][s] \in Seq(Hdr) /\ data[m][s] \in Seq(Addr)
  BY Fronts
<1>3. headers[m][s][1] \in Wr
  BY <1>2 DEF Wr
<1>4. w # <<>> /\ w[1] = headers[m][s][1]
  BY <1>1, <1>2, <1>3, ThoseTailIn
<1>5. Len(w) \in Nat \ {0}
  BY <1>4
<1> QED
  BY <1>1, <1>2, <1>4, <1>5

(* What a slave is offered is the oldest header of the master whose FIFO   *)
(* is read, with its word.                                                 *)
LEMMA OfferedIs ==
    ASSUME Always, NEW m \in Master, NEW s \in Slave, hrden(m, s)
    PROVE  /\ Offered(s) \in Bus /\ Offered(s).from = m
           /\ \A r \in Req : IsHdr(headers[m][s][1], r) => IsBus(Offered(s), r)
<1> DEFINE h == headers[m][s][1]
<1>1. headers[m][s] # <<>> /\ headers[m][s] \in Seq(Hdr) /\ data[m][s] \in Seq(Addr)
  BY Fronts, Popped
<1>2. h \in Hdr
  BY <1>1
<1>3. (IF m1_dir(s) THEN 1 ELSE 0) = m
  BY DEF hrden, Master
<1>4. Head(headers[m][s]) = h
  BY <1>1
<1>5. Offered(s) = [from |-> m, we |-> h.we, dat |-> IF h.we THEN Head(data[m][s]) ELSE h.addr]
  BY <1>3, <1>4 DEF Offered, Sender
<1>6. h.we => Head(data[m][s]) = h.addr
  BY <1>1, WordOfHead
<1>7. Offered(s) = [from |-> m, we |-> h.we, dat |-> h.addr]
  BY <1>2, <1>5, <1>6 DEF Hdr
<1> QED
  BY <1>2, <1>7 DEF Hdr, Bus, IsHdr, IsBus

(* A slave is offered what the FIFO of one of the masters is read for.     *)
LEMMA SomeHeader ==
    ASSUME NEW s \in Slave
    PROVE  /\ s_wb_stb(s) \in BOOLEAN /\ m1_dir(s) \in BOOLEAN
           /\ s_wb_stb(s) <=> \E m \in Master : hrden(m, s)
           /\ s_wb_stb(s) => \A m \in Master : hrden(m, s) <=> (m1_dir(s) <=> m = 1)
<1>1. s_wb_stb(s) \in BOOLEAN
  BY DEF s_wb_stb
<1>2. m1_dir(s) \in BOOLEAN
  BY DEF m1_dir
<1>3. ASSUME NEW m \in Master PROVE hrden(m, s) <=> s_wb_stb(s) /\ (m1_dir(s) <=> m = 1)
  BY <1>2 DEF hrden
<1> QED
  BY <1>1, <1>2, <1>3 DEF Master

(* What a step leaves of the headers a master has for a slave.             *)
LEMMA HeadersAfter ==
    ASSUME Always, Next, NEW m \in Master, NEW s \in Slave
    PROVE  LET rest == IF hrden(m, s) THEN Tail(headers[m][s]) ELSE headers[m][s]
               h    == [addr |-> req[m].addr, we |-> req[m].we, tag |-> time_tag]
           IN /\ headers'[m][s] = IF hwren(m, s) THEN Append(rest, h) ELSE rest
              /\ rest \in Seq(Hdr) /\ headers'[m][s] \in Seq(Hdr)
              /\ hwren(m, s) => h \in Hdr /\ req[m] \in Req /\ IsHdr(h, req[m]) /\ Hit(s, req[m].addr)
              /\ Len(headers'[m][s]) <= Depth
<1> DEFINE q    == headers[m][s]
           rest == IF hrden(m, s) THEN Tail(q) ELSE q
           h    == [addr |-> req[m].addr, we |-> req[m].we, tag |-> time_tag]
           q2   == headers'[m][s]
<1>1. q2 = IF hwren(m, s) THEN Append(rest, h) ELSE rest
  BY DEF Next, Edge, Fifos, Fifo
<1>2. q \in Seq(Hdr) /\ Len(q) <= Depth
  BY Fronts DEF HeadersFit
<1>3. hrden(m, s) => q # <<>>
  BY Popped
<1>4. rest \in Seq(Hdr) /\ Len(rest) <= Len(q) /\ Len(rest) \in Nat /\ Len(q) \in Nat
  BY <1>2, <1>3
<1>5. hwren(m, s) => h \in Hdr /\ req[m] \in Req /\ IsHdr(h, req[m]) /\ Hit(s, req[m].addr)
  BY AskedFor DEF hwren, IsHdr
<1>6. hwren(m, s) => Len(q) # Depth
  BY DEF hwren, Accepted, m_wb_stall_i
<1> HIDE DEF q, rest, h, q2
<1>7. q2 \in Seq(Hdr)
  BY <1>1, <1>4, <1>5, AppendProperties
<1>8. Len(q2) = IF hwren(m, s) THEN Len(rest) + 1 ELSE Len(rest)
  BY <1>1, <1>4, <1>5, AppendProperties
<1>9. Len(q2) <= Depth
  BY <1>2, <1>4, <1>6, <1>8, Sizes
<1> QED
  BY <1>1, <1>4, <1>5, <1>7, <1>9 DEF q, rest, h, q2

(* Reading a header takes the word of a write with it.                     *)
LEMMA WordRead ==
    ASSUME NEW d \in Seq(Addr), NEW h \in Seq(Hdr), h # <<>>, DataOf(d, h)
    PROVE  LET rest == IF h[1].we THEN Tail(d) ELSE d
           IN rest \in Seq(Addr) /\ DataOf(rest, Tail(h))
<1>1. PICK w \in Seq(Hdr) : /\ Those(w, h, Wr) /\ Len(d) = Len(w)
                            /\ \A i \in 1 .. Len(d) : d[i] = w[i].addr
  BY DEF DataOf
<1>2. h[1] \in Hdr
  BY LenProperties, EmptySeq
<1>3. CASE h[1].we
  <2>1. w # <<>> /\ Those(Tail(w), Tail(h), Wr)
    BY <1>1, <1>2, <1>3, ThoseTailIn DEF Wr
  <2>2. d # <<>>
    BY <1>1, <2>1, EmptySeq
  <2> DEFINE w2 == Tail(w)
             d2 == Tail(d)
             n  == Len(d)
  <2>3. w2 \in Seq(Hdr) /\ Len(w2) = n - 1 /\ \A i \in 1 .. n - 1 : w2[i] = w[i + 1]
    BY <1>1, <2>1, HeadTailProperties
  <2>4. d2 \in Seq(Addr) /\ Len(d2) = n - 1 /\ \A i \in 1 .. n - 1 : d2[i] = d[i + 1]
    BY <2>2, HeadTailProperties
  <2>5. n \in Nat
    OBVIOUS
  <2>6. \A i \in 1 .. n : d[i] = w[i].addr
    BY <1>1
  <2> HIDE DEF w2, d2, n
  <2>7. \A i \in 1 .. Len(d2) : d2[i] = w2[i].addr
    BY ONLY <2>3, <2>4, <2>5, <2>6
  <2>8. DataOf(d2, Tail(h))
    BY <2>1, <2>3, <2>4, <2>7 DEF DataOf, w2
  <2> QED
    BY <1>3, <2>4, <2>8 DEF d2
<1>4. CASE ~ h[1].we
  <2>1. Those(w, Tail(h), Wr)
    BY <1>1, <1>4, ThoseTailOut DEF Wr
  <2> QED
    BY <1>1, <1>4, <2>1 DEF DataOf
<1> QED
  BY <1>3, <1>4

(* And writing one brings it.                                              *)
LEMMA WordWritten ==
    ASSUME NEW d \in Seq(Addr), NEW h \in Seq(Hdr), DataOf(d, h), NEW x \in Hdr
    PROVE  LET more == IF x.we THEN Append(d, x.addr) ELSE d
           IN more \in Seq(Addr) /\ DataOf(more, Append(h, x))
<1>1. PICK w \in Seq(Hdr) : /\ Those(w, h, Wr) /\ Len(d) = Len(w)
                            /\ \A i \in 1 .. Len(d) : d[i] = w[i].addr
  BY DEF DataOf
<1>2. CASE x.we
  <2>1. Those(Append(w, x), Append(h, x), Wr)
    BY <1>1, <1>2, ThoseAppendIn DEF Wr
  <2> DEFINE w2 == Append(w, x)
             d2 == Append(d, x.addr)
             n  == Len(d)
  <2>2. x.addr \in Addr
    BY DEF Hdr
  <2>3. w2 \in Seq(Hdr) /\ Len(w2) = n + 1 /\ w2[n + 1] = x /\ \A i \in 1 .. n : w2[i] = w[i]
    BY <1>1, AppendProperties
  <2>4. d2 \in Seq(Addr) /\ Len(d2) = n + 1 /\ d2[n + 1] = x.addr /\ \A i \in 1 .. n : d2[i] = d[i]
    BY <2>2, AppendProperties
  <2>5. n \in Nat
    OBVIOUS
  <2>6. \A i \in 1 .. n : d[i] = w[i].addr
    BY <1>1
  <2> HIDE DEF w2, d2, n
  <2>7. ASSUME NEW i \in 1 .. n + 1 PROVE d2[i] = w2[i].addr
    <3>1. CASE i \in 1 .. n
      BY ONLY <2>3, <2>4, <2>6, <3>1
    <3>2. CASE i = n + 1
      BY ONLY <2>3, <2>4, <3>2
    <3> QED
      BY ONLY <2>5, <3>1, <3>2, i \in 1 .. n + 1
  <2>8. DataOf(d2, Append(h, x))
    BY <2>1, <2>3, <2>4, <2>7 DEF DataOf, w2
  <2> QED
    BY <1>2, <2>4, <2>8 DEF d2
<1>3. CASE ~ x.we
  <2>1. Those(w, Append(h, x), Wr)
    BY <1>1, <1>3, ThoseAppendOut DEF Wr
  <2> QED
    BY <1>1, <1>3, <2>1 DEF DataOf
<1> QED
  BY <1>2, <1>3

(* So the data FIFO stays with the headers.                                *)
LEMMA DataAfter ==
    ASSUME Always, Next, NEW m \in Master, NEW s \in Slave
    PROVE  data'[m][s] \in Seq(Addr) /\ DataOf(data'[m][s], headers'[m][s])
<1> DEFINE q  == headers[m][s]
           d  == data[m][s]
           rd == hrden(m, s)
           wr == hwren(m, s)
           h  == [addr |-> req[m].addr, we |-> req[m].we, tag |-> time_tag]
           q1 == IF rd THEN Tail(q) ELSE q
           d1 == IF rd /\ Head(q).we THEN Tail(d) ELSE d
<1>1. q \in Seq(Hdr) /\ d \in Seq(Addr) /\ DataOf(d, q)
  BY Fronts DEF HeadersFit
<1>2. /\ headers'[m][s] = IF wr THEN Append(q1, h) ELSE q1
      /\ q1 \in Seq(Hdr) /\ (wr => h \in Hdr)
  BY HeadersAfter
<1>3. data'[m][s] = IF wr /\ h.we THEN Append(d1, h.addr) ELSE d1
  BY DEF Next, Edge, Fifos, Fifo
<1>4. rd => q # <<>>
  BY Popped
<1> HIDE DEF q, d, rd, wr, h
<1>5. d1 \in Seq(Addr) /\ DataOf(d1, q1)
  <2>1. CASE rd
    <3>1. Head(q) = q[1]
      BY <1>1, <1>4, <2>1
    <3> QED
      BY <1>1, <1>4, <2>1, <3>1, WordRead
  <2>2. CASE ~ rd
    BY <1>1, <2>2
  <2> QED
    BY <2>1, <2>2
<1> HIDE DEF q1, d1
<1>6. CASE wr
  BY <1>2, <1>3, <1>5, <1>6, WordWritten
<1>7. CASE ~ wr
  BY <1>2, <1>3, <1>5, <1>7
<1> QED
  BY <1>6, <1>7

(* Requests that a slave takes, and answers that it gives, in a cycle.     *)
Takes(s)          == IF s_wb_stb(s) THEN 1 ELSE 0
Gives(s, replies) == IF s \in replies THEN 1 ELSE 0

(* A slave that takes what it is offered.                                  *)
LEMMA WithOffered ==
    ASSUME Always, Sound, NEW s \in Slave
    PROVE  /\ InSlave(s, {}) \in Seq(Bus) /\ Len(InSlave(s, {})) = Len(held[s]) + Takes(s)
           /\ \A i \in 1 .. Len(held[s]) + Takes(s) :
                 InSlave(s, {})[i] = IF i <= Len(held[s]) THEN held[s][i] ELSE Offered(s)
           /\ Ages(s, {}) \in Seq(Nat) /\ Len(Ages(s, {})) = Len(held[s]) + Takes(s)
           /\ \A i \in 1 .. Len(held[s]) + Takes(s) :
                 Ages(s, {})[i] = IF i <= Len(held[s]) THEN age[s][i] ELSE 0
<1> DEFINE stb == s_wb_stb(s)
           q   == held[s]
           g   == age[s]
           x   == Offered(s)
           n   == Len(q)
<1>1. q \in Seq(Bus) /\ g \in Seq(Nat) /\ Len(g) = n /\ n \in Nat
  BY Parts DEF HeldInOrder, Master
<1>2. stb => x \in Bus
  BY SomeHeader, OfferedIs
<1>3. InSlave(s, {}) = IF stb THEN Append(q, x) ELSE q
  BY DEF InSlave, Taken
<1>4. Ages(s, {}) = IF stb THEN Append(g, 0) ELSE g
  BY DEF Ages, Taken
<1> HIDE DEF stb, q, g, x
<1>5. CASE stb
  <2>1. Takes(s) = 1
    BY <1>5 DEF Takes, stb
  <2>2. InSlave(s, {}) \in Seq(Bus) /\ Len(InSlave(s, {})) = n + 1
    BY <1>1, <1>2, <1>3, <1>5
  <2>3. \A i \in 1 .. n + 1 : InSlave(s, {})[i] = IF i <= n THEN q[i] ELSE x
    BY <1>1, <1>2, <1>3, <1>5
  <2>4. Ages(s, {}) \in Seq(Nat) /\ Len(Ages(s, {})) = n + 1
    BY <1>1, <1>4, <1>5
  <2>5. \A i \in 1 .. n + 1 : Ages(s, {})[i] = IF i <= n THEN g[i] ELSE 0
    BY <1>1, <1>4, <1>5
  <2> QED
    BY <2>1, <2>2, <2>3, <2>4, <2>5 DEF q, g, x
<1>6. CASE ~ stb
  <2>1. Takes(s) = 0 /\ n + 0 = n
    BY <1>1, <1>6 DEF Takes, stb
  <2>2. \A i \in 1 .. n : i <= n
    BY <1>1
  <2> QED
    BY <1>1, <1>3, <1>4, <1>6, <2>1, <2>2 DEF q, g, x
<1> QED
  BY <1>5, <1>6

(* What a step leaves in it: the answered request leaves, the offered one  *)
(* joins, and all are a cycle older.                                       *)
LEMMA HeldAfter ==
    ASSUME Always, Sound, NEW replies, Steady(replies), NEW s \in Slave
    PROVE  LET n == Len(held[s])
               a == Takes(s)
               o == Gives(s, replies)
           IN /\ o <= n + a
              /\ held'[s] \in Seq(Bus) /\ Len(held'[s]) = n + a - o
              /\ \A k \in 1 .. n + a - o :
                    held'[s][k] = IF k + o <= n THEN held[s][k + o] ELSE Offered(s)
              /\ age'[s] \in Seq(Nat) /\ Len(age'[s]) = n + a - o
              /\ \A k \in 1 .. n + a - o :
                    age'[s][k] = (IF k + o <= n THEN age[s][k + o] ELSE 0) + 1
              /\ o = 0 /\ n + a > 0 => (IF 1 <= n THEN age[s][1] ELSE 0) < Delay[s]
<1> DEFINE n  == Len(held[s])
           a  == Takes(s)
           o  == Gives(s, replies)
           in == InSlave(s, {})
           ag == Ages(s, {})
           r  == IF s \in replies THEN Tail(in) ELSE in
           t  == IF s \in replies THEN Tail(ag) ELSE ag
<1>1. /\ in \in Seq(Bus) /\ Len(in) = n + a
      /\ \A i \in 1 .. n + a : in[i] = IF i <= n THEN held[s][i] ELSE Offered(s)
      /\ ag \in Seq(Nat) /\ Len(ag) = n + a
      /\ \A i \in 1 .. n + a : ag[i] = IF i <= n THEN age[s][i] ELSE 0
  BY WithOffered
<1>2. n \in Nat /\ a \in {0, 1} /\ o \in {0, 1} /\ (o = 1 <=> s \in replies)
  BY Parts DEF Master, Takes, Gives
<1>3. held'[s] = r /\ age'[s] = [i \in 1 .. Len(t) |-> t[i] + 1]
  BY DEF Steady, Edge, SlavesAnswer
<1>4. /\ replies \in SUBSET Slave
      /\ s \in replies => in # <<>>
      /\ s \notin replies /\ in # <<>> => ~ (Head(ag) >= Delay[s])
  <2>1. replies \in Replies({})
    BY DEF Steady
  <2>2. replies \in SUBSET Slave /\ (s \in replies => MayAnswer(s, {}))
    BY <2>1 DEF Replies
  <2>3. MayAnswer(s, {}) /\ MustAnswer(s, {}) => s \in replies
    BY <2>1 DEF Replies
  <2> QED
    BY <2>2, <2>3 DEF MayAnswer, MustAnswer
<1>5. Delay[s] \in Nat
  BY DelayAssumption, Sizes
<1> HIDE DEF n, a, o, in, ag
<1>6. (in = <<>> <=> n + a = 0) /\ n + a \in Nat
  BY <1>1, <1>2, EmptySeq
<1>7. o <= n + a
  BY <1>2, <1>4, <1>6
<1>8. CASE s \in replies
  <2>1. o = 1 /\ n + a \in Nat \ {0} /\ in # <<>> /\ ag # <<>>
    BY <1>1, <1>2, <1>4, <1>6, <1>8, EmptySeq
  <2>2. r = Tail(in) /\ t = Tail(ag)
    BY <1>8
  <2> HIDE DEF r, t
  <2>a. r \in Seq(Bus) /\ Len(r) = Len(in) - 1 /\ \A k \in 1 .. Len(in) - 1 : r[k] = in[k + 1]
    BY <1>1, <2>1, <2>2, HeadTailProperties
  <2>b. t \in Seq(Nat) /\ Len(t) = Len(ag) - 1 /\ \A k \in 1 .. Len(ag) - 1 : t[k] = ag[k + 1]
    BY <1>1, <2>1, <2>2, HeadTailProperties
  <2>3. r \in Seq(Bus) /\ Len(r) = n + a - 1 /\ \A k \in 1 .. n + a - 1 : r[k] = in[k + 1]
    BY ONLY <1>1, <1>2, <1>6, <2>a
  <2>4. t \in Seq(Nat) /\ Len(t) = n + a - 1 /\ \A k \in 1 .. n + a - 1 : t[k] = ag[k + 1]
    BY ONLY <1>1, <1>2, <1>6, <2>b
  <2>5. ASSUME NEW k \in 1 .. n + a - 1
        PROVE  /\ r[k] = IF k + 1 <= n THEN held[s][k + 1] ELSE Offered(s)
               /\ t[k] = IF k + 1 <= n THEN age[s][k + 1] ELSE 0
    <3>1. k + 1 \in 1 .. n + a
      BY ONLY <1>2, k \in 1 .. n + a - 1
    <3> QED
      BY <1>1, <2>3, <2>4, <3>1
  <2>6. [i \in 1 .. Len(t) |-> t[i] + 1] \in Seq(Nat) /\ Len([i \in 1 .. Len(t) |-> t[i] + 1]) = n + a - 1
    <3>1. \A i \in 1 .. Len(t) : t[i] + 1 \in Nat
      BY <2>4
    <3>2. Len(t) \in Nat
      BY <2>4
    <3> QED
      BY <2>4, <3>1, <3>2, SMTT(30)
  <2> QED
    BY <1>3, <1>7, <2>1, <2>3, <2>4, <2>5, <2>6 DEF n, a, o
<1>9. CASE s \notin replies
  <2>1. o = 0 /\ r = in /\ t = ag /\ n + a - 0 = n + a
    BY <1>2, <1>9, <1>6
  <2> HIDE DEF r, t
  <2>2. [i \in 1 .. Len(t) |-> t[i] + 1] \in Seq(Nat) /\ Len([i \in 1 .. Len(t) |-> t[i] + 1]) = n + a
    <3>1. \A i \in 1 .. Len(t) : t[i] + 1 \in Nat
      BY <1>1, <2>1
    <3>2. Len(t) \in Nat
      BY <1>1, <2>1
    <3> QED
      BY <1>1, <2>1, <3>1, <3>2, SMTT(30)
  <2>3. n + a > 0 => (IF 1 <= n THEN age[s][1] ELSE 0) < Delay[s]
    <3> SUFFICES ASSUME n + a > 0 PROVE (IF 1 <= n THEN age[s][1] ELSE 0) < Delay[s]
      OBVIOUS
    <3>1. in # <<>> /\ ag # <<>> /\ 1 \in 1 .. n + a
      BY <1>1, <1>6, EmptySeq
    <3>2. Head(ag) = ag[1] /\ ag[1] \in Nat
      BY <1>1, <3>1
    <3>3. ag[1] = IF 1 <= n THEN age[s][1] ELSE 0
      BY <1>1, <3>1
    <3> QED
      BY <1>4, <1>5, <1>9, <3>1, <3>2, <3>3
  <2>4. \A k \in 1 .. n + a : k + 0 = k
    BY <1>6
  <2>5. \A k \in 1 .. n + a : /\ held'[s][k] = IF k <= n THEN held[s][k] ELSE Offered(s)
                              /\ age'[s][k] = (IF k <= n THEN age[s][k] ELSE 0) + 1
    BY <1>1, <1>3, <2>1
  <2>6. held'[s] \in Seq(Bus) /\ Len(held'[s]) = n + a
    BY <1>1, <1>3, <2>1
  <2>7. age'[s] \in Seq(Nat) /\ Len(age'[s]) = n + a
    BY <1>3, <2>2
  <2> QED
    BY <1>7, <2>1, <2>3, <2>4, <2>5, <2>6, <2>7 DEF n, a, o
<1> QED
  BY <1>8, <1>9

(* The ages stay within the slave's delay, so it holds no more than that.  *)
LEMMA AgesKept ==
    ASSUME NEW d \in Nat, NEW p \in Seq(Nat), AgesIn(p, d), NEW q \in Seq(Nat), NEW a \in {0, 1}, NEW o \in {0, 1},
           o <= Len(p) + a, Len(q) = Len(p) + a - o,
           \A k \in 1 .. Len(p) + a - o : q[k] = (IF k + o <= Len(p) THEN p[k + o] ELSE 0) + 1,
           o = 0 /\ Len(p) + a > 0 => (IF 1 <= Len(p) THEN p[1] ELSE 0) < d
    PROVE  AgesIn(q, d) /\ Len(q) <= d
<1> DEFINE n == Len(p)
           m == Len(q)
<1>1. n \in Nat /\ m \in Nat /\ m = n + a - o
  OBVIOUS
<1>2. \A i \in 1 .. n : p[i] \in Nat /\ 1 <= p[i] /\ p[i] + i <= d + 1
  BY DEF AgesIn
<1>3. \A i, j \in 1 .. n : i < j => p[j] + j <= p[i] + i
  BY DEF AgesIn
<1>4. \A k \in 1 .. m : q[k] = (IF k + o <= n THEN p[k + o] ELSE 0) + 1
  BY <1>1
<1>5. o = 0 /\ n + a > 0 => (IF 1 <= n THEN p[1] ELSE 0) < d
  OBVIOUS
<1> HIDE DEF n, m
<1>6. n <= d
  <2>1. CASE n = 0
    BY ONLY <2>1, d \in Nat
  <2>2. CASE n # 0
    <3>1. n \in 1 .. n
      BY ONLY <1>1, <2>2
    <3>2. p[n] \in Nat /\ 1 <= p[n] /\ p[n] + n <= d + 1
      BY ONLY <1>2, <3>1
    <3> QED
      BY ONLY <1>1, <3>2, d \in Nat
  <2> QED
    BY ONLY <2>1, <2>2
<1>7. ASSUME o = 0, NEW i \in 1 .. n PROVE p[i] + i <= d
  <2>1. 1 \in 1 .. n /\ n + a > 0 /\ 1 <= n
    BY ONLY <1>1, i \in 1 .. n, a \in {0, 1}
  <2>2. p[1] < d /\ p[1] \in Nat /\ p[i] \in Nat
    BY ONLY <1>2, <1>5, <2>1, o = 0, i \in 1 .. n
  <2>3. CASE i = 1
    BY ONLY <2>2, <2>3, d \in Nat
  <2>4. CASE 1 < i
    <3>1. p[i] + i <= p[1] + 1
      BY ONLY <1>3, <2>1, <2>4, i \in 1 .. n
    <3> QED
      BY ONLY <1>1, <2>2, <3>1, d \in Nat, i \in 1 .. n
  <2> QED
    BY ONLY <1>1, <2>3, <2>4, i \in 1 .. n
<1>8. ASSUME NEW k \in 1 .. m, ~ (k + o <= n) PROVE k + o = n + 1 /\ q[k] = 1 /\ k <= d
  <2>1. k + o = n + 1 /\ a = 1
    BY ONLY <1>1, <1>8, k \in 1 .. m, a \in {0, 1}, o \in {0, 1}
  <2>2. q[k] = 1
    BY ONLY <1>4, <1>8, k \in 1 .. m
  <2>3. CASE o = 1
    BY ONLY <1>1, <1>6, <2>1, <2>2, <2>3, k \in 1 .. m, d \in Nat
  <2>4. CASE o = 0 /\ n = 0
    <3>1. n + a > 0 /\ ~ (1 <= n) /\ k = 1
      BY ONLY <1>1, <2>1, <2>4, k \in 1 .. m
    <3>2. 0 < d
      BY ONLY <1>5, <2>4, <3>1
    <3> QED
      BY ONLY <2>1, <2>2, <3>1, <3>2, d \in Nat
  <2>5. CASE o = 0 /\ n # 0
    <3>1. n \in 1 .. n
      BY ONLY <1>1, <2>5
    <3>2. p[n] + n <= d
      BY <1>7, <2>5, <3>1
    <3>3. p[n] \in Nat /\ 1 <= p[n]
      BY ONLY <1>2, <3>1
    <3> QED
      BY ONLY <1>1, <2>1, <2>2, <2>5, <3>2, <3>3, d \in Nat
  <2> QED
    BY ONLY <2>1, <2>2, <2>3, <2>4, <2>5, o \in {0, 1}
<1>9. ASSUME NEW k \in 1 .. m, k + o <= n PROVE k + o \in 1 .. n /\ q[k] = p[k + o] + 1 /\ p[k + o] \in Nat
  <2>1. k + o \in 1 .. n
    BY ONLY <1>1, <1>9, k \in 1 .. m, o \in {0, 1}
  <2> QED
    BY ONLY <1>2, <1>4, <1>9, <2>1, k \in 1 .. m
<1>10. ASSUME NEW k \in 1 .. m PROVE 1 <= q[k] /\ q[k] + k <= d + 1
  <2>1. CASE k + o <= n
    <3>1. k + o \in 1 .. n /\ q[k] = p[k + o] + 1 /\ p[k + o] \in Nat
      BY <1>9, <2>1
    <3>2. k \in Nat
      BY ONLY <1>1, k \in 1 .. m
    <3>3. CASE o = 1
      <4>1. p[k + 1] + (k + 1) <= d + 1
        BY ONLY <1>2, <3>1, <3>3
      <4> DEFINE x == p[k + 1]
      <4>2. q[k] = x + 1 /\ x \in Nat /\ x + (k + 1) <= d + 1
        BY ONLY <3>1, <3>3, <4>1
      <4> HIDE DEF x
      <4> QED
        BY ONLY <4>2, <3>2, d \in Nat
    <3>4. CASE o = 0
      <4>0. k + 0 = k
        BY ONLY <3>2
      <4>1. p[k] + k <= d
        BY <1>7, <3>1, <3>4, <4>0
      <4> DEFINE x == p[k]
      <4>2. q[k] = x + 1 /\ x \in Nat /\ x + k <= d
        BY ONLY <3>1, <3>4, <4>0, <4>1
      <4> HIDE DEF x
      <4> QED
        BY ONLY <4>2, <3>2, d \in Nat
    <3> QED
      BY ONLY <3>3, <3>4, o \in {0, 1}
  <2>2. CASE ~ (k + o <= n)
    <3>1. q[k] = 1 /\ k <= d
      BY <1>8, <2>2
    <3> QED
      BY ONLY <1>1, <3>1, d \in Nat, k \in 1 .. m
  <2> QED
    BY <2>1, <2>2
<1>11. ASSUME NEW i \in 1 .. m, NEW j \in 1 .. m, i < j PROVE q[j] + j <= q[i] + i
  <2>1. CASE j + o <= n
    <3>1. i + o <= n
      BY ONLY <1>1, <2>1, i \in 1 .. m, j \in 1 .. m, i < j, o \in {0, 1}
    <3>2. i + o \in 1 .. n /\ q[i] = p[i + o] + 1 /\ p[i + o] \in Nat
      BY <1>9, <3>1
    <3>3. j + o \in 1 .. n /\ q[j] = p[j + o] + 1 /\ p[j + o] \in Nat
      BY <1>9, <2>1
    <3>4. i + o < j + o
      BY ONLY <1>1, i \in 1 .. m, j \in 1 .. m, i < j, o \in {0, 1}
    <3>5. p[j + o] + (j + o) <= p[i + o] + (i + o)
      BY ONLY <1>3, <3>2, <3>3, <3>4
    <3> DEFINE x == p[i + o]
               y == p[j + o]
    <3>6. q[i] = x + 1 /\ q[j] = y + 1 /\ x \in Nat /\ y \in Nat /\ y + (j + o) <= x + (i + o)
      BY ONLY <3>2, <3>3, <3>5
    <3> HIDE DEF x, y
    <3>7. i \in Nat /\ j \in Nat /\ o \in Nat
      BY ONLY <1>1, i \in 1 .. m, j \in 1 .. m, o \in {0, 1}
    <3> QED
      BY ONLY <3>6, <3>7
  <2>2. CASE ~ (j + o <= n)
    <3>1. j + o = n + 1 /\ q[j] = 1
      BY <1>8, <2>2
    <3>2. i + o <= n
      BY ONLY <1>1, <3>1, i \in 1 .. m, j \in 1 .. m, i < j, o \in {0, 1}
    <3>3. i + o \in 1 .. n /\ q[i] = p[i + o] + 1 /\ p[i + o] \in Nat
      BY <1>9, <3>2
    <3>4. n \in 1 .. n
      BY ONLY <1>1, <3>3
    <3>5. p[n] \in Nat /\ 1 <= p[n]
      BY ONLY <1>2, <3>4
    <3>6. p[n] + n <= p[i + o] + (i + o)
      <4>1. CASE i + o = n
        BY ONLY <4>1, <3>3, <1>1
      <4>2. CASE i + o < n
        BY ONLY <1>3, <3>3, <3>4, <4>2
      <4> QED
        BY ONLY <1>1, <3>3, <4>1, <4>2
    <3> DEFINE x == p[i + o]
               y == p[n]
    <3>7. q[i] = x + 1 /\ x \in Nat /\ y \in Nat /\ 1 <= y /\ y + n <= x + (i + o)
      BY ONLY <3>3, <3>5, <3>6
    <3> HIDE DEF x, y
    <3>8. i \in Nat /\ j \in Nat /\ o \in Nat
      BY ONLY <1>1, i \in 1 .. m, j \in 1 .. m, o \in {0, 1}
    <3> QED
      BY ONLY <1>1, <3>1, <3>7, <3>8
  <2> QED
    BY <2>1, <2>2
<1>12. AgesIn(q, d)
  BY <1>10, <1>11 DEF AgesIn, m
<1>13. m <= d
  <2>1. CASE m = 0
    BY ONLY <2>1, d \in Nat
  <2>2. CASE m # 0
    <3>1. m \in 1 .. m
      BY ONLY <1>1, <2>2
    <3>2. 1 <= q[m] /\ q[m] + m <= d + 1
      BY <1>10, <3>1
    <3>3. q[m] \in Nat
      BY <3>1 DEF m
    <3> QED
      BY ONLY <1>1, <3>2, <3>3, d \in Nat
  <2> QED
    BY ONLY <2>1, <2>2
<1> QED
  BY <1>12, <1>13 DEF m

(* The registers of a slave follow as those of a master do.                *)
LEMMA SlavesFollow ==
    ASSUME Always, Sound, NEW replies, Steady(replies), NEW s \in Slave
    PROVE  HeldInOrder(s)'
<1> DEFINE n  == Len(held[s])
           n2 == Len(held'[s])
           a  == Takes(s)
           o  == Gives(s, replies)
           d  == Delay[s]
<1>1. /\ o <= n + a /\ n2 = n + a - o
      /\ \A k \in 1 .. n + a - o : held'[s][k] = IF k + o <= n THEN held[s][k + o] ELSE Offered(s)
      /\ age'[s] \in Seq(Nat) /\ Len(age'[s]) = n + a - o
      /\ \A k \in 1 .. n + a - o : age'[s][k] = (IF k + o <= n THEN age[s][k + o] ELSE 0) + 1
      /\ o = 0 /\ n + a > 0 => (IF 1 <= n THEN age[s][1] ELSE 0) < d
  BY HeldAfter
<1>2. n \in Nat /\ a \in {0, 1} /\ o \in {0, 1} /\ HeldInOrder(s) /\ age[s] \in Seq(Nat)
  BY Parts DEF Master, Takes, Gives
<1>3. d \in Nat /\ d <= BScale
  BY DelayAssumption, Sizes
<1>4. s_dir_fst[s] = n /\ Len(age[s]) = n /\ AgesIn(age[s], d)
  BY <1>2 DEF HeldInOrder
<1>5. AgesIn(age'[s], d) /\ Len(age'[s]) <= d
  <2> DEFINE p == age[s]
             q == age'[s]
  <2>1. p \in Seq(Nat) /\ AgesIn(p, d) /\ Len(p) = n /\ q \in Seq(Nat)
    BY <1>1, <1>2, <1>4
  <2>2. /\ o <= n + a /\ Len(q) = n + a - o
        /\ \A k \in 1 .. n + a - o : q[k] = (IF k + o <= n THEN p[k + o] ELSE 0) + 1
        /\ o = 0 /\ n + a > 0 => (IF 1 <= n THEN p[1] ELSE 0) < d
    BY <1>1
  <2> HIDE DEF n, a, o, d, p, q
  <2>3. /\ o <= Len(p) + a /\ Len(q) = Len(p) + a - o
        /\ \A k \in 1 .. Len(p) + a - o : q[k] = (IF k + o <= Len(p) THEN p[k + o] ELSE 0) + 1
        /\ o = 0 /\ Len(p) + a > 0 => (IF 1 <= Len(p) THEN p[1] ELSE 0) < d
    BY ONLY <2>1, <2>2
  <2>4. AgesIn(q, d) /\ Len(q) <= d
    BY ONLY <1>2, <1>3, <2>1, <2>3, AgesKept
  <2> QED
    BY <2>4 DEF q
<1>0. Taken(s, {}) = s_wb_stb(s)
  BY SomeHeader DEF Taken
<1>6. s_dir_fst'[s] = MarkAfter(n, s_wb_stb(s), s \in replies)
  <2>1. s_dir_fst'[s] = MarkAfter(s_dir_fst[s], Taken(s, {}), s \in replies)
    BY DEF Steady, Edge, SlaveMarks
  <2> QED
    BY <1>0, <1>4, <2>1
<1>7. s_dir_fst'[s] = n2
  <2> DEFINE in  == s_wb_stb(s)
             out == s \in replies
  <2>1. in \in BOOLEAN /\ out \in BOOLEAN /\ (in <=> a = 1) /\ (out <=> o = 1)
    BY SomeHeader DEF Takes, Gives
  <2>2. s_dir_fst'[s] = IF in <=> out THEN n
                        ELSE IF in THEN (n + 1) % (BScale + 1)
                        ELSE IF n = 0 THEN 0 ELSE n - 1
    BY <1>6, <2>1 DEF MarkAfter
  <2> HIDE DEF n, n2, o, a, in, out, d
  <2>3. n < BScale => (n + 1) % (BScale + 1) = n + 1
    BY <1>2, Sizes
  <2>4. BScale \in Nat /\ n2 <= BScale
    BY <1>1, <1>2, <1>3, <1>5, Sizes
  <2> QED
    BY ONLY <1>1, <1>2, <2>1, <2>2, <2>3, <2>4
<1>8. n2 \in Nat /\ n2 <= BScale /\ BScale \in Nat /\ BScale <= DirBits /\ DirBits \in Nat
  <2> HIDE DEF n, n2, o, a, d
  <2> QED
    BY <1>1, <1>2, <1>3, <1>5, Sizes
<1>9. ASSUME NEW p \in 1 .. n2
      PROVE  s_dir_sel'[s][p] <=> IF a = 0 THEN s_dir_sel[s][p] ELSE IF p = 1 THEN m1_dir(s) ELSE s_dir_sel[s][p - 1]
  <2>1. p \in 1 .. BScale /\ p <= n2 /\ p <= DirBits
    <3> HIDE DEF n2
    <3> QED
      BY <1>8
  <2>2. s_dir_sel'[s] = ShiftIn(s_dir_sel[s], n2, s_wb_stb(s), m1_dir(s))
    <3>1. s_dir_sel'[s] = ShiftIn(s_dir_sel[s], s_dir_fst'[s], Taken(s, {}), m1_dir(s))
      BY DEF Steady, Edge, SlaveMarks
    <3> QED
      BY <1>0, <1>7, <3>1
  <2>3. a = 0 <=> ~ s_wb_stb(s)
    BY DEF Takes
  <2>4. m1_dir(s) \in BOOLEAN
    BY SomeHeader
  <2> HIDE DEF n2, a
  <2> QED
    BY <2>1, <2>2, <2>3, <2>4 DEF ShiftIn
<1>10. m1_dir(s) <=> Offered(s).from = 1
  BY DEF Offered, Sender
<1>11. \A k \in 1 .. n : s_dir_sel[s][n + 1 - k] <=> held[s][k].from = 1
  BY <1>2 DEF HeldInOrder
<1> HIDE DEF n, n2, o, a, d
<1>12. ASSUME NEW k \in 1 .. n2
       PROVE  s_dir_sel'[s][n2 + 1 - k] <=> held'[s][k].from = 1
  <2> DEFINE p == n2 + 1 - k
             r == held'[s][k]
  <2>0. k \in Nat /\ 1 <= k /\ k <= n2
    BY ONLY <1>8, k \in 1 .. n2
  <2>1. p \in 1 .. n2
    BY ONLY <1>8, <2>0
  <2>2. r = IF k + o <= n THEN held[s][k + o] ELSE Offered(s)
    BY ONLY <1>1, k \in 1 .. n2
  <2>3. CASE k + o <= n
    <3> DEFINE q == n + 1 - (k + o)
    <3>1. k + o \in 1 .. n /\ q = IF a = 0 THEN p ELSE p - 1
      BY ONLY <1>1, <1>2, <2>0, <2>3
    <3>2. a = 1 => p # 1
      BY ONLY <1>1, <1>2, <2>0, <2>3
    <3>3. r = held[s][k + o]
      BY ONLY <2>2, <2>3
    <3>4. s_dir_sel[s][q] <=> r.from = 1
      BY ONLY <1>11, <3>1, <3>3
    <3> HIDE DEF q, p, r
    <3>5. s_dir_sel'[s][p] <=> s_dir_sel[s][q]
      BY <1>2, <1>9, <2>1, <3>1, <3>2
    <3> QED
      BY <3>4, <3>5 DEF p, r
  <2>4. CASE ~ (k + o <= n)
    <3>1. a = 1 /\ p = 1 /\ r = Offered(s)
      BY ONLY <1>1, <1>2, <2>0, <2>2, <2>4
    <3> HIDE DEF p, r
    <3> QED
      BY <1>9, <1>10, <2>1, <3>1 DEF p, r
  <2> QED
    BY <2>3, <2>4
<1> QED
  BY <1>1, <1>5, <1>7, <1>12 DEF HeldInOrder, n2, d

(* The answer is to the oldest request in the slave, and goes to the       *)
(* master that asked for it.                                               *)
LEMMA AnswerFor ==
    ASSUME Always, Sound, NEW replies, Steady(replies), NEW s \in Slave, NEW m \in Master
    PROVE  LET in == InSlave(s, {})
               w  == Response(s, {}, replies)
           IN /\ fifo_wren(s, m, replies) <=> s \in replies /\ in[1].from = m
              /\ s \in replies => /\ in # <<>> /\ in[1] \in Bus /\ held'[s] = Tail(in)
                                  /\ w \in Ans /\ \A r \in Req : IsBus(in[1], r) => IsAns(w, r, s)
              /\ s \notin replies => held'[s] = in
<1> DEFINE n  == Len(held[s])
           a  == Takes(s)
           in == InSlave(s, {})
           w  == Response(s, {}, replies)
<1>1. /\ in \in Seq(Bus) /\ Len(in) = n + a
      /\ \A i \in 1 .. n + a : in[i] = IF i <= n THEN held[s][i] ELSE Offered(s)
  BY WithOffered
<1>2. n \in Nat /\ a \in {0, 1} /\ HeldInOrder(s) /\ s_dir_fst[s] = n
  BY Parts DEF Takes, HeldInOrder
<1>3. held'[s] = IF s \in replies THEN Tail(in) ELSE in
  BY DEF Steady, Edge, SlavesAnswer
<1>4. s \in replies => in # <<>>
  BY DEF Steady, Replies, MayAnswer
<1>5. s \in replies => w = [err |-> Refused(s, {}), dat |-> Head(in).dat]
  <2>1. Refused(s, {}) \in BOOLEAN
    BY DEF Refused
  <2> QED
    BY <2>1 DEF Response
<1>6. Refused(s, {}) <=> Head(in).we /\ s \in ReadOnly
  BY DEF Refused
<1>7. \A k \in 1 .. n : s_dir_sel[s][n + 1 - k] <=> held[s][k].from = 1
  BY <1>2 DEF HeldInOrder
<1>8. m1_dir(s) <=> Offered(s).from = 1
  BY DEF Offered, Sender
<1>9. a = 1 => (hrden(m, s) <=> (m1_dir(s) <=> m = 1))
  BY SomeHeader DEF Takes
<1>10. fifo_wren(s, m, replies) <=> s \in replies /\ IF n # 0 THEN Marked(s_dir_sel[s], n) <=> m = 1 ELSE hrden(m, s)
  <2>1. Marked(s_dir_sel[s], n) \in BOOLEAN
    BY DEF Marked
  <2> QED
    BY <1>2, <2>1 DEF fifo_wren
<1>11. Marked(s_dir_sel[s], n) <=> n > 0 /\ s_dir_sel[s][n]
  BY DEF Marked
<1> HIDE DEF n, a, in, w
<1>12. s \in replies => in[1] \in Bus /\ Head(in) = in[1] /\ n + a > 0
  BY <1>1, <1>2, <1>4, EmptySeq
<1>13. s \in replies => (fifo_wren(s, m, replies) <=> in[1].from = m)
  <2> SUFFICES ASSUME s \in replies PROVE fifo_wren(s, m, replies) <=> in[1].from = m
    OBVIOUS
  <2>0. in[1].from \in {0, 1} /\ m \in {0, 1}
    BY <1>12 DEF Bus, Master
  <2>1. CASE n # 0
    <3>1. in[1] = held[s][1]
      BY <1>1, <1>2, <2>1
    <3>2. 1 \in 1 .. n /\ n + 1 - 1 = n /\ n > 0
      BY <1>2, <2>1
    <3>3. s_dir_sel[s][n] <=> held[s][1].from = 1
      BY ONLY <1>7, <3>2
    <3> QED
      BY <1>10, <1>11, <2>0, <2>1, <3>1, <3>2, <3>3
  <2>2. CASE n = 0
    <3>1. a = 1 /\ in[1] = Offered(s)
      BY <1>1, <1>2, <1>12, <2>2
    <3> QED
      BY <1>8, <1>9, <1>10, <2>0, <2>2, <3>1
  <2> QED
    BY <2>1, <2>2
<1>14. s \in replies => w \in Ans /\ \A r \in Req : IsBus(in[1], r) => IsAns(w, r, s)
  <2> SUFFICES ASSUME s \in replies PROVE w \in Ans /\ \A r \in Req : IsBus(in[1], r) => IsAns(w, r, s)
    OBVIOUS
  <2> DEFINE b == in[1]
  <2>1. b \in Bus /\ Head(in) = b
    BY <1>12
  <2>2. b.dat \in Addr /\ b.we \in BOOLEAN
    BY <2>1 DEF Bus
  <2>3. Refused(s, {}) \in BOOLEAN
    BY DEF Refused
  <2>4. w.dat = b.dat /\ (w.err <=> b.we /\ s \in ReadOnly) /\ w \in Ans
    BY <1>5, <1>6, <2>1, <2>2, <2>3 DEF Ans
  <2> HIDE DEF b
  <2>5. \A r \in Req : IsBus(b, r) => IsAns(w, r, s)
    BY <2>4 DEF IsBus, IsAns
  <2> QED
    BY <2>4, <2>5 DEF b
<1>15. fifo_wren(s, m, replies) => s \in replies
  BY <1>10
<1> QED
  BY <1>3, <1>4, <1>12, <1>13, <1>14, <1>15 DEF in, w

(* The answer at the head of a FIFO is of the oldest request its master    *)
(* is owed an answer for.                                                  *)
LEMMA AnswerOfOldest ==
    ASSUME Always, Sound, NEW m \in Master, NEW s \in Slave, answers[s][m] # <<>>, Hit(s, owed[m][1].addr),
           owed[m] # <<>>
    PROVE  IsAns(answers[s][m][1], owed[m][1], s)
<1>1. PICK fl \in Seq(Req), hd \in Seq(Bus) : /\ Those(fl, owed[m], For(s)) /\ Those(hd, held[s], From(m))
                                              /\ Flight(fl, answers[s][m], hd, headers[m][s], s)
  BY Parts DEF InFlight
<1>2. owed[m] \in Seq(Req) /\ answers[s][m] \in Seq(Ans) /\ headers[m][s] \in Seq(Hdr)
  BY Parts
<1>3. owed[m][1] \in For(s)
  BY Pointed DEF For
<1>4. fl # <<>> /\ fl[1] = owed[m][1]
  BY <1>1, <1>2, <1>3, ThoseTailIn
<1>5. IsAns(answers[s][m][1], fl[1], s)
  BY <1>1, <1>2, FlightRead
<1> QED
  BY <1>4, <1>5

(* A master takes the answer, and the request is owed no more.             *)
LEMMA FlightTaken ==
    ASSUME Always, Sound, NEW m \in Master, NEW s \in Slave
    PROVE  LET rest == IF Answered(m) THEN Tail(owed[m]) ELSE owed[m]
               left == IF drden(s, m) THEN Tail(answers[s][m]) ELSE answers[s][m]
           IN /\ rest \in Seq(Req) /\ left \in Seq(Ans)
              /\ \E fl \in Seq(Req), hd \in Seq(Bus) : /\ Those(fl, rest, For(s)) /\ Those(hd, held[s], From(m))
                                                       /\ Flight(fl, left, hd, headers[m][s], s)
<1> DEFINE o == owed[m]
           A == answers[s][m]
           D == headers[m][s]
           rest == IF Answered(m) THEN Tail(o) ELSE o
           left == IF drden(s, m) THEN Tail(A) ELSE A
<1>1. PICK fl \in Seq(Req), H \in Seq(Bus) : /\ Those(fl, o, For(s)) /\ Those(H, held[s], From(m))
                                             /\ Flight(fl, A, H, D, s)
  BY Parts DEF InFlight
<1>2. o \in Seq(Req) /\ A \in Seq(Ans) /\ D \in Seq(Hdr)
  BY Parts
<1>4. Answered(m) => o # <<>> /\ o[1] \in Req /\ (drden(s, m) <=> Hit(s, o[1].addr))
  BY HeadOwed
<1>5. ~ Answered(m) => ~ drden(s, m)
  BY NothingTaken
<1>6. drden(s, m) => A # <<>>
  BY DEF drden, Waiting
<1> HIDE DEF o, A, D
<1>7. /\ rest \in Seq(Req) /\ left \in Seq(Ans)
      /\ \E f2 \in Seq(Req) : Those(f2, rest, For(s)) /\ Flight(f2, left, H, D, s)
  <2>1. CASE ~ Answered(m)
    BY <1>1, <1>2, <1>5, <2>1
  <2>2. CASE Answered(m) /\ ~ drden(s, m)
    <3>1. o[1] \notin For(s)
      BY <1>4, <2>2 DEF For
    <3>2. Those(fl, Tail(o), For(s))
      BY <1>1, <1>2, <1>4, <2>2, <3>1, ThoseTailOut
    <3>3. Tail(o) \in Seq(Req)
      BY <1>2, <1>4, <2>2
    <3> QED
      BY <1>1, <1>2, <2>2, <3>2, <3>3
  <2>3. CASE Answered(m) /\ drden(s, m)
    <3>1. o[1] \in For(s)
      BY <1>4, <2>3 DEF For
    <3>2. fl # <<>> /\ Those(Tail(fl), Tail(o), For(s))
      BY <1>1, <1>2, <1>4, <2>3, <3>1, ThoseTailIn
    <3>3. Flight(Tail(fl), Tail(A), H, D, s)
      BY <1>1, <1>2, <1>6, <2>3, FlightRead
    <3>4. Tail(o) \in Seq(Req) /\ Tail(fl) \in Seq(Req) /\ Tail(A) \in Seq(Ans)
      BY <1>1, <1>2, <1>4, <1>6, <2>3, <3>2
    <3> QED
      BY <2>3, <3>2, <3>3, <3>4
  <2> QED
    BY <2>1, <2>2, <2>3
<1> QED
  BY <1>1, <1>7 DEF o, A, D

(* The slave takes what it is offered, then answers the oldest it has.     *)
LEMMA FlightServed ==
    ASSUME Always, Sound, NEW replies, Steady(replies), NEW m \in Master, NEW s \in Slave,
           NEW fl \in Seq(Req), NEW A \in Seq(Ans), NEW H \in Seq(Bus), Those(H, held[s], From(m)),
           Flight(fl, A, H, headers[m][s], s)
    PROVE  LET more == IF fifo_wren(s, m, replies) THEN Append(A, Response(s, {}, replies)) ELSE A
               rest == IF hrden(m, s) THEN Tail(headers[m][s]) ELSE headers[m][s]
           IN /\ more \in Seq(Ans)
              /\ \E h2 \in Seq(Bus) : Those(h2, held'[s], From(m)) /\ Flight(fl, more, h2, rest, s)
<1> DEFINE D   == headers[m][s]
           x   == Offered(s)
           q   == held[s]
           q2  == held'[s]
           in  == InSlave(s, {})
           wr  == fifo_wren(s, m, replies)
           w   == Response(s, {}, replies)
           rd  == hrden(m, s)
           stb == s_wb_stb(s)
           D1  == IF rd THEN Tail(D) ELSE D
           A1  == IF wr THEN Append(A, w) ELSE A
<1>1. D \in Seq(Hdr) /\ q \in Seq(Bus) /\ Flight(fl, A, H, D, s) /\ Those(H, q, From(m))
  BY Parts
<1>2. (rd => D # <<>>) /\ (rd => stb)
  BY Popped, SomeHeader
<1>3. rd => x \in Bus /\ x.from = m /\ \A r \in Req : IsHdr(D[1], r) => IsBus(x, r)
  BY OfferedIs
<1>4. in = IF stb THEN Append(q, x) ELSE q
  BY DEF InSlave, Taken
<1>5. stb /\ ~ rd => x \in Bus /\ x.from # m
  <2> SUFFICES ASSUME stb, ~ rd PROVE x \in Bus /\ x.from # m
    OBVIOUS
  <2>1. PICK n \in Master : hrden(n, s)
    BY SomeHeader
  <2> QED
    BY <2>1, OfferedIs
<1>6. /\ wr <=> s \in replies /\ in[1].from = m
      /\ s \in replies => /\ in # <<>> /\ in[1] \in Bus /\ q2 = Tail(in)
                          /\ w \in Ans /\ \A r \in Req : IsBus(in[1], r) => IsAns(w, r, s)
      /\ s \notin replies => q2 = in
  BY AnswerFor
<1>7. in \in Seq(Bus)
  BY WithOffered
<1> HIDE DEF D, x, q, q2, in, wr, w, rd, stb
<1>8. D1 \in Seq(Hdr)
  BY <1>1, <1>2
<1>9. \E h1 \in Seq(Bus) : Those(h1, in, From(m)) /\ Flight(fl, A, h1, D1, s)
  <2>1. CASE rd
    <3>1. x \in Bus /\ x \in From(m) /\ D # <<>>
      BY <1>2, <1>3, <2>1 DEF From
    <3>2. Those(Append(H, x), in, From(m))
      BY <1>1, <1>2, <1>4, <2>1, <3>1, ThoseAppendIn
    <3>3. Flight(fl, A, Append(H, x), Tail(D), s)
      BY <1>1, <1>3, <2>1, <3>1, FlightTake
    <3>4. Append(H, x) \in Seq(Bus)
      BY <3>1
    <3> QED
      BY <2>1, <3>2, <3>3, <3>4
  <2>2. CASE stb /\ ~ rd
    <3>1. x \in Bus /\ x \notin From(m)
      BY <1>5, <2>2 DEF From
    <3>2. Those(H, in, From(m))
      BY <1>1, <1>4, <2>2, <3>1, ThoseAppendOut
    <3> QED
      BY <1>1, <2>2, <3>2
  <2>3. CASE ~ stb
    BY <1>1, <1>2, <1>4, <2>3
  <2> QED
    BY <2>1, <2>2, <2>3
<1>10. PICK h1 \in Seq(Bus) : Those(h1, in, From(m)) /\ Flight(fl, A, h1, D1, s)
  BY <1>9
<1> HIDE DEF D1
<1>11. A1 \in Seq(Ans) /\ \E h2 \in Seq(Bus) : Those(h2, q2, From(m)) /\ Flight(fl, A1, h2, D1, s)
  <2>1. CASE s \in replies /\ in[1].from = m
    <3>1. in[1] \in From(m) /\ in # <<>> /\ wr /\ q2 = Tail(in) /\ w \in Ans
      BY <1>6, <2>1 DEF From
    <3>2. h1 # <<>> /\ h1[1] = in[1] /\ Those(Tail(h1), q2, From(m))
      BY <1>7, <1>10, <3>1, ThoseTailIn
    <3>3. \A r \in Req : IsBus(h1[1], r) => IsAns(w, r, s)
      BY <1>6, <2>1, <3>2
    <3>4. Flight(fl, Append(A, w), Tail(h1), D1, s)
      BY <1>8, <1>10, <3>1, <3>2, <3>3, FlightAnswer
    <3>5. Tail(h1) \in Seq(Bus) /\ Append(A, w) \in Seq(Ans)
      BY <3>1, <3>2
    <3> QED
      BY <3>1, <3>2, <3>4, <3>5
  <2>2. CASE s \in replies /\ in[1].from # m
    <3>1. in[1] \notin From(m) /\ in # <<>> /\ ~ wr /\ q2 = Tail(in)
      BY <1>6, <2>2 DEF From
    <3>2. Those(h1, q2, From(m))
      BY <1>7, <1>10, <3>1, ThoseTailOut
    <3> QED
      BY <1>10, <3>1, <3>2
  <2>3. CASE s \notin replies
    BY <1>6, <1>10, <2>3
  <2> QED
    BY <2>1, <2>2, <2>3
<1> QED
  BY <1>11 DEF D, D1, wr, w, rd, q2

(* So the requests in flight stay in their order.                          *)
LEMMA FlightAfter ==
    ASSUME Always, Sound, Next, astray' = 0, NEW replies, Steady(replies), NEW m \in Master, NEW s \in Slave
    PROVE  answers'[s][m] \in Seq(Ans) /\ InFlight(m, s)'
<1> DEFINE rest == IF Answered(m) THEN Tail(owed[m]) ELSE owed[m]
           left == IF drden(s, m) THEN Tail(answers[s][m]) ELSE answers[s][m]
           more == IF fifo_wren(s, m, replies) THEN Append(left, Response(s, {}, replies)) ELSE left
           D1   == IF hrden(m, s) THEN Tail(headers[m][s]) ELSE headers[m][s]
           h    == [addr |-> req[m].addr, we |-> req[m].we, tag |-> time_tag]
           wr   == hwren(m, s)
           ac   == Accepted(m)
           r    == req[m]
<1>1. rest \in Seq(Req) /\ left \in Seq(Ans)
  BY FlightTaken
<1>2. PICK fl \in Seq(Req), hd \in Seq(Bus) : /\ Those(fl, rest, For(s)) /\ Those(hd, held[s], From(m))
                                              /\ Flight(fl, left, hd, headers[m][s], s)
  BY FlightTaken
<1>3. /\ more \in Seq(Ans)
      /\ \E h2 \in Seq(Bus) : Those(h2, held'[s], From(m)) /\ Flight(fl, more, h2, D1, s)
  <2> HIDE DEF left
  <2> QED
    BY <1>1, <1>2, FlightServed
<1>10. PICK H2 \in Seq(Bus) : Those(H2, held'[s], From(m)) /\ Flight(fl, more, H2, D1, s)
  BY <1>3
<1>4. answers'[s][m] = more
  BY DEF Steady, Edge, Fifos, Fifo
<1>5. owed'[m] = IF ac THEN Append(rest, r) ELSE rest
  BY DEF Steady, Edge, History
<1>6. /\ headers'[m][s] = IF wr THEN Append(D1, h) ELSE D1
      /\ D1 \in Seq(Hdr)
      /\ wr => h \in Hdr /\ r \in Req /\ IsHdr(h, r) /\ Hit(s, r.addr)
  BY HeadersAfter
<1>8. wr <=> ac /\ Hit(s, r.addr)
  BY DEF hwren
<1>9. ac => r \in Req
  BY AskedFor
<1> HIDE DEF rest, left, more, D1, h, wr, ac, r
<1>11. \E f2 \in Seq(Req) : /\ Those(f2, owed'[m], For(s))
                            /\ Flight(f2, answers'[s][m], H2, headers'[m][s], s)
  <2>1. CASE ~ ac
    BY <1>2, <1>10, <1>4, <1>5, <1>6, <1>8, <2>1
  <2>2. CASE ac /\ ~ wr
    <3>1. r \notin For(s)
      BY <1>8, <2>2 DEF For
    <3>2. Those(fl, Append(rest, r), For(s))
      BY <1>1, <1>2, <1>9, <2>2, <3>1, ThoseAppendOut
    <3> QED
      BY <1>10, <1>4, <1>5, <1>6, <2>2, <3>2
  <2>3. CASE ac /\ wr
    <3>1. r \in For(s) /\ r \in Req
      BY <1>6, <2>3 DEF For
    <3>2. Those(Append(fl, r), Append(rest, r), For(s))
      BY <1>1, <1>2, <3>1, ThoseAppendIn
    <3>3. Flight(Append(fl, r), more, H2, Append(D1, h), s)
      BY <1>3, <1>6, <1>10, <2>3, <3>1, FlightAsk
    <3>4. Append(fl, r) \in Seq(Req)
      BY <3>1
    <3> QED
      BY <1>4, <1>5, <1>6, <2>3, <3>2, <3>3, <3>4
  <2> QED
    BY <1>8, <2>1, <2>2, <2>3
<1>12. answers'[s][m] \in Seq(Ans)
  BY <1>3, <1>4
<1> QED
  BY <1>10, <1>11, <1>12 DEF InFlight

(* It holds at first.                                                      *)
LEMMA InitIInv == Init => IInv
<1> SUFFICES ASSUME Init PROVE IInv
  OBVIOUS
<1>1. TypeA /\ TypeS
  BY DEF Init, TypeA, TypeS
<1>2. Len(<<>>) = 0
  OBVIOUS
<1>3. ASSUME NEW m \in Master PROVE DirOwed(m)
  BY <1>2, Sizes DEF Init, DirOwed
<1>4. ASSUME NEW s \in Slave PROVE HeldInOrder(s)
  BY <1>2 DEF Init, HeldInOrder, AgesIn
<1>5. ASSUME NEW m \in Master, NEW s \in Slave PROVE HeadersFit(m, s) /\ InFlight(m, s)
  <2>1. headers[m][s] = <<>> /\ data[m][s] = <<>> /\ answers[s][m] = <<>> /\ owed[m] = <<>> /\ held[s] = <<>>
    BY DEF Init
  <2>3. DataOf(<<>>, <<>>)
    <3>1. Those(<<>>, <<>>, Wr) /\ <<>> \in Seq(Hdr)
      BY ThoseEmpty
    <3>2. \A i \in 1 .. Len(<<>>) : <<>>[i] = <<>>[i].addr
      BY <1>2
    <3> QED
      BY <1>2, <3>1, <3>2 DEF DataOf
  <2>4. Those(<<>>, <<>>, For(s)) /\ <<>> \in Seq(Req)
    BY ThoseEmpty
  <2>5. Those(<<>>, <<>>, From(m)) /\ <<>> \in Seq(Bus)
    BY ThoseEmpty
  <2>6. Flight(<<>>, <<>>, <<>>, <<>>, s)
    BY <1>2 DEF Flight
  <2>7. Len(<<>>) <= Depth
    BY <1>2, Sizes
  <2> QED
    BY <2>1, <2>3, <2>4, <2>5, <2>6, <2>7 DEF InFlight, HeadersFit
<1> QED
  BY <1>1, <1>3, <1>4, <1>5 DEF IInv, Always, Sound

(* Every clock edge keeps it, what holds always whatever the slaves do,    *)
LEMMA NextAlways == Always /\ Next => Always'
<1> SUFFICES ASSUME Always, Next PROVE Always'
  OBVIOUS
<1>1. req' \in [Master -> Req \cup {None}]
  <2>1. PICK r0 \in MayAsk(0), r1 \in MayAsk(1) : req' = [m \in Master |-> IF m = 0 THEN r0 ELSE r1]
    BY DEF Next, Edge, MastersAsk
  <2>2. ASSUME NEW m \in Master PROVE MayAsk(m) \subseteq Req \cup {None}
    BY DEF MayAsk, Always, TypeA, Req, Master
  <2>3. r0 \in Req \cup {None} /\ r1 \in Req \cup {None}
    BY <2>2 DEF Master
  <2> QED
    BY <2>1, <2>3
<1>2. time_tag' \in Nat
  <2>1. time_tag \in Nat
    BY DEF Always, TypeA
  <2>2. 2 * HalfTag \in Nat \ {0}
    BY Sizes
  <2>3. (time_tag + 1) % (2 * HalfTag) \in Nat
    BY <2>1, <2>2
  <2> QED
    BY <2>1, <2>3 DEF Next, Edge, TimeTag
<1>3. headers' \in [Master -> [Slave -> Seq(Hdr)]]
  <2>1. \A m \in Master, s \in Slave : headers'[m][s] \in Seq(Hdr)
    BY HeadersAfter
  <2> QED
    BY <2>1 DEF Next, Edge, Fifos
<1>4. data' \in [Master -> [Slave -> Seq(Addr)]]
  <2>1. \A m \in Master, s \in Slave : data'[m][s] \in Seq(Addr)
    BY DataAfter
  <2> QED
    BY <2>1 DEF Next, Edge, Fifos
<1>5. astray' \in Nat
  <2>1. astray \in Nat
    BY DEF Always, TypeA
  <2>2. astray' = astray + 1 \/ astray' = 0
    BY DEF Next, Edge, History
  <2> QED
    BY <2>1, <2>2
<1>6. \A m \in Master, s \in Slave : HeadersFit(m, s)'
  BY HeadersAfter, DataAfter DEF HeadersFit
<1> QED
  BY <1>1, <1>2, <1>3, <1>4, <1>5, <1>6 DEF Always, TypeA

(* and the rest until it goes astray.                                      *)
LEMMA NextIInv == IInv /\ Next => IInv'
<1> SUFFICES ASSUME IInv, Next PROVE IInv'
  OBVIOUS
<1>1. Always /\ Always'
  BY NextAlways DEF IInv
<1>2. ASSUME astray' = 0 PROVE Sound'
  <2>1. astray = 0 /\ \E replies : Steady(replies)
    BY <1>1, <1>2, SteadySteps
  <2>2. Sound
    BY <2>1 DEF IInv
  <2>3. PICK replies : Steady(replies)
    BY <2>1
  <2>4. \A m \in Master, s \in Slave : answers'[s][m] \in Seq(Ans) /\ InFlight(m, s)'
    BY <1>1, <1>2, <2>2, <2>3, FlightAfter
  <2>5. \A s \in Slave : HeldInOrder(s)'
    BY <1>1, <2>2, <2>3, SlavesFollow
  <2>6. \A m \in Master : DirOwed(m)' /\ owed'[m] \in Seq(Req)
    BY <1>1, <1>2, <2>2, MastersFollow, OwedAfter
  <2>7. \A s \in Slave : held'[s] \in Seq(Bus) /\ age'[s] \in Seq(Nat)
    BY <1>1, <2>2, <2>3, HeldAfter
  <2>8. answers' \in [Slave -> [Master -> Seq(Ans)]]
    BY <2>3, <2>4 DEF Steady, Edge, Fifos
  <2>9. held' \in [Slave -> Seq(Bus)] /\ age' \in [Slave -> Seq(Nat)]
    BY <2>3, <2>7 DEF Steady, Edge, SlavesAnswer
  <2>10. owed' \in [Master -> Seq(Req)]
    BY <2>3, <2>6 DEF Steady, Edge, History
  <2> QED
    BY <2>4, <2>5, <2>6, <2>8, <2>9, <2>10 DEF Sound, TypeS
<1> QED
  BY <1>1, <1>2 DEF IInv

(* And so does every step.                                                 *)
LEMMA StepAlways == Always /\ [Next]_vars => Always'
<1>1. ASSUME Always, UNCHANGED vars PROVE Always'
  <2>1. UNCHANGED <<req, time_tag, astray, headers, data>>
    BY <1>1 DEF vars
  <2>2. TypeA'
    BY <1>1, <2>1 DEF Always, TypeA
  <2>3. \A m \in Master, s \in Slave : HeadersFit(m, s)'
    BY <1>1, <2>1 DEF Always, HeadersFit
  <2> QED
    BY <2>2, <2>3 DEF Always
<1> QED
  BY <1>1, NextAlways

(* Every cycle preserves it, also the one in which it goes astray.         *)
LEMMA StepIInv == IInv /\ [Next]_vars => IInv'
<1>1. ASSUME IInv, UNCHANGED vars PROVE IInv'
  <2>1. UNCHANGED <<headers, answers, held, age, owed, m_dir_sel, m_err_sel, m_dir_fst, s_dir_sel, s_dir_fst>>
    BY <1>1 DEF vars
  <2>2. UNCHANGED astray
    BY <1>1 DEF vars
  <2>3. Always'
    BY <1>1, StepAlways DEF IInv
  <2>4. ASSUME Sound PROVE Sound'
    <3>1. TypeS'
      BY <2>1, <2>4 DEF Sound, TypeS
    <3>2. \A m \in Master : DirOwed(m)'
      BY <2>1, <2>4 DEF Sound, DirOwed
    <3>3. \A s \in Slave : HeldInOrder(s)'
      BY <2>1, <2>4 DEF Sound, HeldInOrder
    <3>4. \A m \in Master, s \in Slave : InFlight(m, s)'
      BY <2>1, <2>4 DEF Sound, InFlight
    <3> QED
      BY <3>1, <3>2, <3>3, <3>4 DEF Sound
  <2> QED
    BY <1>1, <2>2, <2>3, <2>4 DEF IInv
<1> QED
  BY <1>1, NextIInv

(* Neither the FIFOs nor the registers lose anything: those of answers     *)
(* have no guard of their own, and rely on the limit of requests in        *)
(* flight; the marks of a slave rely on its answering in time.             *)
THEOREM NothingLost == Spec => []NothingOverflows
<1>1. IInv => NothingOverflows
  <2> SUFFICES ASSUME IInv PROVE NothingOverflows
    OBVIOUS
  <2>0. Always /\ (astray = 0 => Sound)
    BY DEF IInv
  <2>1. ASSUME NEW m \in Master, NEW s \in Slave
        PROVE  Len(headers[m][s]) <= Depth /\ WordsOfWrites(data[m][s], headers[m][s])
    <3>1. Len(headers[m][s]) <= Depth
      BY <2>0, Fronts DEF HeadersFit
    <3>3. WordsOfWrites(data[m][s], headers[m][s])
      <4> DEFINE d == data[m][s]
                 q == headers[m][s]
      <4>1. PICK w \in Seq(Hdr) : /\ Those(w, q, Wr) /\ Len(d) = Len(w)
                                  /\ \A i \in 1 .. Len(d) : d[i] = w[i].addr
        BY <2>0, Fronts DEF HeadersFit, DataOf
      <4>2. PICK f : Picks(f, w, q, Wr)
        BY <4>1 DEF Those
      <4>3. \A k \in 1 .. Len(q) : q[k] \in Wr <=> q[k].we
        BY <2>0, Fronts, LenProperties DEF Wr
      <4>4. /\ f \in [1 .. Len(d) -> 1 .. Len(q)]
            /\ \A i, j \in 1 .. Len(d) : i < j => f[i] < f[j]
            /\ \A k \in 1 .. Len(q) : q[k] \in Wr <=> \E i \in 1 .. Len(d) : f[i] = k
            /\ \A i \in 1 .. Len(d) : w[i] = q[f[i]]
        BY <4>1, <4>2 DEF Picks
      <4> HIDE DEF d, q
      <4>5. \A i \in 1 .. Len(d) : d[i] = q[f[i]].addr
        BY <4>1, <4>4
      <4>6. \A k \in 1 .. Len(q) : q[k].we <=> \E i \in 1 .. Len(d) : f[i] = k
        BY <4>3, <4>4
      <4>7. WordsOfWrites(d, q)
        BY <4>4, <4>5, <4>6 DEF WordsOfWrites
      <4> QED
        BY <4>7 DEF d, q
    <3> QED
      BY <3>1, <3>3
  <2>2. ASSUME Sound, NEW m \in Master, NEW s \in Slave PROVE Len(answers[s][m]) <= BScale
    <3>1. PICK fl \in Seq(Req), H \in Seq(Bus) : /\ Those(fl, owed[m], For(s)) /\ Those(H, held[s], From(m))
                                                 /\ Flight(fl, answers[s][m], H, headers[m][s], s)
      BY <2>0, <2>2, Parts DEF InFlight
    <3> DEFINE f == Len(fl)
               o == Len(owed[m])
               a == Len(answers[s][m])
               h == Len(H)
               d == Len(headers[m][s])
    <3>2. f <= o /\ o <= BScale
      BY <2>0, <2>2, <3>1, Parts, ThoseLen DEF DirOwed
    <3>3. f \in Nat /\ o \in Nat /\ a \in Nat /\ d \in Nat /\ BScale \in Nat
      BY <2>0, <2>2, Parts, Sizes
    <3>4. h \in Nat
      OBVIOUS
    <3>5. f = a + h + d
      BY <3>1 DEF Flight
    <3> HIDE DEF f, o, a, h, d
    <3>6. a <= BScale
      BY ONLY <3>2, <3>3, <3>4, <3>5
    <3> QED
      BY <3>6 DEF a
  <2>3. ASSUME Sound PROVE /\ \A m \in Master : m_dir_fst[m] = Len(owed[m])
                           /\ \A s \in Slave : s_dir_fst[s] = Len(held[s])
    BY <2>3 DEF Sound, DirOwed, HeldInOrder
  <2> QED
    BY <2>0, <2>1, <2>2, <2>3 DEF NothingOverflows
<1> QED
  BY <1>1, InitIInv, StepIInv, PTL DEF Spec

(* A master gets one answer for each request, in the order of its          *)
(* requests, of its own request, and an error exactly when it has to,      *)
(* until the crossbar goes astray.                                         *)
THEOREM OwnAnswers == Spec => []AnswersAreOwed
<1>1. IInv => AnswersAreOwed
  <2> SUFFICES ASSUME IInv, NEW m \in Master, astray = 0, Answered(m)
               PROVE  /\ owed[m] # <<>>
                      /\ LET r == Head(owed[m])
                             s == {t \in Slave : Hit(t, r.addr)}
                         IN /\ m_wb_err_i(m) <=> s = {} \/ (r.we /\ s \subseteq ReadOnly)
                            /\ s # {} => m_wb_dat_i(m) = r.addr
    BY DEF AnswersAreOwed
  <2> DEFINE r == owed[m][1]
             s == {t \in Slave : Hit(t, r.addr)}
             a == m_arb(m)
             e == m_error(m)
             w == Head(Waiting(m))
  <2>0. Always /\ Sound
    BY DEF IInv
  <2>1. /\ owed[m] # <<>> /\ r \in Req
        /\ e <=> \A t \in Slave : ~ Hit(t, r.addr)
        /\ ~ e => Waiting(m) # <<>> /\ Hit(a, r.addr)
    BY <2>0, HeadOwed
  <2>2. Head(owed[m]) = r
    BY <2>0, <2>1, Parts DEF Slave
  <2>3. m_wb_err_i(m) <=> e \/ (Waiting(m) # <<>> /\ w.err)
    BY DEF m_wb_err_i
  <2>4. m_wb_dat_i(m) = w.dat
    BY DEF m_wb_dat_i
  <2>5. e <=> s = {}
    BY <2>1
  <2>6. ASSUME ~ e
        PROVE  s = {a} /\ (w.err <=> r.we /\ a \in ReadOnly) /\ w.dat = r.addr
    <3>1. a \in Slave
      BY DEF m_arb, Slave
    <3>2. answers[a][m] # <<>> /\ Hit(a, r.addr) /\ Waiting(m) = answers[a][m]
      BY <2>1, <2>6 DEF Waiting
    <3>3. w = answers[a][m][1]
      BY <2>0, <3>1, <3>2, Parts
    <3>4. IsAns(w, r, a)
      BY <2>0, <2>1, <3>1, <3>2, <3>3, AnswerOfOldest
    <3>5. ~ (Hit(0, r.addr) /\ Hit(1, r.addr))
      BY <2>1, RangeAssumption DEF Req, Master
    <3>6. s = {a}
      BY <3>1, <3>2, <3>5 DEF Slave
    <3> QED
      BY <3>4, <3>6 DEF IsAns
  <2> HIDE DEF r, s, a, e, w
  <2>7. /\ m_wb_err_i(m) <=> s = {} \/ (r.we /\ s \subseteq ReadOnly)
        /\ s # {} => m_wb_dat_i(m) = r.addr
    BY <2>1, <2>3, <2>4, <2>5, <2>6
  <2> QED
    BY <2>1, <2>2, <2>7 DEF s
<1> QED
  BY <1>1, InitIInv, StepIInv, PTL DEF Spec

(***************************************************************************)
(* The order of the requests of both masters at a slave. A turn is a set   *)
(* of masters whose requests were accepted in the same cycle: f says in    *)
(* which turn each header was accepted, g how many cycles with an accepted *)
(* request ago, and a header of age g with n headers before it is as old   *)
(* as 2 * Depth when it is served, so that ages differ by less than half   *)
(* of the tags.                                                            *)
(***************************************************************************)
Stamp(tag, old, now) ==
    tag \in 0 .. 2 * HalfTag - 1 /\ (tag + old = now \/ tag + old = now + 2 * HalfTag)

Turns(f, g, tn, q, now) ==
    /\ \A m \in Master : \A k \in 1 .. Len(q[m]) :
          /\ f[m][k] \in 1 .. Len(tn) /\ m \in tn[f[m][k]]
          /\ Stamp(q[m][k].tag, g[f[m][k]], now)
    /\ \A m \in Master : \A j, k \in 1 .. Len(q[m]) : j < k => f[m][j] < f[m][k]
    /\ \A t \in 1 .. Len(tn) :
          /\ tn[t] # {} /\ g[t] \in Nat \ {0}
          /\ \A m \in tn[t] : m \in Master /\ \E k \in 1 .. Len(q[m]) : f[m][k] = t
    /\ \A t, u \in 1 .. Len(tn) : t < u => g[t] > g[u]
    /\ \A m, n \in Master : m # n =>
          \A k \in 1 .. Len(q[m]) :
             /\ g[f[m][k]] + k <= 2 * Depth + 1
             /\ \A j \in 1 .. Len(q[n]) : f[n][j] <= f[m][k] => g[f[m][k]] + k + j <= 2 * Depth + 1

InTurn(s) == \E f, g : Turns(f, g, turns[s], [m \in Master |-> headers[m][s]], time_tag)

OInv == /\ Always /\ time_tag < 2 * HalfTag
        /\ \A s \in Slave : turns[s] \in Seq(SUBSET Master) /\ InTurn(s)

(* A tag by its halves.                                                    *)
LEMMA Halves ==
    ASSUME NEW h \in Nat \ {0}, NEW t \in 0 .. 2 * h - 1
    PROVE  /\ t < h  => t \div h = 0 /\ t % h = t
           /\ t >= h => t \div h = 1 /\ t % h = t - h
<1>1. t < h => t \div h = 0 /\ t % h = t
  OBVIOUS
<1>2. t >= h => t \div h = 1 /\ t % h = t - h
  OBVIOUS
<1> QED
  BY <1>1, <1>2

(* The comparison of two tags tells the older one, if neither is older     *)
(* than half of the tags.                                                  *)
LEMMA OlderIs ==
    ASSUME NEW s \in Slave, NEW now \in 0 .. 2 * HalfTag - 1,
           NEW g0 \in 1 .. HalfTag, NEW g1 \in 1 .. HalfTag,
           Stamp(Tag(0, s), g0, now), Stamp(Tag(1, s), g1, now)
    PROVE  Older(s) <=> g1 > g0
<1> DEFINE a == Tag(0, s)
           b == Tag(1, s)
           h == HalfTag
<1>1. h \in Nat \ {0}
  BY Sizes
<1>2. a \in 0 .. 2 * h - 1 /\ (a + g0 = now \/ a + g0 = now + 2 * h)
  BY DEF Stamp
<1>3. b \in 0 .. 2 * h - 1 /\ (b + g1 = now \/ b + g1 = now + 2 * h)
  BY DEF Stamp
<1>4. Older(s) <=> IF b \div h # a \div h THEN b % h > a % h ELSE b % h < a % h
  BY DEF Older
<1> HIDE DEF a, b, h
<1>5. (a < h => a \div h = 0 /\ a % h = a) /\ (a >= h => a \div h = 1 /\ a % h = a - h)
  BY <1>1, <1>2, Halves
<1>6. (b < h => b \div h = 0 /\ b % h = b) /\ (b >= h => b \div h = 1 /\ b % h = b - h)
  BY <1>1, <1>3, Halves
<1>7. g0 \in 1 .. h /\ g1 \in 1 .. h /\ now \in 0 .. 2 * h - 1
  BY DEF h
<1>8. CASE a < h /\ b < h
  BY ONLY <1>1, <1>2, <1>3, <1>4, <1>5, <1>6, <1>7, <1>8
<1>9. CASE a < h /\ b >= h
  BY ONLY <1>1, <1>2, <1>3, <1>4, <1>5, <1>6, <1>7, <1>9
<1>10. CASE a >= h /\ b < h
  BY ONLY <1>1, <1>2, <1>3, <1>4, <1>5, <1>6, <1>7, <1>10
<1>11. CASE a >= h /\ b >= h
  BY ONLY <1>1, <1>2, <1>3, <1>4, <1>5, <1>6, <1>7, <1>11
<1> QED
  BY <1>1, <1>2, <1>3, <1>8, <1>9, <1>10, <1>11

(* So the slave is offered a request of the first turn.                    *)
LEMMA FirstTurn ==
    ASSUME OInv, NEW s \in Slave, NEW f, NEW g,
           Turns(f, g, turns[s], [m \in Master |-> headers[m][s]], time_tag),
           NEW m \in Master, hrden(m, s)
    PROVE  turns[s] # <<>> /\ f[m][1] = 1 /\ m \in turns[s][1]
<1> DEFINE q == [n \in Master |-> headers[n][s]]
           tn == turns[s]
           T == Len(tn)
<1>1. tn \in Seq(SUBSET Master) /\ T \in Nat
  BY DEF OInv
<1>2. \A n \in Master : q[n] = headers[n][s] /\ q[n] \in Seq(Hdr) /\ Len(q[n]) \in Nat
  <2>1. Always
    BY DEF OInv
  <2> QED
    BY <2>1, Fronts
<1>3. q[m] # <<>> /\ 1 \in 1 .. Len(q[m])
  BY <1>2, Popped
<1>4. \A n \in Master : \A k \in 1 .. Len(q[n]) :
          /\ f[n][k] \in 1 .. T /\ n \in tn[f[n][k]]
          /\ Stamp(q[n][k].tag, g[f[n][k]], time_tag)
  BY DEF Turns
<1>5. \A n \in Master : \A j, k \in 1 .. Len(q[n]) : j < k => f[n][j] < f[n][k]
  BY DEF Turns
<1>6. \A t \in 1 .. T : /\ tn[t] # {} /\ g[t] \in Nat \ {0}
                        /\ \A n \in tn[t] : n \in Master /\ \E k \in 1 .. Len(q[n]) : f[n][k] = t
  BY DEF Turns
<1>7. \A t, u \in 1 .. T : t < u => g[t] > g[u]
  BY DEF Turns
<1>8. \A n \in Master : \A k \in 1 .. Len(q[n]) : g[f[n][k]] + k <= 2 * Depth + 1
  <2>1. \A n, p \in Master : n # p => \A k \in 1 .. Len(q[n]) : g[f[n][k]] + k <= 2 * Depth + 1
    BY DEF Turns
  <2>2. \A n \in Master : \E p \in Master : n # p
    BY DEF Master
  <2> QED
    BY <2>1, <2>2
<1>9. time_tag \in 0 .. 2 * HalfTag - 1
  BY Sizes DEF OInv, Always, TypeA
<1> HIDE DEF q, tn, T
<1>10. 1 \in 1 .. T
  BY <1>1, <1>3, <1>4
<1>11. PICK n \in Master : f[n][1] = 1 /\ 1 \in 1 .. Len(q[n])
  <2>1. PICK n \in Master : n \in tn[1] /\ \E k \in 1 .. Len(q[n]) : f[n][k] = 1
    BY <1>6, <1>10
  <2>2. PICK k \in 1 .. Len(q[n]) : f[n][k] = 1
    BY <2>1
  <2>3. 1 \in 1 .. Len(q[n]) /\ k \in Nat /\ 1 <= k
    BY <1>2
  <2>4. f[n][1] >= 1 /\ f[n][1] \in Nat
    BY <1>1, <1>4, <2>3
  <2>5. 1 < k => f[n][1] < f[n][k]
    BY <1>5, <2>3
  <2>6. k = 1
    BY <2>2, <2>3, <2>4, <2>5
  <2> QED
    BY <2>2, <2>3, <2>6
<1>12. f[m][1] = 1
  <2>1. CASE n = m
    BY <1>11, <2>1
  <2>2. CASE n # m
    <3> SUFFICES ASSUME f[m][1] # 1 PROVE FALSE
      OBVIOUS
    <3> DEFINE u  == f[m][1]
               gm == g[u]
               gn == g[1]
    <3>1. u \in 1 .. T /\ 1 < u
      BY <1>1, <1>3, <1>4
    <3>2. gn > gm /\ gm \in Nat \ {0} /\ gn \in Nat \ {0}
      BY <1>6, <1>7, <1>10, <3>1
    <3>3. gm + 1 <= 2 * Depth + 1 /\ gn + 1 <= 2 * Depth + 1
      BY <1>3, <1>8, <1>11
    <3>4. gm \in 1 .. HalfTag /\ gn \in 1 .. HalfTag
      <4> HIDE DEF gm, gn
      <4> QED
        BY <3>2, <3>3, Sizes, PowerAssumption
    <3>5. Stamp(q[m][1].tag, gm, time_tag) /\ Stamp(q[n][1].tag, gn, time_tag)
      BY <1>3, <1>4, <1>11
    <3>6. q[m][1].tag = Tag(m, s) /\ q[n][1].tag = Tag(n, s) /\ ~ hempty(m, s) /\ ~ hempty(n, s)
      <4>1. q[n] # <<>>
        BY <1>2, <1>11
      <4> QED
        BY <1>2, <1>3, <4>1 DEF Tag, hempty
    <3> HIDE DEF gm, gn, u
    <3>7. Stamp(Tag(m, s), gm, time_tag) /\ Stamp(Tag(n, s), gn, time_tag)
      BY <3>5, <3>6
    <3>8. CASE m = 0
      <4>1. n = 1
        BY <2>2, <3>8 DEF Master
      <4>2. Older(s)
        BY <1>9, <3>2, <3>4, <3>7, <3>8, <4>1, OlderIs
      <4> QED
        BY <3>6, <3>8, <4>1, <4>2 DEF hrden, m1_dir
    <3>9. CASE m = 1
      <4>1. n = 0
        BY <2>2, <3>9 DEF Master
      <4>2. Older(s) <=> gm > gn
        BY <1>9, <3>4, <3>7, <3>9, <4>1, OlderIs
      <4>3. ~ Older(s)
        BY <3>2, <4>2
      <4> QED
        BY <3>6, <3>9, <4>1, <4>3 DEF hrden, m1_dir
    <3> QED
      BY <3>8, <3>9 DEF Master
  <2> QED
    BY <2>1, <2>2
<1>13. m \in tn[1]
  BY <1>3, <1>4, <1>12
<1>14. tn # <<>>
  BY <1>1, <1>10 DEF T
<1> QED
  BY <1>12, <1>13, <1>14 DEF tn

(* The clock of the tags moves on, and a request is that much older.       *)
LEMMA StampAfter ==
    ASSUME NEW tag, NEW old \in 0 .. HalfTag, NEW now \in 0 .. 2 * HalfTag - 1, Stamp(tag, old, now)
    PROVE  Stamp(tag, old + 1, (now + 1) % (2 * HalfTag))
<1> DEFINE w == 2 * HalfTag
           n == (now + 1) % w
<1>1. HalfTag \in Nat \ {0} /\ w = 2 * HalfTag /\ w \in Nat \ {0}
  BY Sizes
<1>2. tag \in 0 .. w - 1 /\ (tag + old = now \/ tag + old = now + w)
  BY DEF Stamp
<1>3. now \in 0 .. w - 1
  OBVIOUS
<1>4. n = IF now + 1 = w THEN 0 ELSE now + 1
  <2> HIDE DEF w
  <2>1. CASE now + 1 = w
    BY <1>1, <2>1
  <2>2. CASE now + 1 # w
    <3>1. now + 1 \in 0 .. w - 1
      BY ONLY <1>1, <1>3, <2>2
    <3>2. now + 1 < w /\ now + 1 \in Nat
      BY ONLY <1>1, <3>1
    <3> QED
      BY <1>1, <2>2, <3>2
  <2> QED
    BY <2>1, <2>2
<1> HIDE DEF w, n
<1>5. tag + (old + 1) = n \/ tag + (old + 1) = n + w
  BY ONLY <1>1, <1>2, <1>3, <1>4, old \in 0 .. HalfTag
<1> QED
  BY <1>2, <1>5 DEF Stamp, w, n

(* What is left of the turns tn and of the FIFOs q when the slave is       *)
(* offered the oldest request of m: sh turns are over.                     *)
Left(tn, m, sh, rest) ==
    /\ Len(rest) = Len(tn) - sh
    /\ \A t \in 1 .. Len(rest) : \A n : n \in rest[t] <=> n \in tn[t + sh] /\ ~ (t + sh = 1 /\ n = m)
Less(q, m)      == [n \in Master |-> IF n = m THEN Tail(q[n]) ELSE q[n]]
More(q, new, h) == [n \in Master |-> IF n \in new THEN Append(q[n], h[n]) ELSE q[n]]
Aged(rest, q, now, inc) ==
    \E f, g : Turns(f, g, rest, q, now) /\ \A t \in 1 .. Len(rest) : g[t] > inc
Clock(now, inc) == IF inc = 1 THEN (now + 1) % (2 * HalfTag) ELSE now
Served(f, g, tn, q, now, m, inc, sh, rest) ==
    /\ tn \in Seq(SUBSET Master) /\ q \in [Master -> Seq(Hdr)] /\ rest \in Seq(SUBSET Master)
    /\ Turns(f, g, tn, q, now) /\ now \in 0 .. 2 * HalfTag - 1 /\ inc \in {0, 1}
    /\ m \in Master /\ q[m] # <<>> /\ f[m][1] = 1
    /\ Left(tn, m, sh, rest) /\ sh \in {0, 1} /\ (sh = 1 <=> tn[1] = {m})

(* What is left of the turns when a request of the first is served.        *)
LEMMA TurnLeft ==
    ASSUME NEW tn \in Seq(SUBSET Master), tn # <<>>, NEW m \in Master,
           NEW sh \in {0, 1}, sh = 1 <=> tn[1] = {m}, m \in tn[1],
           NEW rest, rest = IF tn[1] \ {m} = {} THEN Tail(tn) ELSE <<tn[1] \ {m}>> \o Tail(tn)
    PROVE  rest \in Seq(SUBSET Master) /\ Left(tn, m, sh, rest)
<1> DEFINE first == tn[1] \ {m}
           tail  == Tail(tn)
           T     == Len(tn)
<1>1. T \in Nat \ {0} /\ tn[1] \in SUBSET Master
  BY EmptySeq, LenProperties
<1>2. tail \in Seq(SUBSET Master) /\ Len(tail) = T - 1 /\ \A t \in 1 .. T - 1 : tail[t] = tn[t + 1]
  BY HeadTailProperties
<1>3. first = {} <=> sh = 1
  OBVIOUS
<1>4. sh \in {0, 1}
  OBVIOUS
<1>8. rest = IF first = {} THEN tail ELSE <<first>> \o tail
  OBVIOUS
<1>5. first \in SUBSET Master /\ \A n : n \in first <=> n \in tn[1] /\ n # m
  BY <1>1
<1> HIDE DEF first, tail, T
<1>6. CASE first = {}
  <2>1. rest = tail /\ sh = 1
    BY <1>3, <1>6, <1>8
  <2>2. ASSUME NEW t \in 1 .. T - 1 PROVE t + 1 # 1 /\ tail[t] = tn[t + 1]
    BY <1>1, <1>2
  <2>3. /\ rest \in Seq(SUBSET Master) /\ Len(rest) = T - sh
        /\ \A t \in 1 .. Len(rest) : \A n : n \in rest[t] <=> n \in tn[t + sh] /\ ~ (t + sh = 1 /\ n = m)
    BY <1>1, <1>2, <2>1, <2>2
  <2> QED
    BY <2>3 DEF T, Left
<1>7. CASE first # {}
  <2>1. rest = <<first>> \o tail /\ sh = 0
    BY <1>3, <1>4, <1>7, <1>8
  <2>2. <<first>> \in Seq(SUBSET Master) /\ Len(<<first>>) = 1 /\ <<first>>[1] = first
    BY <1>5
  <2>3. /\ rest \in Seq(SUBSET Master) /\ Len(rest) = 1 + (T - 1)
        /\ \A t \in 1 .. 1 + (T - 1) : rest[t] = IF t <= 1 THEN <<first>>[t] ELSE tail[t - 1]
    <3> DEFINE o == <<first>>
    <3> HIDE DEF o
    <3>1. o \in Seq(SUBSET Master) /\ Len(o) = 1 /\ rest = o \o tail
      BY <2>1, <2>2 DEF o
    <3>2. /\ o \o tail \in Seq(SUBSET Master) /\ Len(o \o tail) = Len(o) + Len(tail)
          /\ \A t \in 1 .. Len(o) + Len(tail) : (o \o tail)[t] = IF t <= Len(o) THEN o[t] ELSE tail[t - Len(o)]
      <4>1. o \in Seq(SUBSET Master) /\ tail \in Seq(SUBSET Master)
        BY <1>2, <3>1
      <4> QED
        BY ONLY <4>1, ConcatProperties
    <3>3. /\ rest \in Seq(SUBSET Master) /\ Len(rest) = Len(o) + Len(tail)
          /\ \A t \in 1 .. Len(o) + Len(tail) : rest[t] = IF t <= Len(o) THEN o[t] ELSE tail[t - Len(o)]
      BY ONLY <3>1, <3>2
    <3> QED
      BY ONLY <1>2, <3>1, <3>3 DEF o
  <2>4. Len(rest) = T - sh /\ Len(rest) = T
    BY <1>1, <2>1, <2>3
  <2>5. ASSUME NEW t \in 1 .. T, NEW n PROVE n \in rest[t] <=> n \in tn[t + sh] /\ ~ (t + sh = 1 /\ n = m)
    <3>1. t + sh = t /\ t \in 1 .. 1 + (T - 1)
      BY <1>1, <2>1
    <3>2. CASE t = 1
      <4>1. rest[t] = first
        BY <2>2, <2>3, <3>1, <3>2
      <4> QED
        BY <1>5, <3>1, <3>2, <4>1
    <3>3. CASE t # 1
      <4>1. t - 1 \in 1 .. T - 1 /\ (t - 1) + 1 = t
        BY <1>1, <3>3
      <4>2. rest[t] = tail[t - 1]
        BY <1>1, <2>3, <3>1, <3>3
      <4>3. tail[t - 1] = tn[t]
        BY <1>2, <4>1
      <4> QED
        BY <3>1, <3>3, <4>2, <4>3
    <3> QED
      BY <3>2, <3>3
  <2>6. /\ rest \in Seq(SUBSET Master) /\ Len(rest) = T - sh
        /\ \A t \in 1 .. Len(rest) : \A n : n \in rest[t] <=> n \in tn[t + sh] /\ ~ (t + sh = 1 /\ n = m)
    BY <2>3, <2>4, <2>5
  <2> QED
    BY <2>6 DEF T, Left
<1> QED
  BY <1>6, <1>7

(* Serving the first turn keeps the order of the others.                   *)
LEMMA TurnsServed ==
    ASSUME NEW f, NEW g, NEW tn, NEW q, NEW now, NEW m, NEW inc, NEW sh, NEW rest,
           Served(f, g, tn, q, now, m, inc, sh, rest)
    PROVE  Aged(rest, Less(q, m), Clock(now, inc), inc)
<1>0. /\ tn \in Seq(SUBSET Master) /\ q \in [Master -> Seq(Hdr)] /\ rest \in Seq(SUBSET Master)
      /\ Turns(f, g, tn, q, now) /\ now \in 0 .. 2 * HalfTag - 1 /\ inc \in {0, 1}
      /\ m \in Master /\ q[m] # <<>> /\ f[m][1] = 1
      /\ Left(tn, m, sh, rest) /\ sh \in {0, 1} /\ (sh = 1 <=> tn[1] = {m})
  BY DEF Served
<1> USE <1>0
<1> DEFINE T  == Len(tn)
           R  == Len(rest)
           q1 == Less(q, m)
           now2 == Clock(now, inc)
           d  == [n \in Master |-> IF n = m THEN 1 ELSE 0]
           f1 == [n \in Master |-> [k \in 1 .. Len(q1[n]) |-> f[n][k + d[n]] - sh]]
           g1 == [t \in 1 .. R |-> g[t + sh] + inc]
<1>1. T \in Nat /\ R \in Nat /\ R = T - sh /\ sh \in {0, 1}
  BY DEF Left
<1>2. ASSUME NEW n \in Master
      PROVE  /\ q1[n] \in Seq(Hdr) /\ Len(q1[n]) \in Nat /\ Len(q[n]) \in Nat
             /\ Len(q1[n]) = Len(q[n]) - d[n] /\ d[n] \in {0, 1}
             /\ \A k \in 1 .. Len(q1[n]) : q1[n][k] = q[n][k + d[n]]
  <2>1. q[n] \in Seq(Hdr)
    OBVIOUS
  <2>2. CASE n = m
    <3>1. q1[n] = Tail(q[n]) /\ d[n] = 1 /\ q[n] # <<>>
      BY <2>2 DEF Less
    <3> QED
      BY <2>1, <3>1, HeadTailProperties, EmptySeq
  <2>3. CASE n # m
    <3>1. q1[n] = q[n] /\ d[n] = 0
      BY <2>3 DEF Less
    <3> QED
      BY <2>1, <3>1
  <2> QED
    BY <2>2, <2>3
<1>3. \A n \in Master : \A k \in 1 .. Len(q[n]) :
          /\ f[n][k] \in 1 .. T /\ n \in tn[f[n][k]]
          /\ Stamp(q[n][k].tag, g[f[n][k]], now)
  BY DEF Turns
<1>4. \A n \in Master : \A j, k \in 1 .. Len(q[n]) : j < k => f[n][j] < f[n][k]
  BY DEF Turns
<1>5. \A t \in 1 .. T : /\ tn[t] # {} /\ g[t] \in Nat \ {0}
                        /\ \A n \in tn[t] : n \in Master /\ \E k \in 1 .. Len(q[n]) : f[n][k] = t
  BY DEF Turns
<1>6. \A t, u \in 1 .. T : t < u => g[t] > g[u]
  BY DEF Turns
<1>7. \A p, n \in Master : p # n =>
          \A k \in 1 .. Len(q[p]) :
             /\ g[f[p][k]] + k <= 2 * Depth + 1
             /\ \A j \in 1 .. Len(q[n]) : f[n][j] <= f[p][k] => g[f[p][k]] + k + j <= 2 * Depth + 1
  BY DEF Turns
<1>8. d[m] = 1 /\ \A n \in Master : n # m => d[n] = 0
  OBVIOUS
<1>9. \A n \in Master : \A k \in 1 .. Len(q1[n]) : f1[n][k] = f[n][k + d[n]] - sh
  OBVIOUS
<1>10. \A t \in 1 .. R : g1[t] = g[t + sh] + inc
  OBVIOUS
<1>11. 1 \in 1 .. Len(q[m])
  BY EmptySeq
<1>12. sh = 1 <=> tn[1] = {m}
  OBVIOUS
<1>13. \A t \in 1 .. R : \A n : n \in rest[t] <=> n \in tn[t + sh] /\ ~ (t + sh = 1 /\ n = m)
  BY DEF Left
<1> HIDE DEF T, R, q1, d, f1, g1, now2
(* The headers that stay.                                                  *)
<1>14. ASSUME NEW n \in Master, NEW k \in 1 .. Len(q1[n])
       PROVE  /\ k + d[n] \in 1 .. Len(q[n])
              /\ f[n][k + d[n]] \in 1 .. T /\ f[n][k + d[n]] > sh
              /\ f1[n][k] \in 1 .. R /\ f1[n][k] + sh = f[n][k + d[n]]
              /\ n = m => f[n][k + d[n]] # 1
  <2>0. Len(q1[n]) = Len(q[n]) - d[n] /\ d[n] \in {0, 1} /\ Len(q[n]) \in Nat
    BY <1>2
  <2>1. k + d[n] \in 1 .. Len(q[n])
    BY ONLY <2>0, k \in 1 .. Len(q1[n])
  <2> DEFINE x == f[n][k + d[n]]
             y == f1[n][k]
  <2>2. f[n][k + d[n]] \in 1 .. T /\ n \in tn[f[n][k + d[n]]]
    BY <1>3, <2>1
  <2>5. y = x - sh
    BY <1>9
  <2>3. CASE n = m
    <3>1. 1 < k + d[n]
      BY <1>8, <2>3
    <3>2. f[n][1] < f[n][k + d[n]]
      BY <1>4, <1>11, <2>1, <2>3, <3>1
    <3>3. f[n][k + d[n]] > 1
      BY <2>3, <3>2
    <3> HIDE DEF x, y
    <3>4. x > 1
      BY <3>3 DEF x
    <3>5. x \in 1 .. T
      BY <2>2 DEF x
    <3>6. x > sh /\ y \in 1 .. R /\ y + sh = x /\ x # 1
      BY ONLY <1>1, <2>5, <3>4, <3>5
    <3> QED
      BY <2>1, <3>5, <3>6 DEF x, y
  <2>4. CASE n # m
    <3>1. sh = 1 => f[n][k + d[n]] # 1
      BY <1>12, <2>2, <2>4
    <3> HIDE DEF x, y
    <3>2. sh = 1 => x # 1
      BY <3>1 DEF x
    <3>3. x \in 1 .. T
      BY <2>2 DEF x
    <3>4. x > sh /\ y \in 1 .. R /\ y + sh = x
      BY ONLY <1>1, <2>5, <3>2, <3>3
    <3> QED
      BY <2>1, <2>4, <3>3, <3>4 DEF x, y
  <2> QED
    BY <2>3, <2>4
<1>15. ASSUME NEW n \in Master, NEW k \in 1 .. Len(q1[n])
       PROVE  g1[f1[n][k]] = g[f[n][k + d[n]]] + inc
  BY <1>10, <1>14
<1>16. ASSUME NEW n \in Master, NEW k \in 1 .. Len(q[n])
       PROVE  g[f[n][k]] \in 1 .. HalfTag /\ g[f[n][k]] \in Nat
  <2> DEFINE a == g[f[n][k]]
  <2>1. a \in Nat \ {0}
    BY <1>3, <1>5
  <2>2. \E p \in Master : p # n
    BY DEF Master
  <2>3. a + k <= 2 * Depth + 1
    BY <1>7, <2>2
  <2> HIDE DEF a
  <2>4. a \in 1 .. HalfTag
    BY <2>1, <2>3, <1>2, Sizes, PowerAssumption
  <2> QED
    BY <2>1, <2>4 DEF a
<1>17. ASSUME NEW n \in Master, NEW k \in 1 .. Len(q1[n])
       PROVE  /\ f1[n][k] \in 1 .. R /\ n \in rest[f1[n][k]]
              /\ Stamp(q1[n][k].tag, g1[f1[n][k]], now2)
  <2> DEFINE i == k + d[n]
             a == g[f[n][i]]
             tag == q[n][i].tag
  <2>1. /\ i \in 1 .. Len(q[n]) /\ f1[n][k] \in 1 .. R /\ f1[n][k] + sh = f[n][i]
        /\ n = m => f[n][i] # 1
    BY <1>14
  <2>2. n \in tn[f[n][i]] /\ Stamp(tag, a, now)
    BY <1>3, <2>1
  <2>3. n \in rest[f1[n][k]]
    BY <1>13, <2>1, <2>2
  <2>4. q1[n][k].tag = tag /\ g1[f1[n][k]] = a + inc /\ a \in 1 .. HalfTag
    BY <1>2, <1>15, <1>16, <2>1
  <2> HIDE DEF i, a, tag
  <2>5. Stamp(tag, a + inc, now2)
    <3>1. CASE inc = 1
      <4>1. now2 = (now + 1) % (2 * HalfTag)
        BY <3>1 DEF Clock, now2
      <4>2. a \in 0 .. HalfTag
        BY <2>4, Sizes
      <4>3. Stamp(tag, a + 1, now2)
        BY <2>2, <4>1, <4>2, StampAfter
      <4> QED
        BY <3>1, <4>3
    <3>2. CASE inc = 0
      <4>1. a + inc = a /\ now2 = now
        BY <2>4, <3>2, Sizes DEF Clock, now2
      <4> QED
        BY <2>2, <4>1
    <3> QED
      BY <3>1, <3>2
  <2> QED
    BY <2>1, <2>3, <2>4, <2>5
<1>18. ASSUME NEW n \in Master, NEW j \in 1 .. Len(q1[n]), NEW k \in 1 .. Len(q1[n]), j < k
       PROVE  f1[n][j] < f1[n][k]
  <2>1. /\ j + d[n] \in 1 .. Len(q[n]) /\ f[n][j + d[n]] \in 1 .. T /\ f1[n][j] = f[n][j + d[n]] - sh
    BY <1>9, <1>14
  <2>2. /\ k + d[n] \in 1 .. Len(q[n]) /\ f[n][k + d[n]] \in 1 .. T /\ f1[n][k] = f[n][k + d[n]] - sh
    BY <1>9, <1>14
  <2>5. d[n] \in {0, 1}
    BY <1>2
  <2>6. j \in Int /\ k \in Int /\ j < k
    BY <1>18
  <2>3. j + d[n] < k + d[n]
    BY ONLY <2>5, <2>6
  <2>4. f[n][j + d[n]] < f[n][k + d[n]]
    BY <1>4, <2>1, <2>2, <2>3
  <2> DEFINE x == f[n][j + d[n]]
             y == f[n][k + d[n]]
             v == f1[n][j]
             w == f1[n][k]
  <2>7. x \in 1 .. T /\ y \in 1 .. T /\ v = x - sh /\ w = y - sh /\ x < y
    BY <2>1, <2>2, <2>4
  <2> HIDE DEF x, y, v, w
  <2>8. v < w
    BY ONLY <1>1, <2>7
  <2> QED
    BY <2>8 DEF v, w
<1>19. ASSUME NEW t \in 1 .. R
       PROVE  /\ rest[t] # {} /\ g1[t] \in Nat \ {0} /\ g1[t] > inc
              /\ \A n \in rest[t] : n \in Master /\ \E k \in 1 .. Len(q1[n]) : f1[n][k] = t
  <2>1. t + sh \in 1 .. T
    BY <1>1
  <2>2. g[t + sh] \in Nat \ {0} /\ tn[t + sh] # {}
    BY <1>5, <2>1
  <2>3. g1[t] \in Nat \ {0} /\ g1[t] > inc
    <3> DEFINE x == g[t + sh]
    <3>1. x \in Nat \ {0} /\ g1[t] = x + inc
      BY <1>10, <2>2
    <3> HIDE DEF x
    <3> QED
      BY ONLY <3>1, inc \in {0, 1}
  <2>4. rest[t] # {}
    <3>1. CASE t + sh # 1
      BY <1>13, <2>2, <3>1
    <3>2. CASE t + sh = 1
      <4>1. sh = 0
        BY <1>1, <3>2
      <4>2. tn[1] # {m} /\ tn[1] # {}
        BY <1>12, <2>2, <3>2, <4>1
      <4>3. PICK n \in tn[1] : n # m
        BY <4>2
      <4> QED
        BY <1>13, <3>2, <4>3
    <3> QED
      BY <3>1, <3>2
  <2>5. ASSUME NEW n \in rest[t]
        PROVE  n \in Master /\ \E k \in 1 .. Len(q1[n]) : f1[n][k] = t
    <3>1. n \in tn[t + sh] /\ ~ (t + sh = 1 /\ n = m)
      BY <1>13
    <3>2. n \in Master
      BY <1>5, <2>1, <3>1
    <3>3. PICK i \in 1 .. Len(q[n]) : f[n][i] = t + sh
      BY <1>5, <2>1, <3>1
    <3>4. n = m => i # 1
      BY <3>1, <3>3
    <3> DEFINE k == i - d[n]
    <3>5. k \in 1 .. Len(q1[n]) /\ k + d[n] = i
      <4> DEFINE e == d[n]
                 x == Len(q1[n])
                 y == Len(q[n])
      <4>1. x = y - e /\ x \in Nat /\ y \in Nat /\ (e = 0 \/ (e = 1 /\ i # 1)) /\ i \in 1 .. y /\ k = i - e
        BY <1>2, <1>8, <3>2, <3>4
      <4> HIDE DEF e, x, y, k
      <4>2. k \in 1 .. x /\ k + e = i
        BY ONLY <4>1
      <4> QED
        BY <4>2 DEF e, x
    <3>6. f1[n][k] = (t + sh) - sh
      BY <1>9, <3>2, <3>3, <3>5
    <3>7. f1[n][k] = t
      BY <1>1, <3>6
    <3> QED
      BY <3>2, <3>5, <3>7
  <2> QED
    BY <2>3, <2>4, <2>5
<1>20. ASSUME NEW t \in 1 .. R, NEW u \in 1 .. R, t < u PROVE g1[t] > g1[u]
  <2>1. t + sh \in 1 .. T /\ u + sh \in 1 .. T /\ t + sh < u + sh
    BY <1>1, <1>20
  <2>2. g[t + sh] > g[u + sh] /\ g[t + sh] \in Nat /\ g[u + sh] \in Nat
    BY <1>5, <1>6, <2>1
  <2> DEFINE x == g[t + sh]
             y == g[u + sh]
  <2>3. x > y /\ x \in Nat /\ y \in Nat /\ g1[t] = x + inc /\ g1[u] = y + inc
    BY <1>10, <2>2
  <2> HIDE DEF x, y
  <2> QED
    BY ONLY <2>3, inc \in {0, 1}
<1>21. ASSUME NEW p \in Master, NEW n \in Master, p # n, NEW k \in 1 .. Len(q1[p])
       PROVE  /\ g1[f1[p][k]] + k <= 2 * Depth + 1
              /\ \A j \in 1 .. Len(q1[n]) : f1[n][j] <= f1[p][k] => g1[f1[p][k]] + k + j <= 2 * Depth + 1
  <2> DEFINE i == k + d[p]
             a == g[f[p][i]]
             z == 2 * Depth + 1
  <2>1. i \in 1 .. Len(q[p]) /\ f[p][i] \in 1 .. T /\ f1[p][k] = f[p][i] - sh /\ g1[f1[p][k]] = a + inc
    BY <1>9, <1>14, <1>15
  <2>2. a + i <= z /\ \A j \in 1 .. Len(q[n]) : f[n][j] <= f[p][i] => a + i + j <= z
    BY <1>7, <1>21, <2>1
  <2>8. a \in Nat
    BY <1>16, <2>1
  <2>9. z \in Nat
    BY Sizes
  <2>3. a \in Nat /\ z \in Nat
    BY <2>8, <2>9
  <2>4. (d[p] = 1 /\ d[n] = 0) \/ (d[p] = 0 /\ d[n] = 1 /\ n = m)
    BY <1>8, <1>21 DEF Master
  <2>5. i = k + d[p] /\ k \in Nat
    OBVIOUS
  <2> HIDE DEF i, a, z
  <2>6. (a + inc) + k <= z
    <3>1. CASE d[p] = 1
      BY <2>2, <2>3, <2>5, <3>1
    <3>2. CASE d[p] = 0 /\ n = m
      <4>1. 1 \in 1 .. Len(q[n]) /\ f[n][1] <= f[p][i]
        BY <1>11, <2>1, <3>2, SMTT(30)
      <4>2. a + i + 1 <= z
        BY <2>2, <4>1
      <4> QED
        BY <2>3, <2>5, <3>2, <4>2
    <3> QED
      BY <2>4, <3>1, <3>2
  <2>7. ASSUME NEW j \in 1 .. Len(q1[n]), f1[n][j] <= f1[p][k]
        PROVE  (a + inc) + k + j <= z
    <3>1. j + d[n] \in 1 .. Len(q[n]) /\ f[n][j + d[n]] \in 1 .. T /\ f1[n][j] = f[n][j + d[n]] - sh
      BY <1>9, <1>14
    <3> DEFINE x == f[n][j + d[n]]
               y == f[p][i]
               v == f1[n][j]
               w == f1[p][k]
    <3>2. x <= y
      <4>1. x \in 1 .. T /\ y \in 1 .. T /\ v = x - sh /\ w = y - sh /\ v <= w
        BY <2>1, <2>7, <3>1
      <4> HIDE DEF x, y, v, w
      <4> QED
        BY ONLY <1>1, <4>1
    <3>3. a + i + (j + d[n]) <= z
      BY <2>2, <3>1, <3>2
    <3>4. j \in Nat
      OBVIOUS
    <3>5. d[p] + d[n] = 1 /\ d[p] \in {0, 1} /\ d[n] \in {0, 1}
      BY <2>4
    <3> DEFINE e == d[p]
               r == d[n]
    <3>6. e + r = 1 /\ e \in {0, 1} /\ r \in {0, 1} /\ i = k + e /\ a + i + (j + r) <= z
      BY <2>5, <3>3, <3>5
    <3> HIDE DEF e, r
    <3>7. (a + inc) + k + j <= a + (k + e) + (j + r)
      BY ONLY <2>3, <2>5, <3>4, <3>6, inc \in {0, 1}
    <3> QED
      BY ONLY <2>3, <2>5, <3>4, <3>6, <3>7, inc \in {0, 1}
  <2> QED
    BY <2>1, <2>6, <2>7 DEF z
<1>22. Turns(f1, g1, rest, q1, now2)
  BY <1>17, <1>18, <1>19, <1>20, <1>21 DEF Turns, R
<1>23. \A t \in 1 .. Len(rest) : g1[t] > inc
  BY <1>19 DEF R
<1> QED
  BY <1>22, <1>23 DEF q1, now2, Aged

(* What is accepted in this cycle is the last turn.                        *)
LEMMA TurnsJoined ==
    ASSUME NEW f, NEW g, NEW tn \in Seq(SUBSET Master), NEW q \in [Master -> Seq(Hdr)],
           NEW now, Turns(f, g, tn, q, now),
           NEW new \in SUBSET Master, new # {}, NEW h,
           \A n \in new : h[n] \in Hdr /\ Stamp(h[n].tag, 1, now),
           \A t \in 1 .. Len(tn) : g[t] > 1,
           \A n \in Master : Len(More(q, new, h)[n]) <= Depth
    PROVE  \E f1, g1 : Turns(f1, g1, Append(tn, new), More(q, new, h), now)
<1> DEFINE T  == Len(tn)
           L(n) == Len(q[n])
           t1 == Append(tn, new)
           q1 == More(q, new, h)
           f1 == [n \in Master |-> [k \in 1 .. Len(q1[n]) |-> IF k <= L(n) THEN f[n][k] ELSE T + 1]]
           g1 == [t \in 1 .. T + 1 |-> IF t = T + 1 THEN 1 ELSE g[t]]
<1>1. T \in Nat
  OBVIOUS
<1>2. t1 \in Seq(SUBSET Master) /\ Len(t1) = T + 1 /\ t1[T + 1] = new /\ \A t \in 1 .. T : t1[t] = tn[t]
  BY AppendProperties
<1>3. ASSUME NEW n \in Master
      PROVE  /\ L(n) \in Nat /\ Len(q1[n]) \in Nat /\ Len(q1[n]) <= Depth
             /\ n \in new => Len(q1[n]) = L(n) + 1 /\ q1[n][L(n) + 1] = h[n]
             /\ n \notin new => Len(q1[n]) = L(n)
             /\ \A k \in 1 .. L(n) : q1[n][k] = q[n][k]
  <2>1. q[n] \in Seq(Hdr) /\ q1[n] = IF n \in new THEN Append(q[n], h[n]) ELSE q[n]
    BY DEF More
  <2>2. Len(q1[n]) <= Depth
    OBVIOUS
  <2>3. CASE n \in new
    <3>1. h[n] \in Hdr
      BY <2>3
    <3> QED
      BY <2>1, <2>2, <2>3, <3>1, AppendProperties
  <2>4. CASE n \notin new
    BY <2>1, <2>2, <2>4
  <2> QED
    BY <2>3, <2>4
<1>4. \A n \in Master : \A k \in 1 .. L(n) :
          /\ f[n][k] \in 1 .. T /\ n \in tn[f[n][k]]
          /\ Stamp(q[n][k].tag, g[f[n][k]], now)
  BY DEF Turns
<1>5. \A n \in Master : \A j, k \in 1 .. L(n) : j < k => f[n][j] < f[n][k]
  BY DEF Turns
<1>6. \A t \in 1 .. T : /\ tn[t] # {} /\ g[t] \in Nat \ {0}
                        /\ \A n \in tn[t] : n \in Master /\ \E k \in 1 .. L(n) : f[n][k] = t
  BY DEF Turns
<1>7. \A t, u \in 1 .. T : t < u => g[t] > g[u]
  BY DEF Turns
<1>8. \A p, n \in Master : p # n =>
          \A k \in 1 .. L(p) :
             /\ g[f[p][k]] + k <= 2 * Depth + 1
             /\ \A j \in 1 .. L(n) : f[n][j] <= f[p][k] => g[f[p][k]] + k + j <= 2 * Depth + 1
  BY DEF Turns
<1>9. \A n \in Master : \A k \in 1 .. Len(q1[n]) : f1[n][k] = IF k <= L(n) THEN f[n][k] ELSE T + 1
  OBVIOUS
<1>10. g1[T + 1] = 1 /\ \A t \in 1 .. T : g1[t] = g[t]
  BY <1>1
<1>11. \A t \in 1 .. T : g[t] > 1
  OBVIOUS
<1>12. \A n \in new : h[n] \in Hdr /\ Stamp(h[n].tag, 1, now)
  OBVIOUS
<1> HIDE DEF T, L, t1, q1, f1, g1
(* A header is an old one or the new one.                                  *)
<1>13. ASSUME NEW n \in Master, NEW k \in 1 .. Len(q1[n])
       PROVE  \/ k \in 1 .. L(n) /\ f1[n][k] = f[n][k] /\ f1[n][k] \in 1 .. T /\ g1[f1[n][k]] = g[f[n][k]]
              \/ n \in new /\ k = L(n) + 1 /\ f1[n][k] = T + 1 /\ g1[f1[n][k]] = 1
  <2>1. L(n) \in Nat /\ (n \in new => Len(q1[n]) = L(n) + 1) /\ (n \notin new => Len(q1[n]) = L(n))
    BY <1>3
  <2>2. k \in 1 .. L(n) \/ (n \in new /\ k = L(n) + 1)
    BY ONLY <2>1, k \in 1 .. Len(q1[n])
  <2>3. CASE k \in 1 .. L(n)
    <3>1. f1[n][k] = f[n][k]
      BY <1>9, <2>3
    <3>2. f1[n][k] \in 1 .. T
      BY <1>4, <2>3, <3>1
    <3>3. g1[f1[n][k]] = g[f1[n][k]]
      BY <1>10, <3>2
    <3> QED
      BY <2>3, <3>1, <3>2, <3>3
  <2>4. CASE n \in new /\ k = L(n) + 1
    <3>1. ~ (k <= L(n))
      BY ONLY <2>1, <2>4
    <3>2. f1[n][k] = T + 1
      BY <1>9, <3>1
    <3> QED
      BY <1>10, <2>4, <3>2
  <2> QED
    BY <2>2, <2>3, <2>4
<1>14. T + 1 \in 1 .. T + 1 /\ \A t \in 1 .. T : t \in 1 .. T + 1 /\ t < T + 1
  BY <1>1
<1>15. ASSUME NEW n \in Master, NEW k \in 1 .. Len(q1[n])
       PROVE  /\ f1[n][k] \in 1 .. T + 1 /\ n \in t1[f1[n][k]]
              /\ Stamp(q1[n][k].tag, g1[f1[n][k]], now)
  <2>1. CASE k \in 1 .. L(n) /\ f1[n][k] = f[n][k] /\ f1[n][k] \in 1 .. T /\ g1[f1[n][k]] = g[f[n][k]]
    <3>1. q1[n][k] = q[n][k] /\ t1[f1[n][k]] = tn[f[n][k]]
      BY <1>2, <1>3, <2>1
    <3>2. n \in tn[f[n][k]] /\ Stamp(q[n][k].tag, g[f[n][k]], now)
      BY <1>4, <2>1
    <3>3. f1[n][k] \in 1 .. T + 1
      BY <1>14, <2>1
    <3> QED
      BY <2>1, <3>1, <3>2, <3>3
  <2>2. CASE n \in new /\ k = L(n) + 1 /\ f1[n][k] = T + 1 /\ g1[f1[n][k]] = 1
    <3>1. q1[n][k] = h[n] /\ t1[f1[n][k]] = new
      BY <1>2, <1>3, <2>2
    <3>2. Stamp(h[n].tag, 1, now)
      BY <1>12, <2>2
    <3>3. f1[n][k] \in 1 .. T + 1
      BY <1>14, <2>2
    <3> QED
      BY <2>2, <3>1, <3>2, <3>3
  <2> QED
    BY <1>13, <2>1, <2>2
<1>16. ASSUME NEW n \in Master, NEW j \in 1 .. Len(q1[n]), NEW k \in 1 .. Len(q1[n]), j < k
       PROVE  f1[n][j] < f1[n][k]
  <2>0. L(n) \in Nat /\ (Len(q1[n]) = L(n) + 1 \/ Len(q1[n]) = L(n))
    BY <1>3
  <2>1. j \in 1 .. L(n)
    BY ONLY <2>0, <1>16, j \in 1 .. Len(q1[n]), k \in 1 .. Len(q1[n])
  <2>2. j # L(n) + 1
    BY ONLY <2>0, <2>1
  <2>3. f1[n][j] = f[n][j] /\ f1[n][j] \in 1 .. T
    BY <1>13, <2>2
  <2>4. CASE k \in 1 .. L(n) /\ f1[n][k] = f[n][k]
    BY <1>5, <1>16, <2>1, <2>3, <2>4
  <2>5. CASE f1[n][k] = T + 1
    BY <1>14, <2>3, <2>5
  <2> QED
    BY <1>13, <2>4, <2>5
<1>17. ASSUME NEW t \in 1 .. T + 1
       PROVE  /\ t1[t] # {} /\ g1[t] \in Nat \ {0}
              /\ \A n \in t1[t] : n \in Master /\ \E k \in 1 .. Len(q1[n]) : f1[n][k] = t
  <2>1. CASE t \in 1 .. T
    <3>1. t1[t] = tn[t] /\ g1[t] = g[t]
      BY <1>2, <1>10, <2>1
    <3>2. ASSUME NEW n \in tn[t]
          PROVE  n \in Master /\ \E k \in 1 .. Len(q1[n]) : f1[n][k] = t
      <4>1. n \in Master
        BY <1>6, <2>1
      <4>2. PICK k \in 1 .. L(n) : f[n][k] = t
        BY <1>6, <2>1
      <4>3. L(n) \in Nat /\ (Len(q1[n]) = L(n) + 1 \/ Len(q1[n]) = L(n))
        BY <1>3, <4>1
      <4>4. k \in 1 .. Len(q1[n]) /\ k # L(n) + 1
        BY ONLY <4>3, k \in 1 .. L(n)
      <4>5. f1[n][k] = f[n][k]
        BY <1>13, <4>1, <4>4
      <4> QED
        BY <4>1, <4>2, <4>4, <4>5
    <3> QED
      BY <1>6, <2>1, <3>1, <3>2
  <2>2. CASE t = T + 1
    <3>1. t1[t] = new /\ g1[t] = 1
      BY <1>2, <1>10, <2>2
    <3>2. ASSUME NEW n \in new
          PROVE  n \in Master /\ \E k \in 1 .. Len(q1[n]) : f1[n][k] = t
      <4>1. n \in Master
        OBVIOUS
      <4>2. L(n) \in Nat /\ Len(q1[n]) = L(n) + 1
        BY <1>3, <4>1
      <4>3. L(n) + 1 \in 1 .. Len(q1[n]) /\ L(n) + 1 \notin 1 .. L(n)
        BY ONLY <4>2
      <4>4. f1[n][L(n) + 1] = T + 1
        BY <1>13, <4>1, <4>3
      <4> QED
        BY <2>2, <4>1, <4>3, <4>4
    <3>3. t1[t] # {} /\ g1[t] \in Nat \ {0}
      BY <3>1
    <3> QED
      BY <3>1, <3>2, <3>3
  <2> QED
    BY <1>1, <2>1, <2>2
<1>18. ASSUME NEW t \in 1 .. T + 1, NEW u \in 1 .. T + 1, t < u PROVE g1[t] > g1[u]
  <2>1. t \in 1 .. T
    BY ONLY <1>1, <1>18, t \in 1 .. T + 1, u \in 1 .. T + 1
  <2>2. CASE u \in 1 .. T
    BY <1>7, <1>10, <1>18, <2>1, <2>2
  <2>3. CASE u = T + 1
    BY <1>10, <1>11, <2>1, <2>3
  <2> QED
    BY <1>1, <2>2, <2>3
<1>19. ASSUME NEW p \in Master, NEW n \in Master, p # n, NEW k \in 1 .. Len(q1[p])
       PROVE  /\ g1[f1[p][k]] + k <= 2 * Depth + 1
              /\ \A j \in 1 .. Len(q1[n]) : f1[n][j] <= f1[p][k] => g1[f1[p][k]] + k + j <= 2 * Depth + 1
  <2>1. CASE k \in 1 .. L(p) /\ f1[p][k] = f[p][k] /\ f1[p][k] \in 1 .. T /\ g1[f1[p][k]] = g[f[p][k]]
    <3>1. g[f[p][k]] + k <= 2 * Depth + 1
      BY <1>8, <1>19, <2>1
    <3>2. ASSUME NEW j \in 1 .. Len(q1[n]), f1[n][j] <= f1[p][k]
          PROVE  g[f[p][k]] + k + j <= 2 * Depth + 1
      <4>1. f1[n][j] # T + 1
        <5> DEFINE v == f1[n][j]
                   w == f1[p][k]
        <5>1. v <= w /\ w \in 1 .. T
          BY <2>1, <3>2
        <5> HIDE DEF v, w
        <5>2. v # T + 1
          BY ONLY <1>1, <5>1
        <5> QED
          BY <5>2 DEF v
      <4>2. j \in 1 .. L(n) /\ f1[n][j] = f[n][j]
        BY <1>13, <4>1
      <4> QED
        BY <1>8, <1>19, <2>1, <3>2, <4>2
    <3> QED
      BY <2>1, <3>1, <3>2
  <2>2. CASE g1[f1[p][k]] = 1
    <3>1. Len(q1[p]) \in Nat /\ Len(q1[n]) \in Nat /\ Len(q1[p]) <= Depth /\ Len(q1[n]) <= Depth /\ Depth \in Nat
      BY <1>3, Sizes
    <3>2. 1 + k <= 2 * Depth + 1
      BY ONLY <3>1, k \in 1 .. Len(q1[p])
    <3>3. \A j \in 1 .. Len(q1[n]) : 1 + k + j <= 2 * Depth + 1
      BY ONLY <3>1, k \in 1 .. Len(q1[p])
    <3> QED
      BY <2>2, <3>2, <3>3
  <2> QED
    BY <1>13, <2>1, <2>2
<1>20. Turns(f1, g1, t1, q1, now)
  BY <1>2, <1>15, <1>16, <1>17, <1>18, <1>19 DEF Turns
<1> QED
  BY <1>20 DEF t1, q1

(* So a step keeps the order of the requests that wait for a slave.        *)
LEMMA TurnsAfter ==
    ASSUME OInv, Next, NEW s \in Slave
    PROVE  turns'[s] \in Seq(SUBSET Master) /\ InTurn(s)' /\ time_tag' < 2 * HalfTag
<1> DEFINE tn    == turns[s]
           q     == [n \in Master |-> headers[n][s]]
           q1    == [n \in Master |-> IF hrden(n, s) THEN Tail(headers[n][s]) ELSE headers[n][s]]
           q2    == [n \in Master |-> headers'[n][s]]
           gone  == {n \in Master : hrden(n, s)}
           first == IF tn = <<>> THEN {} ELSE Head(tn) \ gone
           rest  == IF tn = <<>> THEN <<>> ELSE IF first = {} THEN Tail(tn) ELSE <<first>> \o Tail(tn)
           new   == {n \in Master : hwren(n, s)}
           h     == [n \in Master |-> [addr |-> req[n].addr, we |-> req[n].we, tag |-> time_tag]]
           inc   == IF \E n \in Master : Accepted(n) THEN 1 ELSE 0
           now   == time_tag
           now2  == time_tag'
<1>1. Always /\ tn \in Seq(SUBSET Master) /\ now \in 0 .. 2 * HalfTag - 1
  BY Sizes DEF OInv, Always, TypeA
<1>2. PICK f, g : Turns(f, g, tn, q, now)
  BY DEF OInv, InTurn
<1>3. turns'[s] = IF new = {} THEN rest ELSE Append(rest, new)
  BY DEF Next, Edge, History
<1>4. now2 = Clock(now, inc)
  BY DEF Next, Edge, TimeTag, Clock
<1>5. ASSUME NEW n \in Master
      PROVE  /\ q2[n] = IF n \in new THEN Append(q1[n], h[n]) ELSE q1[n]
             /\ q1[n] \in Seq(Hdr) /\ Len(q2[n]) <= Depth
             /\ n \in new => h[n] \in Hdr /\ h[n].tag = now
  BY <1>1, HeadersAfter
<1>6. q \in [Master -> Seq(Hdr)]
  BY <1>1, Fronts
<1>7. inc \in {0, 1} /\ (new # {} => inc = 1)
  BY DEF hwren
<1>8. /\ rest \in Seq(SUBSET Master)
      /\ Aged(rest, q1, now2, inc)
  <2>1. CASE s_wb_stb(s)
    <3>1. PICK m \in Master : hrden(m, s)
      BY <2>1, SomeHeader
    <3>2. \A n \in Master : hrden(n, s) <=> n = m
      BY <2>1, <3>1, SomeHeader DEF Master
    <3>3. tn # <<>> /\ f[m][1] = 1 /\ m \in tn[1]
      BY <1>2, <3>1, FirstTurn
    <3>4. q[m] # <<>>
      BY <3>1, Popped
    <3>5. first = tn[1] \ {m}
      BY <1>1, <3>1, <3>2, <3>3
    <3>6. rest = IF tn[1] \ {m} = {} THEN Tail(tn) ELSE <<tn[1] \ {m}>> \o Tail(tn)
      BY <3>3, <3>5
    <3>7. q1 = Less(q, m)
      BY <3>2 DEF Less
    <3> DEFINE sh == IF tn[1] = {m} THEN 1 ELSE 0
    <3> HIDE DEF tn, q, q1, rest, first, inc, now, now2, sh
    <3>8. sh \in {0, 1} /\ (sh = 1 <=> tn[1] = {m})
      BY DEF sh
    <3>9. rest \in Seq(SUBSET Master) /\ Left(tn, m, sh, rest)
      BY ONLY <1>1, <3>3, <3>6, <3>8, TurnLeft, m \in Master
    <3>10. Aged(rest, Less(q, m), Clock(now, inc), inc)
      <4>1. tn \in Seq(SUBSET Master) /\ now \in 0 .. 2 * HalfTag - 1
        BY <1>1
      <4>2. f[m][1] = 1 /\ inc \in {0, 1} /\ rest \in Seq(SUBSET Master)
        BY <1>7, <3>3, <3>9
      <4>3. Served(f, g, tn, q, now, m, inc, sh, rest)
        BY ONLY <1>2, <1>6, <3>4, <3>8, <3>9, <4>1, <4>2, m \in Master DEF Served
      <4> QED
        BY ONLY <4>3, TurnsServed
    <3> QED
      BY <1>4, <3>7, <3>9, <3>10
  <2>2. CASE ~ s_wb_stb(s)
    <3>1. \A n \in Master : headers[n][s] = <<>> /\ ~ hrden(n, s)
      BY <2>2 DEF s_wb_stb, hempty, hrden, Master
    <3>2. \A n \in Master : q[n] = <<>> /\ q1[n] = <<>>
      BY <3>1
    <3>3. tn = <<>>
      <4>1. \A t \in 1 .. Len(tn) : tn[t] # {} /\ \A n \in tn[t] : n \in Master /\ \E k \in 1 .. Len(q[n]) : TRUE
        BY <1>2 DEF Turns
      <4>2. Len(<<>>) = 0 /\ 1 .. 0 = {}
        OBVIOUS
      <4>3. 1 \notin 1 .. Len(tn)
        BY <3>2, <4>1, <4>2
      <4> HIDE DEF tn
      <4>4. Len(tn) = 0
        BY <1>1, <4>3
      <4> QED
        BY <1>1, <4>4, EmptySeq
    <3>4. rest = <<>>
      BY <3>3
    <3>5. Len(<<>>) = 0 /\ 1 .. 0 = {} /\ <<>> \in Seq(SUBSET Master)
      OBVIOUS
    <3> HIDE DEF q1, rest, now2, inc
    <3>6. Turns(f, g, rest, q1, now2)
      BY <3>2, <3>4, <3>5 DEF Turns
    <3> QED
      BY <3>4, <3>5, <3>6 DEF Aged
  <2> QED
    BY <2>1, <2>2
<1>9. PICK f1, g1 : Turns(f1, g1, rest, q1, now2) /\ \A t \in 1 .. Len(rest) : g1[t] > inc
  BY <1>8 DEF Aged
<1>10. q1 \in [Master -> Seq(Hdr)]
  BY <1>5
<1>11. new \in SUBSET Master
  OBVIOUS
<1>12. q2 = More(q1, new, h) /\ (new = {} => q2 = q1)
  BY <1>5 DEF More
<1> HIDE DEF tn, q, q1, q2, gone, first, rest, new, h, inc, now, now2
<1>13. turns'[s] \in Seq(SUBSET Master) /\ \E f2, g2 : Turns(f2, g2, turns'[s], q2, now2)
  <2>1. CASE new = {}
    <3>1. q2 = q1
      BY <1>12, <2>1
    <3> QED
      BY <1>3, <1>8, <1>9, <2>1, <3>1
  <2>2. CASE new # {}
    <3>1. \A n \in new : h[n] \in Hdr /\ Stamp(h[n].tag, 1, now2)
      <4>1. Stamp(now, 0, now)
        BY <1>1, Sizes DEF Stamp
      <4>2. now2 = (now + 1) % (2 * HalfTag)
        BY <1>4, <1>7, <2>2 DEF Clock
      <4>3. 0 \in 0 .. HalfTag /\ 0 + 1 = 1
        BY Sizes
      <4>4. Stamp(now, 0 + 1, now2)
        BY <1>1, <4>1, <4>2, <4>3, StampAfter
      <4> QED
        BY <1>5, <1>11, <4>3, <4>4
    <3>2. \A t \in 1 .. Len(rest) : g1[t] > 1
      BY <1>7, <1>9, <2>2
    <3>3. \A n \in Master : Len(More(q1, new, h)[n]) <= Depth
      BY <1>5, <1>12
    <3>4. \E f2, g2 : Turns(f2, g2, Append(rest, new), q2, now2)
      <4>1. \E f2, g2 : Turns(f2, g2, Append(rest, new), More(q1, new, h), now2)
        BY ONLY <1>8, <1>9, <1>10, <1>11, <2>2, <3>1, <3>2, <3>3, TurnsJoined
      <4> QED
        BY <1>12, <4>1
    <3>5. Append(rest, new) \in Seq(SUBSET Master)
      BY <1>8, <1>11, AppendProperties
    <3> QED
      BY <1>3, <2>2, <3>4, <3>5
  <2> QED
    BY <2>1, <2>2
<1>14. InTurn(s)'
  BY <1>13 DEF InTurn, q2, now2
<1>15. now2 < 2 * HalfTag
  <2> DEFINE w == 2 * HalfTag
  <2>1. w \in Nat \ {0}
    BY Sizes
  <2>2. now \in 0 .. w - 1 /\ now2 = IF inc = 1 THEN (now + 1) % w ELSE now
    BY <1>1, <1>4 DEF Clock
  <2> HIDE DEF w
  <2>3. (now + 1) % w < w
    BY <2>1, <2>2
  <2>4. now2 < w
    BY <2>1, <2>2, <2>3
  <2> QED
    BY <2>4 DEF w
<1> QED
  BY <1>13, <1>14, <1>15 DEF now2

(* No request waits when it starts.                                        *)
LEMMA InitOInv == Init => OInv
<1> SUFFICES ASSUME Init PROVE OInv
  OBVIOUS
<1>1. Always
  BY InitIInv DEF IInv
<1>2. time_tag < 2 * HalfTag
  BY Sizes DEF Init
<1>3. ASSUME NEW s \in Slave PROVE turns[s] \in Seq(SUBSET Master) /\ InTurn(s)
  <2> DEFINE q == [m \in Master |-> headers[m][s]]
  <2>1. turns[s] = <<>> /\ \A m \in Master : q[m] = <<>>
    BY DEF Init
  <2>2. Len(<<>>) = 0 /\ 1 .. 0 = {} /\ <<>> \in Seq(SUBSET Master)
    OBVIOUS
  <2> HIDE DEF q
  <2>3. \A f, g : Turns(f, g, turns[s], q, time_tag)
    BY <2>1, <2>2 DEF Turns
  <2> QED
    BY <2>1, <2>2, <2>3 DEF InTurn, q
<1> QED
  BY <1>1, <1>2, <1>3 DEF OInv

(* And every step keeps the order.                                         *)
LEMMA StepOInv == OInv /\ [Next]_vars => OInv'
<1>1. ASSUME OInv, Next PROVE OInv'
  <2>1. Always'
    BY <1>1, NextAlways DEF OInv
  <2>2. \A s \in Slave : turns'[s] \in Seq(SUBSET Master) /\ InTurn(s)' /\ time_tag' < 2 * HalfTag
    BY <1>1, TurnsAfter
  <2> QED
    BY <2>1, <2>2 DEF OInv, Slave
<1>2. ASSUME OInv, UNCHANGED vars PROVE OInv'
  <2>1. Always'
    BY <1>2, StepAlways DEF OInv
  <2>2. time_tag' = time_tag /\ turns' = turns /\ headers' = headers
    BY <1>2 DEF vars
  <2>3. \A s \in Slave : InTurn(s)'
    BY <1>2, <2>2 DEF OInv, InTurn
  <2> QED
    BY <1>2, <2>1, <2>2, <2>3 DEF OInv
<1> QED
  BY <1>1, <1>2

(* The requests of both masters reach a slave in the order in which they   *)
(* were accepted, although their tags wrap: no two that wait are further   *)
(* apart than half of the tags.                                            *)
THEOREM InOrder == Spec => []OldestFirst
<1>1. OInv => OldestFirst
  <2> SUFFICES ASSUME OInv, NEW s \in Slave, s_wb_stb(s)
               PROVE  \E m \in Master : hrden(m, s) /\ m \in Head(turns[s])
    BY DEF OldestFirst
  <2>1. PICK m \in Master : hrden(m, s)
    BY SomeHeader
  <2>2. PICK f, g : Turns(f, g, turns[s], [n \in Master |-> headers[n][s]], time_tag)
    BY DEF OInv, InTurn
  <2>3. turns[s] # <<>> /\ m \in turns[s][1]
    BY <2>1, <2>2, FirstTurn
  <2>4. Head(turns[s]) = turns[s][1]
    BY <2>3 DEF OInv
  <2> QED
    BY <2>1, <2>3, <2>4
<1> QED
  BY <1>1, InitOInv, StepOInv, PTL DEF Spec


(***************************************************************************)
(* How long an answer takes. A slave is offered one request in a cycle, in *)
(* the order of the turns: a header whose master first appears in turn i   *)
(* is offered in the cycle i from now at the latest, or one later if the   *)
(* turn is shared; its answer comes at most Delay cycles after. Timely:    *)
(* that, and the cycles waited already, is within AnswerTime.              *)
(***************************************************************************)
FirstOf(tn, m, i) == i \in 1 .. Len(tn) /\ m \in tn[i] /\ \A j \in 1 .. i - 1 : m \notin tn[j]
Rounds(tn, m, n)  == \E i : FirstOf(tn, m, i) /\ n = i + (IF tn[i] = {m} THEN 0 ELSE 1)

DueFromSlave(m, s) == \E i \in 1 .. Len(held[s]) :
                         held[s][i].from = m /\ waited[m] + Delay[s] + 1 - age[s][i] <= AnswerTime
DueToSlave(m, s) == /\ \A i \in 1 .. Len(held[s]) : held[s][i].from # m
                    /\ \E n \in Nat : Rounds(turns[s], m, n) /\ waited[m] + n + Delay[s] <= AnswerTime
Due(m, s) == owed[m] # <<>> /\ Hit(s, owed[m][1].addr) /\ answers[s][m] = <<>> =>
                DueFromSlave(m, s) \/ DueToSlave(m, s)

Timely(m) == /\ waited[m] \in Nat /\ waited[m] <= AnswerTime
             /\ owed[m] = <<>> => waited[m] = 0
             /\ \A s \in Slave : Due(m, s)

TInv == /\ OInv /\ IInv
        /\ \A m \in Master : IF astray = 0 THEN Timely(m) ELSE waited[m] = 0

(* A set of numbers that is not empty has a least one.                     *)
LEMMA Least == ASSUME NEW S, S \subseteq Nat, S # {}
               PROVE  \E x \in S : \A y \in S : x <= y
<1> DEFINE R == {ss \in Nat \X Nat : ss[1] < ss[2]}
<1>1. IsWellFoundedOn(R, Nat)
  BY NatLessThanWellFounded DEF OpToRel
<1> HIDE DEF R
<1>2. PICK x \in S : \A y \in S : ~ (<<y, x>> \in R)
  BY <1>1, WFMin
<1>3. ASSUME NEW y \in S PROVE x <= y
  <2>1. <<y, x>> \notin R
    BY <1>2
  <2>2. x \in Nat /\ y \in Nat
    OBVIOUS
  <2>3. y < x => <<y, x>> \in R
    BY <2>2 DEF R
  <2> QED
    BY <2>1, <2>2, <2>3
<1> QED
  BY <1>3

(* Headers in different turns that fill the first p turns are at least p.  *)
LEMMA AsManyHeaders ==
    ASSUME NEW L \in Nat, NEW p \in Nat, NEW f,
           \A k \in 1 .. L : f[k] \in Nat \ {0},
           \A j, k \in 1 .. L : j < k => f[j] < f[k],
           \A t \in 1 .. p : \E k \in 1 .. L : f[k] = t
    PROVE  p <= L
<1> DEFINE Bad == {t \in 1 .. p : ~ (t <= L /\ f[t] = t)}
<1>1. Bad = {}
  <2> SUFFICES ASSUME Bad # {} PROVE FALSE
    OBVIOUS
  <2>1. PICK t \in Bad : \A u \in Bad : t <= u
    <3>1. Bad \subseteq Nat
      OBVIOUS
    <3> HIDE DEF Bad
    <3> QED
      BY <3>1, Least
  <2>2. t \in 1 .. p /\ ~ (t <= L /\ f[t] = t)
    OBVIOUS
  <2>3. \A u \in 1 .. t - 1 : u <= L /\ f[u] = u
    <3> TAKE u \in 1 .. t - 1
    <3>1. u \in 1 .. p /\ ~ (t <= u)
      BY <2>2
    <3> QED
      BY <2>1, <3>1
  <2>4. PICK k \in 1 .. L : f[k] = t
    BY <2>2
  <2> HIDE DEF Bad
  <2>5. ~ (k < t)
    <3> SUFFICES ASSUME k < t PROVE FALSE
      OBVIOUS
    <3>1. k \in 1 .. t - 1
      BY <2>2
    <3> QED
      BY <2>3, <2>4, <3>1
  <2>6. t \in 1 .. L /\ (t = k \/ t < k)
    BY <2>2, <2>5
  <2>7. t < k
    BY <2>2, <2>4, <2>6
  <2>8. f[t] < t /\ f[t] \in Nat \ {0}
    BY <2>4, <2>6, <2>7
  <2>9. CASE t = 1
    BY <2>8, <2>9
  <2>10. CASE t # 1
    <3>1. t - 1 \in 1 .. t - 1 /\ t - 1 \in 1 .. L /\ t - 1 < t
      BY <2>2, <2>6, <2>10
    <3>2. f[t - 1] = t - 1 /\ f[t - 1] < f[t]
      BY <2>3, <2>6, <3>1
    <3> QED
      BY <2>2, <2>8, <3>2
  <2> QED
    BY <2>9, <2>10
<1>2. p = 0 \/ p \in 1 .. p
  OBVIOUS
<1> QED
  BY <1>1, <1>2

(* A header waits for those of the other master that are there.            *)
LEMMA RoundsOf ==
    ASSUME NEW f, NEW g, NEW tn \in Seq(SUBSET Master), NEW q, NEW now, Turns(f, g, tn, q, now),
           NEW m \in Master, NEW o \in Master, o # m, q[m] \in Seq(Hdr), q[o] \in Seq(Hdr), q[m] # <<>>
    PROVE  \E n \in Nat : n <= Len(q[o]) + 1 /\ Rounds(tn, m, n)
<1> DEFINE M  == Len(q[m])
           L  == Len(q[o])
<1>1. Turns(f, g, tn, q, now)
  OBVIOUS
<1>2. o \in Master /\ \A n \in Master : n # m => n = o
  BY DEF Master
<1>3. q[m] \in Seq(Hdr) /\ q[o] \in Seq(Hdr) /\ tn \in Seq(SUBSET Master)
  OBVIOUS
<1>4. M \in Nat \ {0} /\ L \in Nat /\ tn \in Seq(SUBSET Master)
  BY <1>3
<1>5. /\ \A k \in 1 .. M : f[m][k] \in 1 .. Len(tn) /\ m \in tn[f[m][k]]
      /\ \A k \in 1 .. L : f[o][k] \in 1 .. Len(tn) /\ o \in tn[f[o][k]]
  BY <1>1, <1>2, <1>3 DEF Turns
<1>6. /\ \A j, k \in 1 .. M : j < k => f[m][j] < f[m][k]
      /\ \A j, k \in 1 .. L : j < k => f[o][j] < f[o][k]
  BY <1>1, <1>2, <1>3 DEF Turns
<1>7. \A t \in 1 .. Len(tn) : /\ tn[t] # {} /\ \A n \in tn[t] : n \in Master
                              /\ m \in tn[t] => \E k \in 1 .. M : f[m][k] = t
                              /\ o \in tn[t] => \E k \in 1 .. L : f[o][k] = t
  BY <1>1, <1>2, <1>3 DEF Turns
<1> DEFINE T == Len(tn)
           i == f[m][1]
           n == i + (IF tn[i] = {m} THEN 0 ELSE 1)
<1>8. T \in Nat /\ i \in 1 .. T /\ m \in tn[i]
  BY <1>4, <1>5
<1> HIDE DEF M, L, T
<1>9. \A j \in 1 .. i - 1 : m \notin tn[j]
  <2> SUFFICES ASSUME NEW j \in 1 .. i - 1, m \in tn[j] PROVE FALSE
    OBVIOUS
  <2>1. j \in 1 .. T
    BY <1>8
  <2>2. PICK k \in 1 .. M : f[m][k] = j
    BY <1>7, <2>1 DEF T
  <2>3. 1 \in 1 .. M /\ (k = 1 \/ 1 < k)
    BY <1>4
  <2>4. ~ (1 < k)
    <3> SUFFICES ASSUME 1 < k PROVE FALSE
      OBVIOUS
    <3>1. f[m][1] < f[m][k]
      BY <1>6, <2>3
    <3> QED
      BY <1>8, <2>2, <3>1
  <2> QED
    BY <1>8, <2>2, <2>3, <2>4
<1>10. FirstOf(tn, m, i)
  BY <1>8, <1>9 DEF FirstOf, T
<1> DEFINE p == IF tn[i] = {m} THEN i - 1 ELSE i
<1>11. p \in Nat /\ n = p + 1 /\ n \in Nat
  BY <1>8
<1>12. \A t \in 1 .. p : \E k \in 1 .. L : f[o][k] = t
  <2> TAKE t \in 1 .. p
  <2>1. t \in 1 .. T /\ (t \in 1 .. i - 1 \/ (t = i /\ tn[i] # {m}))
    BY <1>8
  <2>2. tn[t] # {} /\ \A x \in tn[t] : x \in Master
    BY <1>7, <2>1 DEF T
  <2>3. tn[t] # {m}
    BY <1>9, <2>1
  <2>4. PICK x \in tn[t] : x # m
    BY <2>2, <2>3
  <2>5. o \in tn[t]
    BY <1>2, <2>2, <2>4
  <2> QED
    BY <1>7, <2>1, <2>5 DEF T
<1> DEFINE fo == f[o]
<1>13. \A k \in 1 .. L : fo[k] \in Nat \ {0}
  <2>1. \A k \in 1 .. L : fo[k] \in 1 .. T
    BY <1>5 DEF T
  <2> QED
    BY <1>8, <2>1
<1>14. \A j, k \in 1 .. L : j < k => fo[j] < fo[k]
  BY <1>6
<1>18. \A t \in 1 .. p : \E k \in 1 .. L : fo[k] = t
  BY <1>12
<1>19. L \in Nat /\ p \in Nat
  BY <1>4, <1>11
<1> HIDE DEF fo, p
<1>15. p <= L
  BY ONLY <1>13, <1>14, <1>18, <1>19, AsManyHeaders
<1>16. n <= L + 1
  BY <1>4, <1>11, <1>15
<1>17. Rounds(tn, m, n)
  BY <1>10 DEF Rounds
<1> HIDE DEF n
<1> QED
  BY <1>11, <1>16, <1>17 DEF L

(* When the other master is served, a header is one round nearer.          *)
LEMMA RoundsAfter ==
    ASSUME OInv, Next, NEW s \in Slave, NEW m \in Master, headers[m][s] # <<>>, ~ hrden(m, s),
           NEW n \in Nat, Rounds(turns[s], m, n)
    PROVE  n > 1 /\ Rounds(turns'[s], m, n - 1)
<1> DEFINE tn    == turns[s]
           gone  == {x \in Master : hrden(x, s)}
           first == IF tn = <<>> THEN {} ELSE Head(tn) \ gone
           rest  == IF tn = <<>> THEN <<>> ELSE IF first = {} THEN Tail(tn) ELSE <<first>> \o Tail(tn)
           new   == {x \in Master : hwren(x, s)}
           t2    == turns'[s]
<1>1. tn \in Seq(SUBSET Master)
  BY DEF OInv
<1>2. t2 = IF new = {} THEN rest ELSE Append(rest, new)
  BY DEF Next, Edge, History
<1>3. s_wb_stb(s)
  BY DEF s_wb_stb, hempty, Master
<1>4. PICK o \in Master : hrden(o, s)
  BY <1>3, SomeHeader
<1>5. o # m /\ gone = {o} /\ \A x \in Master : x # m => x = o
  BY <1>4 DEF Master
<1>6. PICK f, g : Turns(f, g, tn, [x \in Master |-> headers[x][s]], time_tag)
  BY DEF OInv, InTurn
<1>7. tn # <<>> /\ o \in tn[1]
  BY <1>4, <1>6, FirstTurn
<1>8. rest = IF tn[1] \ {o} = {} THEN Tail(tn) ELSE <<tn[1] \ {o}>> \o Tail(tn)
  <2>1. Head(tn) = tn[1]
    BY <1>1, <1>7
  <2>2. first = tn[1] \ {o}
    BY <1>5, <1>7, <2>1
  <2> QED
    BY <1>7, <2>2
<1> DEFINE sh == IF tn[1] = {o} THEN 1 ELSE 0
<1> HIDE DEF tn, rest, t2, gone, first, sh
<1>9. sh \in {0, 1} /\ (sh = 1 <=> tn[1] = {o})
  BY DEF sh
<1>10. rest \in Seq(SUBSET Master) /\ Left(tn, o, sh, rest)
  BY ONLY <1>1, <1>7, <1>8, <1>9, TurnLeft, o \in Master
<1> DEFINE T == Len(tn)
           R == Len(rest)
<1>11. /\ T \in Nat /\ R \in Nat /\ R = T - sh
       /\ \A t \in 1 .. R : \A x : x \in rest[t] <=> x \in tn[t + sh] /\ ~ (t + sh = 1 /\ x = o)
  BY <1>1, <1>10 DEF Left
<1>12. \A t \in 1 .. R : t2[t] = rest[t] /\ t \in 1 .. Len(t2)
  <2>1. CASE new = {}
    BY <1>2, <2>1
  <2>2. CASE new # {}
    <3>1. new \in SUBSET Master
      OBVIOUS
    <3> HIDE DEF new
    <3> QED
      BY <1>2, <1>10, <2>2, <3>1, AppendProperties
  <2> QED
    BY <2>1, <2>2
<1> HIDE DEF T, R, new
<1>13. PICK i : FirstOf(tn, m, i) /\ n = i + (IF tn[i] = {m} THEN 0 ELSE 1)
  BY DEF Rounds, tn
<1>14. i \in 1 .. T /\ m \in tn[i] /\ \A j \in 1 .. i - 1 : m \notin tn[j]
  BY <1>13 DEF FirstOf, T
<1>15. CASE i = 1
  <2>1. sh = 0 /\ n = 2
    BY <1>5, <1>7, <1>9, <1>13, <1>14, <1>15
  <2>2. 1 \in 1 .. R /\ R = T
    BY <1>11, <1>14, <1>15, <2>1
  <2>3. \A x : x \in t2[1] <=> x \in tn[1] /\ x # o
    BY <1>11, <1>12, <2>1, <2>2
  <2>4. tn[1] \in SUBSET Master
    <3>1. 1 \in 1 .. Len(tn)
      BY <1>14, <1>15 DEF T
    <3> QED
      BY <1>1, <3>1
  <2>5. t2[1] = {m}
    BY <1>5, <1>14, <1>15, <2>3, <2>4
  <2>6. FirstOf(t2, m, 1)
    BY <1>12, <2>2, <2>5 DEF FirstOf
  <2>7. Rounds(t2, m, n - 1)
    BY <2>1, <2>5, <2>6 DEF Rounds
  <2> QED
    BY <2>1, <2>7 DEF t2
<1>16. CASE i # 1
  <2>1. 1 \in 1 .. i - 1 /\ i - 1 \in Nat /\ i \in Nat
    BY <1>11, <1>14, <1>16
  <2>2. tn[1] = {o} /\ sh = 1
    <3>1. m \notin tn[1]
      BY <1>14, <2>1
    <3>2. tn[1] \in SUBSET Master
      <4>1. 1 \in 1 .. Len(tn)
        BY <1>11, <1>14, <2>1 DEF T
      <4> QED
        BY <1>1, <4>1
    <3> QED
      BY <1>5, <1>7, <1>9, <3>1, <3>2
  <2>3. ASSUME NEW t \in 1 .. R PROVE t2[t] = tn[t + 1] /\ t \in 1 .. Len(t2)
    <3>1. tn[t + 1] \in SUBSET Master /\ rest[t] \in SUBSET Master
      <4>1. t + 1 \in 1 .. Len(tn) /\ t \in 1 .. Len(rest)
        BY <1>11, <2>2, t \in 1 .. R DEF T, R
      <4> QED
        BY <1>1, <1>10, <4>1
    <3>2. t + 1 # 1 /\ t + sh = t + 1
      BY <1>11, <2>2
    <3>3. \A x : x \in rest[t] <=> x \in tn[t + 1]
      BY <1>11, <3>2
    <3> QED
      BY <1>12, <3>1, <3>3
  <2>4. i - 1 \in 1 .. R /\ (i - 1) + 1 = i
    BY <1>11, <1>14, <2>1, <2>2
  <2>5. t2[i - 1] = tn[i] /\ i - 1 \in 1 .. Len(t2)
    BY <2>3, <2>4
  <2>6. \A j \in 1 .. (i - 1) - 1 : m \notin t2[j]
    <3> TAKE j \in 1 .. (i - 1) - 1
    <3>1. j \in 1 .. R /\ j + 1 \in 1 .. i - 1
      BY <1>11, <2>1, <2>4
    <3> QED
      BY <1>14, <2>3, <3>1
  <2>7. FirstOf(t2, m, i - 1)
    BY <1>14, <2>5, <2>6 DEF FirstOf
  <2>8. n - 1 = (i - 1) + (IF t2[i - 1] = {m} THEN 0 ELSE 1) /\ n > 1
    BY <1>13, <1>16, <2>1, <2>5
  <2>9. Rounds(t2, m, n - 1)
    BY <2>7, <2>8 DEF Rounds
  <2> QED
    BY <2>8, <2>9 DEF t2
<1> QED
  BY <1>15, <1>16

(* The longest a slave may take.                                           *)
LEMMA Delays ==
    /\ AnswerTime \in Nat /\ AnswerTime = Depth + 1 + LongestDelay /\ LongestDelay \in Nat
    /\ \A s \in Slave : Delay[s] \in Nat /\ Delay[s] <= LongestDelay
<1>1. Delay[0] \in Nat /\ Delay[1] \in Nat
  BY DelayAssumption, Sizes DEF Slave
<1>2. LongestDelay \in Nat /\ \A s \in Slave : Delay[s] \in Nat /\ Delay[s] <= LongestDelay
  BY <1>1 DEF LongestDelay, Slave
<1> QED
  BY <1>2, Sizes DEF AnswerTime

(* A request without an answer that is not in its slave waits as a header. *)
LEMMA StillWaits ==
    ASSUME NEW s \in Slave, NEW m \in Master, NEW o \in Seq(Req), NEW A, NEW q \in Seq(Bus), NEW D \in Seq(Hdr),
           \E fl \in Seq(Req), h \in Seq(Bus) :
              Those(fl, o, For(s)) /\ Those(h, q, From(m)) /\ Flight(fl, A, h, D, s),
           o # <<>>, Hit(s, o[1].addr), A = <<>>, \A i \in 1 .. Len(q) : q[i].from # m
    PROVE  D # <<>>
<1>1. PICK fl \in Seq(Req), h \in Seq(Bus) :
         Those(fl, o, For(s)) /\ Those(h, q, From(m)) /\ Flight(fl, A, h, D, s)
  OBVIOUS
<1>2. o[1] \in For(s)
  BY DEF For
<1>3. fl # <<>>
  BY <1>1, <1>2, ThoseTailIn
<1>4. Len(fl) \in Nat \ {0} /\ Len(<<>>) = 0 /\ Len(h) \in Nat
  BY <1>3
<1>5. Len(fl) = Len(A) + Len(h) + Len(D)
  BY <1>1 DEF Flight
<1>6. Len(h) = 0
  <2> SUFFICES ASSUME Len(h) # 0 PROVE FALSE
    OBVIOUS
  <2>1. PICK f : Picks(f, h, q, From(m))
    BY <1>1 DEF Those
  <2>2. 1 \in 1 .. Len(h)
    BY <1>4
  <2>3. f[1] \in 1 .. Len(q) /\ h[1] = q[f[1]]
    BY <2>1, <2>2 DEF Picks
  <2>4. h[1] \in From(m)
    BY <1>1, <2>2, ThoseLen
  <2> QED
    BY <2>3, <2>4 DEF From
<1> QED
  BY <1>4, <1>5, <1>6

(* Nothing of a master that is owed nothing is on its way.                 *)
LEMMA NothingWaits ==
    ASSUME Always, Sound, NEW m \in Master, owed[m] = <<>>
    PROVE  (\A s \in Slave : headers[m][s] = <<>>) /\ (req[m] # None => Accepted(m))
<1>1. ASSUME NEW s \in Slave PROVE headers[m][s] = <<>>
  <2>1. PICK fl \in Seq(Req), H \in Seq(Bus) : /\ Those(fl, owed[m], For(s)) /\ Those(H, held[s], From(m))
                                               /\ Flight(fl, answers[s][m], H, headers[m][s], s)
    BY Parts DEF InFlight
  <2>2. Len(fl) <= Len(owed[m]) /\ Len(owed[m]) = 0
    BY <2>1, Parts, ThoseLen
  <2>3. Len(answers[s][m]) \in Nat /\ Len(headers[m][s]) \in Nat /\ Len(fl) \in Nat
    BY <2>1, Parts
  <2>4. Len(H) \in Nat
    OBVIOUS
  <2>5. Len(fl) = Len(answers[s][m]) + Len(H) + Len(headers[m][s])
    BY <2>1 DEF Flight
  <2>6. Len(headers[m][s]) = 0
    <3> DEFINE f == Len(fl)
               a == Len(answers[s][m])
               h == Len(H)
               d == Len(headers[m][s])
    <3>1. f <= 0 /\ f \in Nat /\ a \in Nat /\ h \in Nat /\ d \in Nat /\ f = a + h + d
      BY <2>2, <2>3, <2>4, <2>5
    <3> HIDE DEF f, a, h, d
    <3>2. d = 0
      BY ONLY <3>1
    <3> QED
      BY <3>2 DEF d
  <2> QED
    BY <2>6, Parts, EmptySeq
<1>2. m_dir_fst[m] = 0
  <2>1. DirOwed(m) /\ Len(owed[m]) = 0
    BY Parts DEF Slave
  <2> QED
    BY <2>1 DEF DirOwed
<1>3. ~ m_wb_stall_i(m)
  <2>1. \A s \in Slave : Len(headers[m][s]) = 0
    BY <1>1
  <2> QED
    BY <1>2, <2>1, Sizes DEF m_wb_stall_i
<1> QED
  BY <1>1, <1>3 DEF Accepted

(* A master that waits without an answer waits for a slave.                *)
LEMMA WaitsForSlave ==
    ASSUME Always, Sound, NEW m \in Master, owed[m] # <<>>, ~ Answered(m)
    PROVE  \E s \in Slave : Hit(s, owed[m][1].addr) /\ answers[s][m] = <<>>
<1>1. /\ m_error(m) <=> \A s \in Slave : ~ Hit(s, owed[m][1].addr)
      /\ m_arb(m) = IF Hit(1, owed[m][1].addr) THEN 1 ELSE 0
  BY Pointed
<1>2. ~ m_error(m) /\ Waiting(m) = <<>>
  BY DEF Answered, m_wb_ack_i, m_wb_err_i
<1>3. m_arb(m) \in Slave /\ Waiting(m) = answers[m_arb(m)][m]
  BY DEF m_arb, Slave, Waiting
<1>4. Hit(m_arb(m), owed[m][1].addr)
  BY <1>1, <1>2 DEF Slave
<1> QED
  BY <1>2, <1>3, <1>4

(* A slave that only one master has headers for serves it: a request of    *)
(* the other that is accepted then finds room for at least one more.       *)
LEMMA RoomLeft ==
    ASSUME Always, Next, NEW s \in Slave, NEW m \in Master, NEW o \in Master, o # m, headers[m][s] = <<>>
    PROVE  Len(headers'[o][s]) <= Depth - 1
<1> DEFINE q    == headers[o][s]
           rest == IF hrden(o, s) THEN Tail(q) ELSE q
           h    == [addr |-> req[o].addr, we |-> req[o].we, tag |-> time_tag]
           q2   == headers'[o][s]
           wr   == hwren(o, s)
           rd   == hrden(o, s)
<1>1. q2 = (IF wr THEN Append(rest, h) ELSE rest) /\ rest \in Seq(Hdr) /\ (wr => h \in Hdr)
  BY HeadersAfter
<1>2. q \in Seq(Hdr) /\ Len(q) <= Depth
  BY Fronts DEF HeadersFit
<1>3. wr => Len(q) # Depth
  BY DEF hwren, Accepted, m_wb_stall_i
<1>4. q # <<>> => rd
  BY DEF hrden, s_wb_stb, m1_dir, hempty, Master
<1>5. Len(rest) = IF q = <<>> THEN 0 ELSE Len(q) - 1
  <2>1. CASE q = <<>>
    <3>1. ~ rd
      BY <2>1, Popped
    <3> QED
      BY <2>1, <3>1
  <2>2. CASE q # <<>>
    BY <1>2, <1>4, <2>2
  <2> QED
    BY <2>1, <2>2
<1>6. Len(q) \in Nat /\ (q = <<>> <=> Len(q) = 0)
  BY <1>2
<1> HIDE DEF q, rest, h, q2, wr, rd
<1>7. Len(q2) = IF wr THEN Len(rest) + 1 ELSE Len(rest)
  BY <1>1, AppendProperties
<1>8. Len(q2) <= Depth - 1
  BY <1>2, <1>3, <1>5, <1>6, <1>7, Sizes
<1> QED
  BY <1>8 DEF q2

(* What a slave keeps is a cycle older, and no answer has been written.    *)
LEMMA StaysInSlave ==
    ASSUME Always, Sound, NEW replies, Steady(replies), NEW s \in Slave, NEW m \in Master,
           ~ fifo_wren(s, m, replies)
    PROVE  /\ \A i \in 1 .. Len(held[s]) : held[s][i].from = m =>
                 \E k \in 1 .. Len(held'[s]) : held'[s][k].from = m /\ age'[s][k] = age[s][i] + 1
           /\ hrden(m, s) => \E k \in 1 .. Len(held'[s]) : held'[s][k].from = m
           /\ ~ hrden(m, s) /\ (\A i \in 1 .. Len(held[s]) : held[s][i].from # m) =>
                 \A k \in 1 .. Len(held'[s]) : held'[s][k].from # m
<1> DEFINE n  == Len(held[s])
           n2 == Len(held'[s])
           a  == Takes(s)
           o  == Gives(s, replies)
           in == InSlave(s, {})
<1>1. /\ o <= n + a /\ n2 = n + a - o
      /\ \A k \in 1 .. n + a - o : held'[s][k] = IF k + o <= n THEN held[s][k + o] ELSE Offered(s)
      /\ \A k \in 1 .. n + a - o : age'[s][k] = (IF k + o <= n THEN age[s][k + o] ELSE 0) + 1
  BY HeldAfter
<1>2. n \in Nat /\ a \in {0, 1} /\ o \in {0, 1}
  BY Parts DEF Takes, Gives
<1>3. in \in Seq(Bus) /\ \A i \in 1 .. n + a : in[i] = IF i <= n THEN held[s][i] ELSE Offered(s)
  BY WithOffered
<1>4. o = 1 => in[1].from # m
  BY AnswerFor DEF Gives
<1>5. a = 1 <=> s_wb_stb(s)
  BY DEF Takes
<1>6. hrden(m, s) => a = 1 /\ Offered(s).from = m
  BY <1>5, SomeHeader, OfferedIs
<1>7. a = 1 /\ ~ hrden(m, s) => Offered(s).from # m
  <2> SUFFICES ASSUME a = 1, ~ hrden(m, s) PROVE Offered(s).from # m
    OBVIOUS
  <2>1. PICK x \in Master : hrden(x, s)
    BY <1>5, SomeHeader
  <2> QED
    BY <2>1, OfferedIs
<1> HIDE DEF n, n2, a, o, in
<1>8. ASSUME NEW i \in 1 .. n, held[s][i].from = m
      PROVE  \E k \in 1 .. n2 : held'[s][k].from = m /\ age'[s][k] = age[s][i] + 1
  <2> DEFINE k == i - o
  <2>1. ~ (o = 1 /\ i = 1)
    <3>1. 1 \in 1 .. n + a /\ 1 <= n
      BY ONLY <1>2, i \in 1 .. n
    <3>2. in[1] = held[s][1]
      BY ONLY <1>3, <3>1
    <3> QED
      BY ONLY <1>4, <1>8, <3>2
  <2>2. k \in 1 .. n + a - o /\ k + o = i /\ i <= n
    BY ONLY <1>1, <1>2, <2>1, i \in 1 .. n
  <2>3. held'[s][k] = held[s][i] /\ age'[s][k] = age[s][i] + 1
    BY ONLY <1>1, <2>2
  <2>4. k \in 1 .. n2
    BY ONLY <1>1, <2>2
  <2> QED
    BY ONLY <1>8, <2>3, <2>4
<1>9. ASSUME hrden(m, s) PROVE \E k \in 1 .. n2 : held'[s][k].from = m
  <2> DEFINE k == n + 1 - o
  <2>1. a = 1 /\ Offered(s).from = m
    BY <1>6, <1>9
  <2>2. ~ (o = 1 /\ n = 0)
    <3> SUFFICES ASSUME o = 1, n = 0 PROVE FALSE
      OBVIOUS
    <3>1. 1 \in 1 .. n + a /\ ~ (1 <= n)
      BY ONLY <2>1, n = 0
    <3>2. in[1] = Offered(s)
      BY ONLY <1>3, <3>1
    <3> QED
      BY ONLY <1>4, <2>1, <3>2, o = 1
  <2>3. k \in 1 .. n + a - o /\ ~ (k + o <= n)
    BY ONLY <1>2, <2>1, <2>2
  <2>4. held'[s][k] = Offered(s) /\ k \in 1 .. n2
    BY ONLY <1>1, <2>3
  <2> QED
    BY ONLY <2>1, <2>4
<1>10. ASSUME ~ hrden(m, s), \A i \in 1 .. n : held[s][i].from # m, NEW k \in 1 .. n2 PROVE held'[s][k].from # m
  <2>1. k \in 1 .. n + a - o
    BY ONLY <1>1, k \in 1 .. n2
  <2>2. CASE k + o <= n
    <3>1. k + o \in 1 .. n
      BY ONLY <1>2, <2>1, <2>2
    <3>2. held'[s][k] = held[s][k + o]
      BY ONLY <1>1, <2>1, <2>2
    <3> QED
      BY ONLY <1>10, <3>1, <3>2
  <2>3. CASE ~ (k + o <= n)
    <3>1. a = 1
      BY ONLY <1>2, <2>1, <2>3
    <3>2. held'[s][k] = Offered(s)
      BY ONLY <1>1, <2>1, <2>3
    <3> QED
      BY ONLY <1>7, <1>10, <3>1, <3>2
  <2> QED
    BY ONLY <2>2, <2>3
<1> QED
  BY <1>8, <1>9, <1>10 DEF n, n2

(* So at every clock edge what a master waits for is within its time.      *)
LEMMA TimelyAfter ==
    ASSUME OInv, Sound, NEW replies, Steady(replies), Next, astray' = 0, OInv', Sound',
           NEW m \in Master, Timely(m)
    PROVE  Timely(m)'
<1> DEFINE w  == waited[m]
           w2 == waited'[m]
           o  == 1 - m
<1>1. OInv /\ Always /\ Always' /\ Timely(m)
  BY DEF OInv
<1>2. w2 = IF Answered(m) \/ (req[m] = None /\ owed[m] = <<>>) THEN 0 ELSE w + 1
  BY DEF Steady, Edge, History
<1>3. w \in Nat /\ w <= AnswerTime /\ (owed[m] = <<>> => w = 0) /\ \A s \in Slave : Due(m, s)
  BY <1>1 DEF Timely
<1>4. AnswerTime \in Nat /\ AnswerTime >= 3
  <2>1. AnswerTime = Depth + 1 + LongestDelay /\ Depth \in Nat \ {0, 1} /\ LongestDelay \in Nat /\ AnswerTime \in Nat
    BY Delays, Sizes
  <2> QED
    BY ONLY <2>1
<1>5. owed[m] = <<>> => (\A s \in Slave : headers[m][s] = <<>>) /\ (req[m] # None => Accepted(m))
  BY <1>1, NothingWaits
<1>6. o \in Master /\ o # m /\ owed'[m] \in Seq(Req) /\ owed[m] \in Seq(Req)
  <2>1. owed'[m] \in Seq(Req)
    BY <1>1, OwedAfter
  <2>2. owed[m] \in Seq(Req)
    BY <1>1, Parts DEF Slave
  <2> QED
    BY <2>1, <2>2 DEF Master
<1>7. ~ Answered(m) =>
        /\ owed[m] # <<>> => owed'[m] # <<>> /\ owed'[m][1] = owed[m][1]
        /\ owed'[m] = <<>> => owed[m] = <<>> /\ ~ Accepted(m)
  <2> SUFFICES ASSUME ~ Answered(m)
               PROVE  /\ owed[m] # <<>> => owed'[m] # <<>> /\ owed'[m][1] = owed[m][1]
                      /\ owed'[m] = <<>> => owed[m] = <<>> /\ ~ Accepted(m)
    OBVIOUS
  <2> DEFINE n == Len(owed[m])
             a == In(m)
  <2>1. /\ Len(owed'[m]) = n + a /\ n \in Nat /\ a \in {0, 1} /\ (a = 1 <=> Accepted(m))
        /\ \A k \in 1 .. n : k \in 1 .. Len(owed'[m]) => owed'[m][k] = owed[m][k]
    <3>1. Out(m) = 0 /\ a \in {0, 1} /\ (a = 1 <=> Accepted(m))
      BY DEF Out, In
    <3>2. /\ Len(owed'[m]) = n - 0 + a
          /\ \A k \in 1 .. Len(owed'[m]) : owed'[m][k] = IF k <= n - 0 THEN owed[m][k + 0] ELSE req[m]
      BY <1>1, <3>1, OwedAfter
    <3>3. n \in Nat
      BY <1>6
    <3> HIDE DEF n, a
    <3> QED
      BY <3>1, <3>2, <3>3
  <2>2. (owed[m] = <<>> <=> n = 0) /\ (owed'[m] = <<>> <=> Len(owed'[m]) = 0)
    BY <1>6
  <2> HIDE DEF n, a
  <2> QED
    BY <2>1, <2>2
<1> HIDE DEF o
<1>8. owed'[m] = <<>> => w2 = 0
  BY <1>2, <1>5, <1>7
<1>9. ASSUME NEW s \in Slave, NEW n, Rounds(turns[s], m, n) PROVE n \in Nat \ {0}
  <2>1. PICK i : FirstOf(turns[s], m, i) /\ n = i + (IF turns[s][i] = {m} THEN 0 ELSE 1)
    BY <1>9 DEF Rounds
  <2>2. i \in 1 .. Len(turns[s]) /\ Len(turns[s]) \in Nat
    BY <1>1, <2>1 DEF FirstOf, OInv
  <2> QED
    BY <2>1, <2>2
<1>10. w2 \in Nat /\ w2 <= AnswerTime
  <2>1. CASE Answered(m) \/ (req[m] = None /\ owed[m] = <<>>)
    BY <1>2, <1>4, <2>1
  <2>2. CASE ~ Answered(m) /\ owed[m] = <<>>
    <3>1. w2 = 0 \/ w2 = 1
      BY <1>2, <1>3, <2>2
    <3> QED
      BY <1>4, <3>1
  <2>3. CASE ~ Answered(m) /\ owed[m] # <<>>
    <3>1. PICK s \in Slave : Hit(s, owed[m][1].addr) /\ answers[s][m] = <<>>
      BY <1>1, <2>3, WaitsForSlave
    <3> DEFINE d == Delay[s]
    <3>2. d \in Nat
      BY Delays
    <3>3. DueFromSlave(m, s) \/ DueToSlave(m, s)
      BY <1>3, <2>3, <3>1 DEF Due
    <3>4. CASE DueFromSlave(m, s)
      <4>1. PICK i \in 1 .. Len(held[s]) : w + d + 1 - age[s][i] <= AnswerTime
        BY <3>4 DEF DueFromSlave
      <4>2. age[s] \in Seq(Nat) /\ Len(age[s]) = Len(held[s]) /\ AgesIn(age[s], d) /\ Len(age[s]) \in Nat
        BY <1>1, Parts DEF HeldInOrder
      <4> DEFINE x == age[s][i]
      <4>3. x \in Nat /\ x + i <= d + 1 /\ i \in Nat \ {0}
        BY <4>2 DEF AgesIn
      <4> HIDE DEF w, w2, d, x
      <4>4. w + d + 1 - x <= AnswerTime
        BY <4>1 DEF x
      <4> QED
        BY <1>2, <1>3, <1>4, <2>3, <3>2, <4>3, <4>4
    <3>5. CASE DueToSlave(m, s)
      <4>1. PICK n \in Nat : Rounds(turns[s], m, n) /\ w + n + d <= AnswerTime
        BY <3>5 DEF DueToSlave
      <4>2. n \in Nat \ {0}
        BY <1>9, <4>1
      <4> HIDE DEF w, w2, d
      <4> QED
        BY <1>2, <1>3, <1>4, <2>3, <3>2, <4>1, <4>2
    <3> QED
      BY <3>3, <3>4, <3>5
  <2> QED
    BY <2>1, <2>2, <2>3
<1>11. ASSUME NEW s \in Slave PROVE Due(m, s)'
  <2> DEFINE q2 == held'[s]
             D2 == headers'[m][s]
             L2 == Len(headers'[o][s])
             t2 == turns'[s]
             d  == Delay[s]
             wr == fifo_wren(s, m, replies)
             here == \E i \in 1 .. Len(q2) : q2[i].from = m
  <2>1. SUFFICES ASSUME owed'[m] # <<>>, Hit(s, owed'[m][1].addr), answers'[s][m] = <<>>
                 PROVE  \/ \E i \in 1 .. Len(q2) : q2[i].from = m /\ w2 + d + 1 - age'[s][i] <= AnswerTime
                        \/ ~ here /\ \E n \in Nat : Rounds(t2, m, n) /\ w2 + n + d <= AnswerTime
    BY DEF Due, DueFromSlave, DueToSlave, AnswerTime, LongestDelay
  <2>2. ~ here => D2 # <<>>
    <3>1. /\ D2 \in Seq(Hdr) /\ q2 \in Seq(Bus)
          /\ \E fl \in Seq(Req), h \in Seq(Bus) : /\ Those(fl, owed'[m], For(s)) /\ Those(h, q2, From(m))
                                                  /\ Flight(fl, answers'[s][m], h, D2, s)
      BY <1>1 DEF Always, TypeA, Sound, TypeS, InFlight
    <3> HIDE DEF q2, D2
    <3> QED
      BY <1>6, <2>1, <3>1, StillWaits
  <2>3. ~ here => \E n \in Nat : n <= L2 + 1 /\ Rounds(t2, m, n)
    <3> SUFFICES ASSUME ~ here PROVE \E n \in Nat : n <= L2 + 1 /\ Rounds(t2, m, n)
      OBVIOUS
    <3> DEFINE q == [x \in Master |-> headers'[x][s]]
    <3>1. PICK f, g : Turns(f, g, t2, q, time_tag')
      BY DEF OInv, InTurn
    <3>2. t2 \in Seq(SUBSET Master) /\ q[m] \in Seq(Hdr) /\ q[o] \in Seq(Hdr)
      BY <1>1, <1>6 DEF OInv, Always, TypeA
    <3>3. q[m] = D2 /\ L2 = Len(q[o]) /\ q[m] # <<>>
      BY <1>6, <2>2
    <3> HIDE DEF q, t2, D2, L2
    <3>4. \E n \in Nat : n <= Len(q[o]) + 1 /\ Rounds(t2, m, n)
      BY <1>6, <3>1, <3>2, <3>3, RoundsOf
    <3> QED
      BY <3>3, <3>4
  <2>4. L2 \in Nat /\ L2 <= Depth
    <3>1. headers'[o][s] \in Seq(Hdr) /\ Len(headers'[o][s]) <= Depth
      BY <1>1, <1>6, HeadersAfter
    <3> QED
      BY <3>1
  <2>5. d \in Nat /\ d <= LongestDelay /\ AnswerTime = Depth + 1 + LongestDelay /\ LongestDelay \in Nat /\ Depth \in Nat \ {0, 1}
    BY Delays, Sizes
  <2>9. ASSUME NEW i \in 1 .. Len(q2) PROVE age'[s][i] \in Nat \ {0}
    <3>1. age'[s] \in Seq(Nat) /\ Len(age'[s]) = Len(q2)
      BY DEF Sound, TypeS, HeldInOrder
    <3>2. \A j \in 1 .. Len(age'[s]) : 1 <= age'[s][j]
      BY DEF Sound, HeldInOrder, AgesIn
    <3> QED
      BY <3>1, <3>2
  <2>10. ASSUME w2 <= 1, NEW i \in 1 .. Len(q2) PROVE w2 + d + 1 - age'[s][i] <= AnswerTime
    <3> DEFINE x == age'[s][i]
    <3>1. x \in Nat \ {0}
      BY <2>9
    <3> HIDE DEF w, w2, x, d
    <3>2. w2 + d + 1 - x <= AnswerTime
      BY <1>10, <2>5, <2>10, <3>1
    <3> QED
      BY <3>2 DEF x
  <2> HIDE DEF w, w2, d, t2, L2, q2
  <2>6. CASE Answered(m)
    <3>1. w2 = 0
      BY <1>2, <2>6
    <3>2. ASSUME ~ here PROVE \E n \in Nat : Rounds(t2, m, n) /\ w2 + n + d <= AnswerTime
      <4>1. PICK n \in Nat : n <= L2 + 1 /\ Rounds(t2, m, n)
        BY <2>3, <3>2
      <4>2. w2 + n + d <= AnswerTime
        BY <2>4, <2>5, <3>1, <4>1
      <4> QED
        BY <4>1, <4>2
    <3>3. w2 <= 1
      BY <3>1
    <3> QED
      BY <2>10, <3>2, <3>3
  <2>7. CASE ~ Answered(m) /\ owed[m] = <<>>
    <3>1. w2 = 0 \/ w2 = 1
      BY <1>2, <1>3, <2>7 DEF w
    <3>2. L2 <= Depth - 1
      BY <1>1, <1>5, <1>6, <2>7, RoomLeft DEF L2
    <3>3. ASSUME ~ here PROVE \E n \in Nat : Rounds(t2, m, n) /\ w2 + n + d <= AnswerTime
      <4>1. PICK n \in Nat : n <= L2 + 1 /\ Rounds(t2, m, n)
        BY <2>3, <3>3
      <4>2. w2 + n + d <= AnswerTime
        BY <2>4, <2>5, <3>1, <3>2, <4>1
      <4> QED
        BY <4>1, <4>2
    <3>4. w2 <= 1
      BY <3>1
    <3> QED
      BY <2>10, <3>3, <3>4
  <2>8. CASE ~ Answered(m) /\ owed[m] # <<>>
    <3>1. Hit(s, owed[m][1].addr) /\ w2 = w + 1
      BY <1>2, <1>7, <2>1, <2>8
    <3>2. ~ drden(s, m)
      BY <2>8, NothingTaken
    <3>3. answers'[s][m] = IF wr THEN Append(answers[s][m], Response(s, {}, replies)) ELSE answers[s][m]
      BY <3>2 DEF Steady, Edge, Fifos, Fifo
    <3>4. answers[s][m] = <<>> /\ ~ wr
      <4>1. answers[s][m] \in Seq(Ans)
        BY <1>1, Parts
      <4> DEFINE q == answers[s][m]
      <4>2. \A x : Append(q, x) # <<>>
        <5> SUFFICES ASSUME NEW x PROVE Append(q, x) # <<>>
          OBVIOUS
        <5> HIDE DEF q
        <5>1. q \in Seq(Ans \cup {x})
          BY ONLY <4>1 DEF q
        <5>2. Append(q, x) \in Seq(Ans \cup {x}) /\ Len(Append(q, x)) = Len(q) + 1 /\ Len(q) \in Nat
          BY ONLY <5>1, AppendProperties, x \in Ans \cup {x}
        <5> QED
          BY ONLY <5>2
      <4> HIDE DEF wr
      <4> QED
        BY <2>1, <3>3, <4>2
    <3>5. /\ \A i \in 1 .. Len(held[s]) : held[s][i].from = m =>
                \E k \in 1 .. Len(q2) : q2[k].from = m /\ age'[s][k] = age[s][i] + 1
          /\ hrden(m, s) => here
          /\ ~ hrden(m, s) /\ (\A i \in 1 .. Len(held[s]) : held[s][i].from # m) => ~ here
      BY <1>1, <3>4, StaysInSlave DEF q2
    <3>6. DueFromSlave(m, s) \/ DueToSlave(m, s)
      BY <1>3, <2>8, <3>1, <3>4 DEF Due
    <3>7. w \in Nat
      BY <1>3 DEF w
    <3>8. CASE DueFromSlave(m, s)
      <4>1. PICK i \in 1 .. Len(held[s]) : held[s][i].from = m /\ w + d + 1 - age[s][i] <= AnswerTime
        BY <3>8 DEF DueFromSlave, w, d
      <4>2. PICK k \in 1 .. Len(q2) : q2[k].from = m /\ age'[s][k] = age[s][i] + 1
        BY <3>5, <4>1
      <4> DEFINE x == age[s][i]
                 y == age'[s][k]
      <4>3. x \in Nat
        BY <1>1, Parts DEF HeldInOrder
      <4>4. y = x + 1 /\ w + d + 1 - x <= AnswerTime
        BY <4>1, <4>2
      <4> HIDE DEF x, y
      <4>5. w2 + d + 1 - y <= AnswerTime
        BY <1>4, <2>5, <3>1, <3>7, <4>3, <4>4
      <4> QED
        BY <4>2, <4>5 DEF y
    <3>9. CASE DueToSlave(m, s)
      <4>1. /\ \A i \in 1 .. Len(held[s]) : held[s][i].from # m
            /\ \E n \in Nat : Rounds(turns[s], m, n) /\ w + n + d <= AnswerTime
        BY <3>9 DEF DueToSlave, w, d
      <4>2. PICK n \in Nat : Rounds(turns[s], m, n) /\ w + n + d <= AnswerTime
        BY <4>1
      <4>3. n \in Nat \ {0}
        BY <1>9, <4>2
      <4>4. headers[m][s] # <<>>
        <5>1. /\ headers[m][s] \in Seq(Hdr) /\ held[s] \in Seq(Bus)
              /\ \E fl \in Seq(Req), h \in Seq(Bus) : /\ Those(fl, owed[m], For(s)) /\ Those(h, held[s], From(m))
                                                      /\ Flight(fl, answers[s][m], h, headers[m][s], s)
          BY <1>1, Parts DEF InFlight
        <5> QED
          BY <1>6, <2>8, <3>1, <3>4, <4>1, <5>1, StillWaits
      <4>5. CASE hrden(m, s)
        <5>1. PICK k \in 1 .. Len(q2) : q2[k].from = m
          BY <3>5, <4>5
        <5> DEFINE y == age'[s][k]
        <5>2. y \in Nat \ {0}
          BY <2>9
        <5> HIDE DEF y
        <5>3. w2 + d + 1 - y <= AnswerTime
          BY <1>4, <2>5, <3>1, <3>7, <4>2, <4>3, <5>2
        <5> QED
          BY <5>1, <5>3 DEF y
      <4>6. CASE ~ hrden(m, s)
        <5>1. ~ here
          BY <3>5, <4>1, <4>6
        <5>2. n > 1 /\ Rounds(t2, m, n - 1)
          BY <1>1, <4>2, <4>4, <4>6, RoundsAfter DEF t2
        <5>3. n - 1 \in Nat /\ w2 + (n - 1) + d <= AnswerTime
          BY <1>4, <2>5, <3>1, <3>7, <4>2, <4>3
        <5> QED
          BY <5>1, <5>2, <5>3
      <4> QED
        BY <4>5, <4>6
    <3> QED
      BY <3>6, <3>8, <3>9
  <2> QED
    BY <2>6, <2>7, <2>8
<1> QED
  BY <1>8, <1>10, <1>11 DEF Timely, AnswerTime, LongestDelay

(* A master that waits is answered in time, however busy the other is,     *)
(* until the crossbar goes astray.                                         *)
THEOREM InTime == Spec => []AnswersComeInTime
<1>1. Init => TInv
  <2> SUFFICES ASSUME Init PROVE TInv
    OBVIOUS
  <2>1. OInv /\ IInv
    BY InitOInv, InitIInv
  <2>2. \A m \in Master : waited[m] = 0 /\ owed[m] = <<>>
    BY DEF Init
  <2>3. 0 <= AnswerTime
    BY Delays
  <2> QED
    BY <2>1, <2>2, <2>3 DEF TInv, Timely, Due
<1>2. TInv /\ [Next]_vars => TInv'
  <2>1. ASSUME TInv, Next PROVE TInv'
    <3>1. OInv' /\ IInv'
      BY <2>1, StepOInv, StepIInv DEF TInv
    <3>2. ASSUME astray' = 0, NEW m \in Master PROVE Timely(m)'
      <4>1. Always /\ OInv
        BY <2>1 DEF TInv, OInv
      <4>2. astray = 0 /\ \E replies : Steady(replies)
        BY <2>1, <3>2, <4>1, SteadySteps
      <4>3. PICK replies : Steady(replies)
        BY <4>2
      <4>4. Sound /\ Timely(m)
        BY <2>1, <4>2 DEF TInv, IInv
      <4>5. Sound'
        BY <3>1, <3>2 DEF IInv
      <4> QED
        BY <2>1, <3>1, <3>2, <4>1, <4>3, <4>4, <4>5, TimelyAfter
    <3>3. ASSUME astray' # 0, NEW m \in Master PROVE waited'[m] = 0
      <4>1. astray' \in Nat
        BY <3>1 DEF OInv, Always, TypeA
      <4>2. astray' > 0
        BY <3>3, <4>1
      <4> QED
        BY <2>1, <4>2 DEF Next, Edge, History
    <3> QED
      BY <3>1, <3>2, <3>3 DEF TInv
  <2>2. ASSUME TInv, UNCHANGED vars PROVE TInv'
    <3>1. OInv' /\ IInv'
      BY <2>2, StepOInv, StepIInv DEF TInv
    <3>2. UNCHANGED <<waited, owed, held, age, turns, answers>>
      BY <2>2 DEF vars
    <3>3. UNCHANGED astray
      BY <2>2 DEF vars
    <3>4. ASSUME NEW m \in Master, Timely(m) PROVE Timely(m)'
      BY <3>2, <3>4 DEF Timely, Due, DueFromSlave, DueToSlave, AnswerTime, LongestDelay
    <3> QED
      BY <2>2, <3>1, <3>2, <3>3, <3>4 DEF TInv
  <2> QED
    BY <2>1, <2>2
<1>3. TInv => AnswersComeInTime
  <2>1. 0 <= AnswerTime
    BY Delays
  <2> QED
    BY <2>1 DEF TInv, Timely, AnswersComeInTime
<1> QED
  BY <1>1, <1>2, <1>3, PTL DEF Spec

=============================================================================

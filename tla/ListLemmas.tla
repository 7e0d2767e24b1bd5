----------------------------- MODULE ListLemmas -----------------------------
(***************************************************************************)
(* Facts about sequences used as the kernel's linked lists: which elements *)
(* a list holds, and that it holds none twice, after an element is pushed  *)
(* at the back, popped from the front or removed from the middle.          *)
(***************************************************************************)
EXTENDS Lists, TLAPS

(* list_init: an empty list holds nothing. *)
LEMMA EmptyList == Range(<<>>) = {} /\ IsInjective(<<>>)
  BY DEF Range, IsInjective

(* A list of one element. *)
LEMMA OneElement ==
  ASSUME NEW S, NEW e \in S
  PROVE  <<e>> \in Seq(S) /\ Range(<<e>>) = {e} /\ IsInjective(<<e>>)
<1>1. <<e>> \in Seq(S) /\ DOMAIN <<e>> = {1} /\ <<e>>[1] = e
  OBVIOUS
<1>2. QED
  BY <1>1 DEF Range, IsInjective

(* A list is empty exactly when it has no element. *)
LEMMA EmptyIffNoElement ==
  ASSUME NEW S, NEW s \in Seq(S)
  PROVE  /\ s = <<>> <=> Range(s) = {}
         /\ Range(s) \subseteq S
  BY DEF Range

(* list_push_back adds its element and no other. *)
LEMMA PushBack ==
  ASSUME NEW S, NEW s \in Seq(S), NEW e \in S
  PROVE  /\ Append(s, e) \in Seq(S)
         /\ Range(Append(s, e)) = Range(s) \cup {e}
         /\ IsInjective(s) /\ e \notin Range(s) => IsInjective(Append(s, e))
<1> DEFINE a == Append(s, e)
<1>1. a \in Seq(S) /\ Len(a) = Len(s) + 1 /\ DOMAIN a = 1..Len(s)+1
  OBVIOUS
<1>2. \A i \in 1..Len(s) : a[i] = s[i]
  OBVIOUS
<1>3. a[Len(s)+1] = e
  OBVIOUS
<1>4. DOMAIN s = 1..Len(s) /\ Len(s) \in Nat
  OBVIOUS
<1> HIDE DEF a
<1>5. \A x : x \in Range(a) <=> x \in Range(s) \/ x = e
  <2>1. ASSUME NEW x \in Range(a) PROVE x \in Range(s) \/ x = e
    <3>1. PICK i \in 1..Len(s)+1 : x = a[i]
      BY <1>1 DEF Range
    <3>2. CASE i = Len(s)+1
      BY <3>1, <3>2, <1>3
    <3>3. CASE i \in 1..Len(s)
      BY <3>1, <3>3, <1>2, <1>4 DEF Range
    <3>4. QED
      BY <3>2, <3>3, <1>4
  <2>2. ASSUME NEW x \in Range(s) PROVE x \in Range(a)
    <3>1. PICK i \in 1..Len(s) : x = s[i]
      BY <1>4 DEF Range
    <3>2. i \in 1..Len(s)+1 /\ x = a[i]
      BY <3>1, <1>2, <1>4
    <3>3. QED
      BY <3>2, <1>1 DEF Range
  <2>3. e \in Range(a)
    <3>1. Len(s)+1 \in 1..Len(s)+1
      BY <1>4
    <3>2. QED
      BY <3>1, <1>1, <1>3 DEF Range
  <2>4. QED
    BY <2>1, <2>2, <2>3
<1>6. IsInjective(s) /\ e \notin Range(s) => IsInjective(a)
  BY <1>1, <1>2, <1>3, <1>4 DEF Range, IsInjective
<1>7. QED
  BY <1>1, <1>5, <1>6 DEF a

(* list_pop_front takes the first element away and no other. *)
LEMMA PopFront ==
  ASSUME NEW S, NEW s \in Seq(S), s # <<>>
  PROVE  /\ Head(s) \in S
         /\ Head(s) \in Range(s)
         /\ Tail(s) \in Seq(S)
         /\ IsInjective(s) => /\ IsInjective(Tail(s))
                              /\ Range(Tail(s)) = Range(s) \ {Head(s)}
<1> DEFINE t == Tail(s)
           h == Head(s)
<1>1. Len(s) \in Nat \ {0} /\ DOMAIN s = 1..Len(s) /\ h = s[1] /\ h \in S
  OBVIOUS
<1>2. t \in Seq(S) /\ Len(t) = Len(s) - 1 /\ DOMAIN t = 1..Len(s)-1
  OBVIOUS
<1>3. \A i \in 1..Len(s)-1 : t[i] = s[i+1]
  OBVIOUS
<1> HIDE DEF t, h
<1>4. h \in Range(s)
  <2>1. 1 \in 1..Len(s)
    BY <1>1
  <2>2. QED
    BY <2>1, <1>1 DEF Range
<1>5. ASSUME IsInjective(s) PROVE IsInjective(t) /\ Range(t) = Range(s) \ {h}
  <2>1. ASSUME NEW i \in 1..Len(s)-1, NEW j \in 1..Len(s)-1, t[i] = t[j]
        PROVE  i = j
    <3>1. i+1 \in 1..Len(s) /\ j+1 \in 1..Len(s) /\ s[i+1] = s[j+1]
      BY <1>1, <1>3, <2>1
    <3>2. i+1 = j+1
      BY <3>1, <1>1, <1>5 DEF IsInjective
    <3>3. QED
      BY <3>2, <1>1
  <2>2. ASSUME NEW x \in Range(t) PROVE x \in Range(s) /\ x # h
    <3>1. PICK i \in 1..Len(s)-1 : x = s[i+1]
      BY <1>2, <1>3 DEF Range
    <3>2. i+1 \in 1..Len(s) /\ 1 \in 1..Len(s) /\ i+1 # 1
      BY <1>1
    <3>3. QED
      BY <3>1, <3>2, <1>1, <1>5 DEF Range, IsInjective
  <2>3. ASSUME NEW x \in Range(s), x # h PROVE x \in Range(t)
    <3>1. PICK i \in 1..Len(s) : x = s[i]
      BY <1>1 DEF Range
    <3>2. i # 1 /\ i-1 \in 1..Len(s)-1 /\ (i-1)+1 = i
      BY <3>1, <1>1, <2>3
    <3>3. x = t[i-1]
      BY <3>1, <3>2, <1>3
    <3>4. QED
      BY <3>2, <3>3, <1>2 DEF Range
  <2>4. QED
    BY <2>1, <2>2, <2>3, <1>2 DEF IsInjective
<1>6. QED
  BY <1>1, <1>2, <1>4, <1>5 DEF t, h

(* The elements of two lists joined. *)
LEMMA JoinedElements ==
  ASSUME NEW S, NEW a \in Seq(S), NEW b \in Seq(S), NEW i \in 1..Len(a)+Len(b)
  PROVE  (a \o b)[i] = IF i <= Len(a) THEN a[i] ELSE b[i - Len(a)]
  OBVIOUS

(* list_remove moves the elements behind the removed one up by one place.  *)
LEMMA RemovedElements ==
  ASSUME NEW S, NEW s \in Seq(S), NEW k \in DOMAIN s
  PROVE  \A i \in 1..Len(s)-1 : ListRemove(s, k)[i] = s[IF i < k THEN i ELSE i + 1]
<1> DEFINE r == ListRemove(s, k)
           up(i) == IF i < k THEN i ELSE i + 1
<1>1. Len(s) \in Nat /\ DOMAIN s = 1..Len(s) /\ k \in 1..Len(s)
  OBVIOUS
<1>2. \A i \in 1..Len(s)-1 : r[i] = s[up(i)]
  <2> DEFINE a == SubSeq(s, 1, k-1)
             b == SubSeq(s, k+1, Len(s))
  <2>1. a \in Seq(S) /\ Len(a) = k-1 /\ \A i \in 1..k-1 : a[i] = s[i]
    BY <1>1
  <2>2. b \in Seq(S) /\ Len(b) = Len(s)-k /\ \A i \in 1..Len(s)-k : b[i] = s[k+i]
    BY <1>1
  <2>3. r = a \o b
    BY DEF ListRemove
  <2> HIDE DEF a, b, r
  <2>4. ASSUME NEW i \in 1..Len(s)-1 PROVE r[i] = s[up(i)]
    <3>0. i \in 1..Len(a)+Len(b) /\ r[i] = IF i <= Len(a) THEN a[i] ELSE b[i - Len(a)]
      <4>1. i \in 1..Len(a)+Len(b)
        BY <2>1, <2>2, <1>1
      <4>2. QED
        BY <4>1, <2>1, <2>2, <2>3, JoinedElements
    <3>1. CASE i < k
      BY <3>0, <3>1, <2>1, <1>1
    <3>2. CASE i >= k
      <4>1. r[i] = b[i-(k-1)]
        BY <3>0, <3>2, <2>1, <1>1
      <4>2. i-(k-1) \in 1..Len(s)-k /\ k+(i-(k-1)) = i+1
        BY <3>2, <1>1
      <4>3. b[i-(k-1)] = s[i+1]
        BY <4>2, <2>2
      <4>4. QED
        BY <4>1, <4>3, <3>2, <1>1
    <3>3. QED
      BY <3>1, <3>2, <1>1
  <2>5. QED
    BY <2>4
<1>3. QED
  BY <1>2

(* list_remove takes one element away and no other. *)
LEMMA RemoveFromList ==
  ASSUME NEW S, NEW s \in Seq(S), NEW k \in DOMAIN s, IsInjective(s)
  PROVE  /\ s[k] \in S
         /\ s[k] \in Range(s)
         /\ ListRemove(s, k) \in Seq(S) /\ Len(ListRemove(s, k)) = Len(s) - 1
         /\ IsInjective(ListRemove(s, k))
         /\ Range(ListRemove(s, k)) = Range(s) \ {s[k]}
<1> DEFINE r == ListRemove(s, k)
           up(i) == IF i < k THEN i ELSE i + 1
<1>1. Len(s) \in Nat /\ DOMAIN s = 1..Len(s) /\ k \in 1..Len(s) /\ s[k] \in S
  OBVIOUS
<1>2. r \in Seq(S) /\ Len(r) = Len(s) - 1
  BY <1>1 DEF ListRemove
<1>3. DOMAIN r = 1..Len(s)-1
  BY <1>2
<1>4. \A i \in 1..Len(s)-1 : r[i] = s[up(i)]
  BY RemovedElements
<1> HIDE DEF r
<1>5. \A i \in 1..Len(s)-1 : up(i) \in 1..Len(s) /\ up(i) # k
  BY <1>1
<1>6. \A i, j \in 1..Len(s)-1 : up(i) = up(j) => i = j
  BY <1>1
<1>7. \A i \in 1..Len(s) : i # k => \E j \in 1..Len(s)-1 : i = up(j)
  <2>1. ASSUME NEW i \in 1..Len(s), i # k
        PROVE  \E j \in 1..Len(s)-1 : i = up(j)
    <3>1. CASE i < k
      BY <3>1, <1>1
    <3>2. CASE i > k
      <4>1. i-1 \in 1..Len(s)-1 /\ i = up(i-1)
        BY <3>2, <1>1
      <4>2. QED
        BY <4>1
    <3>3. QED
      BY <3>1, <3>2, <2>1, <1>1
  <2>2. QED
    BY <2>1
<1> HIDE DEF up
<1>8. IsInjective(r)
  BY <1>1, <1>3, <1>4, <1>5, <1>6 DEF IsInjective
<1>9. ASSUME NEW x \in Range(r) PROVE x \in Range(s) /\ x # s[k]
  <2>1. PICK i \in 1..Len(s)-1 : x = s[up(i)]
    BY <1>3, <1>4 DEF Range
  <2>2. QED
    BY <2>1, <1>1, <1>5 DEF Range, IsInjective
<1>10. ASSUME NEW x \in Range(s), x # s[k] PROVE x \in Range(r)
  <2>1. PICK i \in 1..Len(s) : x = s[i]
    BY <1>1 DEF Range
  <2>2. PICK j \in 1..Len(s)-1 : i = up(j)
    BY <2>1, <1>7, <1>10
  <2>3. QED
    BY <2>1, <2>2, <1>3, <1>4 DEF Range
<1>11. s[k] \in Range(s)
  BY <1>1 DEF Range
<1>12. Range(r) = Range(s) \ {s[k]}
  BY <1>9, <1>10
<1>13. QED
  BY <1>1, <1>2, <1>8, <1>11, <1>12 DEF r
=============================================================================

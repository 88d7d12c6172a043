----------------------------- MODULE GridProofs -----------------------------
(***************************************************************************)
(* Proofs about Grid: copies, exports and pastes are whole, the selection  *)
(* stays on its rows, and the delete command takes the rows selected, for  *)
(* every size of result, page and buffer.                                  *)
(***************************************************************************)
EXTENDS Grid, MCEditability, FiniteSetTheorems, WellFoundedInduction, TLAPS

----------------------------------------------------------------------------
(* Lists. *)

(* Every set of numbers that is not empty has a least one. *)
LEMMA LeastNumber ==
    ASSUME NEW T \in SUBSET Nat, T # {}
    PROVE  \E n \in T : \A m \in T : n <= m
  <1> DEFINE R == {ss \in Nat \X Nat : ss[1] < ss[2]}
  <1>1. IsWellFoundedOn(R, Nat)
    BY NatLessThanWellFounded, SMT DEF OpToRel
  <1>2. PICK n \in T : \A m \in T : ~(<<m, n>> \in R)
    <2> HIDE DEF R
    <2>1. T \subseteq Nat
      OBVIOUS
    <2> QED  BY <1>1, <2>1, WFMin, Zenon
  <1>3. \A m \in T : ~(m < n)
    BY <1>2
  <1> QED  BY <1>3

(* Induction up to a bound, on a set. *)
LEMMA UpTo ==
    ASSUME NEW L \in Nat, NEW S, 0 \in S, \A m \in 1 .. L : m - 1 \in S => m \in S
    PROVE  \A m \in 0 .. L : m \in S
  <1> DEFINE T == {m \in 0 .. L : m \notin S}
  <1> SUFFICES ASSUME T # {} PROVE FALSE
    OBVIOUS
  <1>1. PICK m \in T : \A k \in T : m <= k
    <2>1. T \in SUBSET Nat
      OBVIOUS
    <2> HIDE DEF T
    <2> QED  BY <2>1, LeastNumber
  <1>2. m \in 0 .. L /\ m \notin S /\ m # 0
    BY <1>1
  <1>3. m \in 1 .. L /\ m - 1 \in 0 .. L /\ m - 1 \notin T
    BY <1>1, <1>2
  <1> QED  BY <1>2, <1>3

(* What a filter keeps of the first n elements, for every n. *)
Keeps(f, R, s, S) ==
    /\ f \in [0 .. Len(s) -> Seq(R)] /\ f[0] = <<>>
    /\ \A n \in 1 .. Len(s) : f[n] = IF s[n] \in S THEN Append(f[n - 1], s[n]) ELSE f[n - 1]

(* Every list can be filtered ... *)
LEMMA KeepsExists ==
    ASSUME NEW R, NEW s \in Seq(R), NEW S
    PROVE  \E f : Keeps(f, R, s, S)
  <1> DEFINE L == Len(s)
             Next1(q, n) == IF s[n] \in S THEN Append(q, s[n]) ELSE q
             Upto(m, f) == /\ f \in [0 .. m -> Seq(R)] /\ f[0] = <<>>
                           /\ \A n \in 1 .. m : f[n] = Next1(f[n - 1], n)
             T == {m \in 0 .. L : \E f : Upto(m, f)}
  <1>0. L \in Nat /\ \A q \in Seq(R), n \in 1 .. L : Next1(q, n) \in Seq(R)
    OBVIOUS
  <1>e. <<>> \in Seq(R)
    OBVIOUS
  <1> HIDE DEF L, Next1
  <1>1. 0 \in T
    <2> DEFINE f == [n \in {0} |-> <<>>]
    <2>1. f \in [0 .. 0 -> Seq(R)] /\ f[0] = <<>> /\ 1 .. 0 = {}
      BY <1>e
    <2>2. Upto(0, f)
      BY <2>1
    <2> HIDE DEF Upto
    <2> QED  BY <1>0, <2>2
  <1>2. ASSUME NEW m \in 1 .. L, m - 1 \in T PROVE m \in T
    <2>0. m \in Nat /\ m - 1 \in Nat /\ m \in 0 .. L
      BY <1>0
    <2>1. PICK f : Upto(m - 1, f)
      BY <1>2
    <2> DEFINE g == [n \in 0 .. m |-> IF n = m THEN Next1(f[m - 1], m) ELSE f[n]]
    <2>2. f \in [0 .. m - 1 -> Seq(R)] /\ f[0] = <<>> /\ (\A n \in 1 .. m - 1 : f[n] = Next1(f[n - 1], n))
      BY <2>1
    <2>3. Next1(f[m - 1], m) \in Seq(R)
      <3>1. f[m - 1] \in Seq(R)
        BY <2>0, <2>2
      <3> QED  BY <1>0, <3>1
    <2>4. ASSUME NEW n \in 0 .. m PROVE g[n] \in Seq(R)
      <3>1. CASE n = m
        BY <3>1, <2>3
      <3>2. CASE n # m
        <4>1. n \in 0 .. m - 1
          BY <2>0, <3>2
        <4> QED  BY <4>1, <2>2, <3>2
      <3> QED  BY <3>1, <3>2
    <2>5. g \in [0 .. m -> Seq(R)]
      BY <2>4
    <2>6. g[0] = <<>>
      BY <2>0, <2>2
    <2>7. ASSUME NEW n \in 1 .. m PROVE g[n] = Next1(g[n - 1], n)
      <3>1. n - 1 \in 0 .. m /\ n - 1 # m /\ g[n - 1] = f[n - 1]
        BY <2>0
      <3>2. CASE n = m
        BY <3>1, <3>2
      <3>3. CASE n # m
        <4>1. n \in 1 .. m - 1 /\ g[n] = f[n]
          BY <2>0, <3>3
        <4> QED  BY <4>1, <2>2, <3>1
      <3> QED  BY <3>2, <3>3
    <2>8. Upto(m, g)
      BY <2>5, <2>6, <2>7
    <2> HIDE DEF Upto, g
    <2> QED  BY <2>0, <2>8
  <1>3. L \in T
    <2> HIDE DEF T
    <2>1. \A m \in 0 .. L : m \in T
      BY <1>0, <1>1, <1>2, UpTo
    <2> QED  BY <1>0, <2>1
  <1> QED  BY <1>3 DEF Keeps, Next1, L

(* ... and Only is the last of what it keeps. *)
LEMMA OnlyKeeps ==
    ASSUME NEW R, NEW s \in Seq(R), NEW S
    PROVE  \E f : Keeps(f, R, s, S) /\ Only(s, S) = f[Len(s)]
  <1> DEFINE body(f) == [n \in 0 .. Len(s) |->
                            IF n = 0 THEN <<>>
                            ELSE IF s[n] \in S THEN Append(f[n - 1], s[n]) ELSE f[n - 1]]
             kept == CHOOSE f : f = body(f)
  <1>1. Only(s, S) = kept[Len(s)]
    BY DEF Only
  <1>2. PICK f : Keeps(f, R, s, S)
    BY KeepsExists
  <1>3. f = body(f)
    <2> DEFINE b(n) == IF n = 0 THEN <<>>
                       ELSE IF s[n] \in S THEN Append(f[n - 1], s[n]) ELSE f[n - 1]
    <2>1. f = [n \in 0 .. Len(s) |-> f[n]]
      BY <1>2 DEF Keeps
    <2>2. ASSUME NEW n \in 0 .. Len(s) PROVE f[n] = b(n)
      <3>1. CASE n = 0
        BY <1>2, <3>1 DEF Keeps
      <3>2. CASE n # 0
        <4>1. n \in 1 .. Len(s)
          BY <3>2
        <4> QED  BY <1>2, <3>2, <4>1 DEF Keeps
      <3> QED  BY <3>1, <3>2
    <2>3. [n \in 0 .. Len(s) |-> f[n]] = [n \in 0 .. Len(s) |-> b(n)]
      <3> HIDE DEF b
      <3> QED  BY <2>2
    <2> QED  BY <2>1, <2>3
  <1>4. kept = body(kept)
    <2> HIDE DEF body
    <2> QED  BY <1>3
  <1>5. PICK g : g = kept
    OBVIOUS
  <1>6. PICK L \in Nat : L = Len(s)
    OBVIOUS
  <1>7. /\ g[0] = <<>>
        /\ \A n \in 1 .. L : g[n] = IF s[n] \in S THEN Append(g[n - 1], s[n]) ELSE g[n - 1]
    <2> DEFINE b(n) == IF n = 0 THEN <<>>
                       ELSE IF s[n] \in S THEN Append(g[n - 1], s[n]) ELSE g[n - 1]
    <2>1. g = body(g)
      BY <1>4, <1>5
    <2>2. g = [n \in 0 .. L |-> b(n)]
      BY <2>1, <1>6
    <2>3. \A n \in 0 .. L : g[n] = b(n)
      <3> HIDE DEF b
      <3> QED  BY <2>2
    <2>4. b(0) = <<>> /\ \A n \in 1 .. L :
            n \in 0 .. L /\ b(n) = IF s[n] \in S THEN Append(g[n - 1], s[n]) ELSE g[n - 1]
      OBVIOUS
    <2> HIDE DEF b
    <2>5. g[0] = <<>>
      <3>1. 0 \in 0 .. L
        OBVIOUS
      <3> QED  BY <2>3, <2>4, <3>1
    <2>6. ASSUME NEW n \in 1 .. L
          PROVE  g[n] = IF s[n] \in S THEN Append(g[n - 1], s[n]) ELSE g[n - 1]
      <3>1. g[n] = b(n) /\ b(n) = IF s[n] \in S THEN Append(g[n - 1], s[n]) ELSE g[n - 1]
        BY <2>3, <2>4
      <3> QED  BY <3>1
    <2> QED  BY SMTT(60), <2>5, <2>6
  <1>8. \A m \in 0 .. L : g[m] = f[m]
    <2> DEFINE T == {m \in 0 .. L : g[m] = f[m]}
    <2>0. /\ f[0] = <<>>
          /\ \A n \in 1 .. L : f[n] = IF s[n] \in S THEN Append(f[n - 1], s[n]) ELSE f[n - 1]
      BY <1>2, <1>6 DEF Keeps
    <2>1. 0 \in T
      BY <2>0, <1>7
    <2>2. \A m \in 1 .. L : m - 1 \in T => m \in T
      BY <2>0, <1>7
    <2> HIDE DEF T
    <2>3. \A m \in 0 .. L : m \in T
      BY <2>1, <2>2, UpTo
    <2> QED  BY <2>3 DEF T
  <1>9. kept[Len(s)] = f[Len(s)]
    BY <1>5, <1>6, <1>8
  <1> QED  BY <1>1, <1>2, <1>9

(* A filtered list: what it keeps of the list, and each element once. *)
LEMMA OnlyIs ==
    ASSUME NEW R, NEW s \in Seq(R), NEW S
    PROVE  /\ Only(s, S) \in Seq(R)
           /\ Range(Only(s, S)) = Range(s) \cap S
           /\ IsInjective(s) => IsInjective(Only(s, S))
  <1>1. PICK f : Keeps(f, R, s, S) /\ Only(s, S) = f[Len(s)]
    BY OnlyKeeps
  <1>2. PICK L \in Nat : L = Len(s)
    OBVIOUS
  <1>3. /\ f \in [0 .. L -> Seq(R)] /\ f[0] = <<>>
        /\ \A n \in 1 .. L : f[n] = IF s[n] \in S THEN Append(f[n - 1], s[n]) ELSE f[n - 1]
    BY <1>1, <1>2 DEF Keeps
  <1> DEFINE First(m) == {s[i] : i \in 1 .. m} \cap S
             Ok(m) == /\ {f[m][i] : i \in DOMAIN f[m]} = First(m)
                      /\ IsInjective(s) => IsInjective(f[m])
             T == {m \in 0 .. L : Ok(m)}
  <1>4. 0 \in T
    <2>1. DOMAIN f[0] = {} /\ First(0) = {}
      BY <1>3
    <2> QED  BY <2>1 DEF IsInjective
  <1>5. ASSUME NEW m \in 1 .. L, m - 1 \in T PROVE m \in T
    <2>1. m - 1 \in 0 .. L /\ m \in 0 .. L /\ m \in 1 .. Len(s) /\ m \in Nat
      BY <1>2
    <2>2. PICK q \in Seq(R) : q = f[m - 1]
      BY <1>3, <2>1
    <2>3. Ok(m - 1)
      BY <1>5
    <2>4. {q[i] : i \in DOMAIN q} = First(m - 1) /\ (IsInjective(s) => IsInjective(q))
      BY <2>2, <2>3
    <2>5. s[m] \in R /\ {s[i] : i \in 1 .. m} = {s[i] : i \in 1 .. m - 1} \cup {s[m]}
      BY <1>2, <2>1
    <2>6. CASE s[m] \notin S
      <3>1. f[m] = q /\ First(m) = First(m - 1)
        BY <1>3, <2>2, <2>5, <2>6
      <3> QED  BY <2>1, <2>4, <3>1
    <2>7. CASE s[m] \in S
      <3>1. f[m] = Append(q, s[m]) /\ First(m) = First(m - 1) \cup {s[m]}
        BY <1>3, <2>2, <2>5, <2>7
      <3> HIDE DEF First
      <3>2. PICK r : r = Append(q, s[m])
        OBVIOUS
      <3>3. /\ Len(q) \in Nat /\ Len(r) = Len(q) + 1 /\ DOMAIN r = 1 .. Len(q) + 1 /\ DOMAIN q = 1 .. Len(q)
            /\ r[Len(q) + 1] = s[m] /\ \A i \in 1 .. Len(q) : r[i] = q[i]
        BY <2>5, <3>2
      <3>4. {r[i] : i \in DOMAIN r} = {q[i] : i \in DOMAIN q} \cup {s[m]}
        BY SMTT(60), <3>3
      <3>5. IsInjective(s) => IsInjective(r)
        <4> SUFFICES ASSUME IsInjective(s) PROVE IsInjective(r)
          OBVIOUS
        <4>1. ASSUME NEW i \in DOMAIN q PROVE q[i] # s[m]
          <5> SUFFICES ASSUME q[i] = s[m] PROVE FALSE
            OBVIOUS
          <5>2. s[m] \in First(m - 1)
            BY <2>4
          <5>3. PICK k \in 1 .. m - 1 : s[k] = s[m]
            BY <5>2 DEF First
          <5> QED  BY SMTT(60), <1>2, <2>1, <5>3 DEF IsInjective
        <4>2. \A i, j \in 1 .. Len(q) : q[i] = q[j] => i = j
          BY <2>4, <3>3 DEF IsInjective
        <4>3. \A i \in 1 .. Len(q) : q[i] # s[m]
          BY <3>3, <4>1
        <4>4. \A i, j \in 1 .. Len(q) + 1 : r[i] = r[j] => i = j
          BY <3>3, <4>2, <4>3
        <4> QED  BY <3>3, <4>4 DEF IsInjective
      <3> QED  BY ZenonT(120), <2>1, <2>4, <3>1, <3>2, <3>4, <3>5
    <2> QED  BY <2>6, <2>7
  <1> HIDE DEF Ok
  <1>6. L \in T
    <2> HIDE DEF T
    <2>1. \A m \in 0 .. L : m \in T
      BY <1>4, <1>5, UpTo
    <2> QED  BY <2>1
  <1>7. Ok(L)
    BY <1>6
  <1>8. Only(s, S) = f[L] /\ f[L] \in Seq(R)
    BY <1>1, <1>2, <1>3
  <1>9. Range(s) = {s[i] : i \in 1 .. L}
    <2>1. DOMAIN s = 1 .. L
      BY <1>2
    <2> QED  BY <2>1 DEF Range
  <1> QED  BY <1>7, <1>8, <1>9 DEF Ok, Range

(* The elements of s that are in W come in rising order; a filter keeps it so. *)
Rising(s, W) == \A i, j \in DOMAIN s : i < j /\ s[i] \in W /\ s[j] \in W => s[i] < s[j]

LEMMA OnlyRises ==
    ASSUME NEW s \in Seq(Nat), NEW S, NEW W, Rising(s, W)
    PROVE  Rising(Only(s, S), W)
  <1>1. PICK f : Keeps(f, Nat, s, S) /\ Only(s, S) = f[Len(s)]
    BY OnlyKeeps
  <1>2. PICK L \in Nat : L = Len(s)
    OBVIOUS
  <1>3. /\ f \in [0 .. L -> Seq(Nat)] /\ f[0] = <<>>
        /\ \A n \in 1 .. L : f[n] = IF s[n] \in S THEN Append(f[n - 1], s[n]) ELSE f[n - 1]
    BY <1>1, <1>2 DEF Keeps
  <1> DEFINE Ok(q, m) == /\ \A i \in DOMAIN q : \E k \in 1 .. m : q[i] = s[k] /\ s[k] \in S
                         /\ Rising(q, W)
             T == {m \in 0 .. L : Ok(f[m], m)}
  <1>4. 0 \in T
    <2>1. DOMAIN f[0] = {}
      BY <1>3
    <2> QED  BY <2>1 DEF Rising
  <1>5. ASSUME NEW m \in 1 .. L, m - 1 \in T PROVE m \in T
    <2>1. m - 1 \in 0 .. L /\ m \in 0 .. L /\ m \in 1 .. Len(s) /\ m \in Nat
      BY <1>2
    <2>2. PICK q \in Seq(Nat) : q = f[m - 1]
      BY <1>3, <2>1
    <2>3. /\ \A i \in DOMAIN q : \E k \in 1 .. m - 1 : q[i] = s[k] /\ s[k] \in S
          /\ Rising(q, W)
      BY <1>5, <2>2
    <2>4. s[m] \in Nat
      BY <2>1
    <2>5. PICK r : r = f[m]
      OBVIOUS
    <2>6. CASE s[m] \notin S
      <3>1. r = q
        BY <1>3, <2>2, <2>5, <2>6
      <3>2. \A i \in DOMAIN r : \E k \in 1 .. m : r[i] = s[k] /\ s[k] \in S
        <4>1. 1 .. m - 1 \subseteq 1 .. m
          BY <2>1
        <4> QED  BY <2>3, <3>1, <4>1
      <3>3. Ok(r, m)
        BY <2>3, <3>1, <3>2
      <3> HIDE DEF Ok
      <3> QED  BY <2>1, <2>5, <3>3
    <2>7. CASE s[m] \in S
      <3>1. r = Append(q, s[m])
        BY <1>3, <2>2, <2>5, <2>7
      <3>2. /\ Len(q) \in Nat /\ DOMAIN r = 1 .. Len(q) + 1 /\ DOMAIN q = 1 .. Len(q)
            /\ r[Len(q) + 1] = s[m] /\ \A i \in 1 .. Len(q) : r[i] = q[i] /\ q[i] \in Nat
        BY SMTT(60), <2>4, <3>1
      <3>3. \A i \in 1 .. Len(q) : q[i] \in W /\ s[m] \in W => q[i] < s[m]
        <4> SUFFICES ASSUME NEW i \in 1 .. Len(q), q[i] \in W, s[m] \in W PROVE q[i] < s[m]
          OBVIOUS
        <4>1. PICK k \in 1 .. m - 1 : q[i] = s[k] /\ s[k] \in S
          BY <2>3, <3>2
        <4>2. k \in DOMAIN s /\ m \in DOMAIN s /\ k < m
          BY <1>2, <2>1
        <4> QED  BY <4>1, <4>2 DEF Rising
      <3>4. \A i, j \in 1 .. Len(q) : i < j /\ q[i] \in W /\ q[j] \in W => q[i] < q[j]
        BY <2>3, <3>2 DEF Rising
      <3>5. Rising(r, W)
        <4> SUFFICES ASSUME NEW i \in 1 .. Len(q) + 1, NEW j \in 1 .. Len(q) + 1, i < j,
                            r[i] \in W, r[j] \in W
                     PROVE  r[i] < r[j]
          BY <3>2 DEF Rising
        <4>1. i \in 1 .. Len(q) /\ r[i] = q[i]
          BY SMTT(60), <3>2
        <4>2. CASE j = Len(q) + 1
          BY <3>2, <3>3, <4>1, <4>2
        <4>3. CASE j # Len(q) + 1
          <5>0. j \in 1 .. Len(q)
            BY SMTT(60), <3>2, <4>3
          <5>1. j \in 1 .. Len(q) /\ r[j] = q[j]
            BY <3>2, <5>0
          <5> QED  BY <3>4, <4>1, <5>1
        <4> QED  BY <4>2, <4>3
      <3>6. \A i \in 1 .. Len(q) + 1 : \E k \in 1 .. m : r[i] = s[k] /\ s[k] \in S
        <4> SUFFICES ASSUME NEW i \in 1 .. Len(q) + 1
                     PROVE  \E k \in 1 .. m : r[i] = s[k] /\ s[k] \in S
          OBVIOUS
        <4>1. CASE i = Len(q) + 1
          <5>1. m \in 1 .. m
            BY <2>1
          <5> QED  BY <2>7, <3>2, <4>1, <5>1
        <4>2. CASE i # Len(q) + 1
          <5>1. i \in DOMAIN q /\ r[i] = q[i] /\ 1 .. m - 1 \subseteq 1 .. m
            BY SMTT(60), <2>1, <3>2, <4>2
          <5> QED  BY <2>3, <5>1
        <4> QED  BY <4>1, <4>2
      <3>7. Ok(r, m)
        BY <3>2, <3>5, <3>6
      <3> HIDE DEF Ok
      <3> QED  BY <2>1, <2>5, <3>7
    <2> QED  BY <2>6, <2>7
  <1> HIDE DEF Ok
  <1>6. L \in T
    <2> HIDE DEF T
    <2>1. \A m \in 0 .. L : m \in T
      BY <1>4, <1>5, UpTo
    <2> QED  BY <2>1
  <1>7. Ok(f[L], L)
    BY <1>6
  <1>8. Only(s, S) = f[L]
    BY <1>1, <1>2
  <1>9. Rising(f[L], W)
    BY <1>7 DEF Ok
  <1> QED  BY <1>8, <1>9

(* The lesser and the greater of two numbers. *)
LEMMA MinOfTwo ==
    ASSUME NEW a \in Int, NEW b \in Int
    PROVE  Min({a, b}) = IF a <= b THEN a ELSE b
  <1>1. PICK m : m = IF a <= b THEN a ELSE b
    OBVIOUS
  <1>2. m \in {a, b} /\ \A y \in {a, b} : m <= y
    BY <1>1
  <1>3. \A x \in {a, b} : (\A y \in {a, b} : x <= y) => x = m
    BY <1>1
  <1>4. Min({a, b}) = CHOOSE x \in {a, b} : \A y \in {a, b} : x <= y
    BY DEF Min
  <1> QED  BY <1>1, <1>2, <1>3, <1>4

LEMMA MaxOfTwo ==
    ASSUME NEW a \in Int, NEW b \in Int
    PROVE  Max({a, b}) = IF a >= b THEN a ELSE b
  <1>1. PICK m : m = IF a >= b THEN a ELSE b
    OBVIOUS
  <1>2. m \in {a, b} /\ \A y \in {a, b} : m >= y
    BY <1>1
  <1>3. \A x \in {a, b} : (\A y \in {a, b} : x >= y) => x = m
    BY <1>1
  <1>4. Max({a, b}) = CHOOSE x \in {a, b} : \A y \in {a, b} : x >= y
    BY DEF Max
  <1> QED  BY <1>1, <1>2, <1>3, <1>4

(* One list after another. *)
LEMMA ConcatIs ==
    ASSUME NEW R, NEW s \in Seq(R), NEW t \in Seq(R)
    PROVE  /\ s \o t \in Seq(R) /\ Len(s \o t) = Len(s) + Len(t)
           /\ \A i \in 1 .. Len(s) : (s \o t)[i] = s[i]
           /\ \A i \in 1 .. Len(t) : (s \o t)[Len(s) + i] = t[i]
           /\ Range(s \o t) = Range(s) \cup Range(t)
  <1>1. PICK u : u = s \o t
    OBVIOUS
  <1>2. PICK m \in Nat : m = Len(s)
    OBVIOUS
  <1>3. PICK n \in Nat : n = Len(t)
    OBVIOUS
  <1>4. u \in Seq(R) /\ Len(u) = m + n
    BY <1>1, <1>2, <1>3
  <1>5. \A i \in 1 .. m + n : u[i] = IF i <= m THEN s[i] ELSE t[i - m]
    BY SMTT(60), <1>1, <1>2, <1>3
  <1>6. \A i \in 1 .. m : u[i] = s[i]
    BY <1>5
  <1>7. \A i \in 1 .. n : u[m + i] = t[i]
    <2> SUFFICES ASSUME NEW i \in 1 .. n PROVE u[m + i] = t[i]
      OBVIOUS
    <2>1. m + i \in 1 .. m + n /\ ~(m + i <= m) /\ (m + i) - m = i
      OBVIOUS
    <2>2. u[m + i] = t[(m + i) - m]
      BY <1>5, <2>1
    <2> QED  BY <2>1, <2>2
  <1>8. DOMAIN u = 1 .. m + n /\ DOMAIN s = 1 .. m /\ DOMAIN t = 1 .. n
    BY <1>2, <1>3, <1>4
  <1>9. \A i \in 1 .. m + n : i \in 1 .. m \/ \E j \in 1 .. n : i = m + j
    <2> SUFFICES ASSUME NEW i \in 1 .. m + n, i \notin 1 .. m PROVE \E j \in 1 .. n : i = m + j
      OBVIOUS
    <2>1. i - m \in 1 .. n /\ i = m + (i - m)
      OBVIOUS
    <2> QED  BY <2>1
  <1>10. (\A i \in 1 .. m : i \in 1 .. m + n) /\ (\A j \in 1 .. n : m + j \in 1 .. m + n)
    OBVIOUS
  <1>11. Range(u) = Range(s) \cup Range(t)
    <2>1. ASSUME NEW x \in Range(u) PROVE x \in Range(s) \cup Range(t)
      <3>1. PICK i \in 1 .. m + n : x = u[i]
        BY <1>8 DEF Range
      <3>2. CASE i \in 1 .. m
        BY <1>6, <1>8, <3>1, <3>2 DEF Range
      <3>3. CASE i \notin 1 .. m
        <4>1. PICK j \in 1 .. n : i = m + j
          BY <1>9, <3>3
        <4> QED  BY <1>7, <1>8, <3>1, <4>1 DEF Range
      <3> QED  BY <3>2, <3>3
    <2>2. ASSUME NEW x \in Range(s) PROVE x \in Range(u)
      BY <1>6, <1>8, <1>10 DEF Range
    <2>3. ASSUME NEW x \in Range(t) PROVE x \in Range(u)
      <3>1. PICK j \in 1 .. n : x = t[j]
        BY <1>8 DEF Range
      <3>2. m + j \in DOMAIN u /\ u[m + j] = x
        BY <1>7, <1>8, <1>10, <3>1
      <3> QED  BY <3>2 DEF Range
    <2> QED  BY <2>1, <2>2, <2>3
  <1> QED  BY <1>1, <1>2, <1>3, <1>4, <1>6, <1>7, <1>11

(* Rising lists, one above the other. *)
LEMMA ConcatRises ==
    ASSUME NEW s \in Seq(Nat), NEW t \in Seq(Nat), NEW W, Rising(s, W), Rising(t, W),
           \A x \in Range(s) \cap W, y \in Range(t) \cap W : x < y
    PROVE  Rising(s \o t, W)
  <1>1. PICK u : u = s \o t
    OBVIOUS
  <1>2. PICK m \in Nat : m = Len(s)
    OBVIOUS
  <1>3. PICK n \in Nat : n = Len(t)
    OBVIOUS
  <1>4. /\ u \in Seq(Nat) /\ Len(u) = m + n
        /\ \A i \in 1 .. m : u[i] = s[i]
        /\ \A i \in 1 .. n : u[m + i] = t[i]
    BY <1>1, <1>2, <1>3, ConcatIs
  <1>5. DOMAIN u = 1 .. m + n /\ DOMAIN s = 1 .. m /\ DOMAIN t = 1 .. n
    BY <1>2, <1>3, <1>4
  <1> SUFFICES ASSUME NEW i \in 1 .. m + n, NEW j \in 1 .. m + n, i < j, u[i] \in W, u[j] \in W
               PROVE  u[i] < u[j]
    BY <1>1, <1>5 DEF Rising
  <1>6. CASE i \in 1 .. m /\ j \in 1 .. m
    BY <1>4, <1>5, <1>6 DEF Rising
  <1>7. CASE i \in 1 .. m /\ j \notin 1 .. m
    <2>1. j - m \in 1 .. n /\ m + (j - m) = j
      BY <1>7
    <2>2. u[j] = t[j - m] /\ u[i] = s[i]
      BY <1>4, <1>7, <2>1
    <2>3. u[j] \in Range(t) /\ u[i] \in Range(s)
      BY <1>5, <1>7, <2>1, <2>2 DEF Range
    <2> QED  BY <2>3
  <1>8. CASE i \notin 1 .. m
    <2>1. i - m \in 1 .. n /\ m + (i - m) = i /\ j - m \in 1 .. n /\ m + (j - m) = j /\ i - m < j - m
      BY <1>8
    <2>2. u[j] = t[j - m] /\ u[i] = t[i - m]
      BY <1>4, <2>1
    <2> QED  BY <1>5, <2>1, <2>2 DEF Rising
  <1> QED  BY <1>6, <1>7, <1>8

(* Lists without a common element, and with each of theirs once. *)
LEMMA ConcatInjective ==
    ASSUME NEW R, NEW s \in Seq(R), NEW t \in Seq(R), IsInjective(s), IsInjective(t),
           Range(s) \cap Range(t) = {}
    PROVE  IsInjective(s \o t)
  <1>1. PICK u : u = s \o t
    OBVIOUS
  <1>2. PICK m \in Nat : m = Len(s)
    OBVIOUS
  <1>3. PICK n \in Nat : n = Len(t)
    OBVIOUS
  <1>4. /\ u \in Seq(R) /\ Len(u) = m + n
        /\ \A i \in 1 .. m : u[i] = s[i]
        /\ \A i \in 1 .. n : u[m + i] = t[i]
    BY <1>1, <1>2, <1>3, ConcatIs
  <1>5. DOMAIN u = 1 .. m + n /\ DOMAIN s = 1 .. m /\ DOMAIN t = 1 .. n
    BY <1>2, <1>3, <1>4
  <1>6. ASSUME NEW i \in 1 .. m + n, NEW j \in 1 .. m + n, i < j PROVE u[i] # u[j]
    <2>1. CASE i \in 1 .. m /\ j \in 1 .. m
      <3>1. s[i] # s[j]
        BY <1>5, <1>6, <2>1 DEF IsInjective
      <3> QED  BY <1>4, <2>1, <3>1
    <2>2. CASE i \in 1 .. m /\ j \notin 1 .. m
      <3>1. j - m \in 1 .. n /\ m + (j - m) = j
        BY <2>2
      <3>2. u[j] = t[j - m] /\ u[i] = s[i]
        BY <1>4, <2>2, <3>1
      <3>3. u[j] \in Range(t) /\ u[i] \in Range(s)
        BY <1>5, <2>2, <3>1, <3>2 DEF Range
      <3> QED  BY <3>3
    <2>3. CASE i \notin 1 .. m
      <3>1. i - m \in 1 .. n /\ m + (i - m) = i /\ j - m \in 1 .. n /\ m + (j - m) = j /\ i - m # j - m
        BY <1>6, <2>3
      <3>2. u[j] = t[j - m] /\ u[i] = t[i - m]
        BY <1>4, <3>1
      <3>3. t[i - m] # t[j - m]
        BY <1>5, <3>1 DEF IsInjective
      <3> QED  BY <3>2, <3>3
    <2> QED  BY <2>1, <2>2, <2>3
  <1>7. \A i, j \in 1 .. m + n : u[i] = u[j] => i = j
    BY <1>6
  <1> QED  BY <1>1, <1>5, <1>7 DEF IsInjective

----------------------------------------------------------------------------
(* The invariant. *)

Served1 == 1 .. ServerRows
NewIds == {x \in Nat : x > ServerRows}
Spots(n) == [r : 0 .. n - 1, c : Columns]

(* A selection is on cells that are shown. *)
SelOk(sel, n) == sel = NoSelection \/ sel \in [anchor : Spots(n), focus : Spots(n)]

(* The rows of the result come in its order, as far as they were fetched;  *)
(* new rows have identities of their own.                                  *)
RowsOk(rs, nx) ==
    /\ rs \in Seq(Nat \ {0})
    /\ Rising(rs, Served1)
    /\ \A i \in DOMAIN rs : rs[i] \in Served1 => rs[i] <= nx

InsertsOk(rs, ins) ==
    ins \in Seq(NewIds) /\ IsInjective(ins) /\ Range(rs) \cap Range(ins) = {}

(* What a copy or export has: rows up to its offset, all since it began. *)
Collected(j) ==
    /\ j \in [step : {"fetching", "done"}, got : Seq(Nat), from : Nat, offset : 0 .. ServerRows]
    /\ Rising(j.got, Nat)
    /\ \A i \in DOMAIN j.got : j.got[i] <= j.offset
    /\ j.from + 1 .. j.offset \subseteq Range(j.got)
    /\ j.step = "done" => j.offset = ServerRows

JobOk == job = NoJob \/ Collected(job)
EditingOk == editing = NoCell \/ editing \in [r : Nat, c : Editable]

GridInv ==
    /\ next \in 0 .. ServerRows /\ loading \in BOOLEAN /\ locked \in BOOLEAN
    /\ RowsOk(rows, next)
    /\ InsertsOk(rows, inserts)
    /\ deletes \subseteq 0 .. Len(rows) - 1
    /\ SelOk(selection, Shown)
    /\ EditingOk /\ JobOk /\ PasteIsWhole

(* The constants. *)
LEMMA Sizes ==
    /\ ServerRows \in Nat /\ PageSize \in Nat /\ PageSize # 0 /\ Cols \in Nat /\ Cols # 0
    /\ Editable \subseteq Columns /\ 0 \in Columns /\ Cols - 1 \in Columns
    /\ \A c \in Columns : c \in Nat
  BY GridAssumption DEF Columns

(* How long the lists are. *)
LEMMA Lengths ==
    ASSUME GridInv
    PROVE  /\ rows \in Seq(Nat) /\ inserts \in Seq(Nat) /\ Len(rows) \in Nat /\ Len(inserts) \in Nat
           /\ Shown = Len(rows) + Len(inserts) /\ Shown \in Nat
           /\ DOMAIN rows = 1 .. Len(rows) /\ DOMAIN inserts = 1 .. Len(inserts)
  <1>1. rows \in Seq(Nat \ {0}) /\ inserts \in Seq(NewIds)
    BY DEF GridInv, RowsOk, InsertsOk
  <1>2. rows \in Seq(Nat) /\ Len(rows) \in Nat /\ DOMAIN rows = 1 .. Len(rows)
    BY <1>1
  <1>3. inserts \in Seq(Nat) /\ Len(inserts) \in Nat /\ DOMAIN inserts = 1 .. Len(inserts)
    <2>1. Len(inserts) \in Nat /\ DOMAIN inserts = 1 .. Len(inserts) /\ inserts \in [1 .. Len(inserts) -> NewIds]
      BY <1>1
    <2>2. inserts \in [1 .. Len(inserts) -> Nat]
      BY <2>1 DEF NewIds
    <2> QED  BY <2>1, <2>2
  <1> QED  BY <1>2, <1>3 DEF Shown

(* A page of the result. *)
LEMMA PageIs ==
    ASSUME NEW o \in 0 .. ServerRows
    PROVE  LET p == PageRows(o) IN
           /\ p \in Seq(Nat \ {0}) /\ Rising(p, Nat) /\ Len(p) \in Nat /\ o + Len(p) \in 0 .. ServerRows
           /\ \A i \in DOMAIN p : p[i] = o + i
           /\ Range(p) = o + 1 .. o + Len(p)
  <1>1. PICK e : e = Min({o + PageSize, ServerRows})
    OBVIOUS
  <1>2. e \in Nat /\ e >= o /\ e <= ServerRows
    <2>1. o + PageSize \in Int /\ ServerRows \in Int /\ o \in Nat
      BY Sizes
    <2>2. e = IF o + PageSize <= ServerRows THEN o + PageSize ELSE ServerRows
      BY <1>1, <2>1, MinOfTwo
    <2> QED  BY <2>2, Sizes
  <1>3. PICK n \in Nat : n = e - o
    BY <1>2
  <1>4. PICK p : p = [i \in 1 .. n |-> o + i]
    OBVIOUS
  <1>5. PageRows(o) = p
    BY <1>1, <1>3, <1>4 DEF PageRows
  <1>6. /\ p \in Seq(Nat \ {0}) /\ Len(p) = n /\ DOMAIN p = 1 .. n /\ \A i \in 1 .. n : p[i] = o + i
    BY <1>3, <1>4
  <1>7. Rising(p, Nat)
    BY <1>6 DEF Rising
  <1>8. Range(p) = o + 1 .. o + n
    <2>1. \A x \in o + 1 .. o + n : x - o \in 1 .. n /\ x = o + (x - o)
      OBVIOUS
    <2>2. \A x \in o + 1 .. o + n : \E i \in 1 .. n : x = o + i
      BY <2>1
    <2>3. \A i \in 1 .. n : o + i \in o + 1 .. o + n
      OBVIOUS
    <2>4. Range(p) = {o + i : i \in 1 .. n}
      BY <1>6 DEF Range
    <2> QED  BY <2>2, <2>3, <2>4
  <1>9. o + n \in 0 .. ServerRows
    BY <1>2, <1>3, Sizes
  <1> QED  BY <1>5, <1>6, <1>7, <1>8, <1>9

(* The selection after rows came and went. *)
LEMMA RebasedOk ==
    ASSUME NEW sel, NEW n, SelOk(sel, n), n \in Nat,
           NEW before \in Nat, NEW after \in Nat, NEW more \in Nat
    PROVE  SelOk(Rebased(sel, before, after, more), after + more)
  <1>1. CASE sel = NoSelection \/ after < before
    BY <1>1 DEF Rebased, SelOk
  <1>2. CASE ~(sel = NoSelection \/ after < before)
    <2>1. sel \in [anchor : Spots(n), focus : Spots(n)]
      BY <1>2 DEF SelOk
    <2> DEFINE move(p) == IF p.r >= before THEN Cell(p.r + after - before, p.c) ELSE p
    <2>2. ASSUME NEW p \in Spots(n)
          PROVE  move(p) \in [r : Nat, c : Columns]
      <3>1. p.r \in Nat /\ p.c \in Columns /\ p = [r |-> p.r, c |-> p.c]
        BY DEF Spots
      <3>2. CASE p.r >= before
        <4>1. p.r + after - before \in Nat
          BY <1>2, <3>1, <3>2
        <4> QED  BY <3>1, <3>2, <4>1 DEF Cell
      <3>3. CASE ~(p.r >= before)
        BY <3>1, <3>3
      <3> QED  BY <3>2, <3>3
    <2>3. PICK a \in [r : Nat, c : Columns] : a = move(sel.anchor)
      BY <2>1, <2>2
    <2>4. PICK f \in [r : Nat, c : Columns] : f = move(sel.focus)
      BY <2>1, <2>2
    <2>5. PICK to : to = Between(a, f)
      OBVIOUS
    <2>6. Rebased(sel, before, after, more) = IF MaxR(to) >= after + more THEN NoSelection ELSE to
      BY <1>2, <2>3, <2>4, <2>5 DEF Rebased
    <2>7. MaxR(to) = IF a.r >= f.r THEN a.r ELSE f.r
      <3>1. a.r \in Int /\ f.r \in Int /\ to.anchor = a /\ to.focus = f
        BY <2>5 DEF Between
      <3> QED  BY <3>1, MaxOfTwo DEF MaxR
    <2>8. CASE MaxR(to) >= after + more
      BY <2>6, <2>8 DEF SelOk
    <2>9. CASE ~(MaxR(to) >= after + more)
      <3>1. a.r \in Nat /\ f.r \in Nat
        OBVIOUS
      <3>2. a.r \in 0 .. after + more - 1 /\ f.r \in 0 .. after + more - 1
        BY <2>7, <2>9, <3>1
      <3>3. a \in Spots(after + more) /\ f \in Spots(after + more)
        BY <3>2 DEF Spots
      <3>4. to \in [anchor : Spots(after + more), focus : Spots(after + more)]
        BY <2>5, <3>3 DEF Between
      <3> QED  BY <2>6, <2>9, <3>4 DEF SelOk
    <2> QED  BY <2>8, <2>9
  <1> QED  BY <1>1, <1>2

(* A step that leaves the rows as they are. *)
LEMMA Frame ==
    ASSUME GridInv, UNCHANGED <<rows, next, inserts, deletes>>, SelOk(selection', Shown),
           EditingOk', JobOk', PasteIsWhole', loading' \in BOOLEAN, locked' \in BOOLEAN
    PROVE  GridInv'
  BY DEF GridInv, Shown

(* Nothing is written. *)
LEMMA NothingWritten ==
    ASSUME wrote' = NoWrite PROVE PasteIsWhole'
  BY DEF NoWrite, PasteIsWhole

(* The keys that move the selection stay on the cells shown. *)
LEMMA ClampIs ==
    ASSUME NEW x \in Int, NEW hi \in Nat
    PROVE  Clamp(x, hi) \in 0 .. hi
  <1>1. PICK m : m = Min({hi, x})
    OBVIOUS
  <1>2. m = (IF hi <= x THEN hi ELSE x) /\ m \in Int
    BY <1>1, MinOfTwo
  <1>3. Clamp(x, hi) = Max({0, m})
    BY <1>1 DEF Clamp
  <1>4. Max({0, m}) = IF 0 >= m THEN 0 ELSE m
    BY <1>2, MaxOfTwo
  <1> QED  BY <1>2, <1>3, <1>4

LEMMA PositionIs ==
    ASSUME GridInv, Shown > 0
    PROVE  Position \in Spots(Shown)
  <1>1. Shown \in Nat
    BY Lengths
  <1>2. Cell(0, 0) \in Spots(Shown)
    BY <1>1, Sizes DEF Cell, Spots
  <1>3. selection # NoSelection => selection.focus \in Spots(Shown)
    BY DEF GridInv, SelOk
  <1> QED  BY <1>2, <1>3 DEF Position

(* Mouse and keys. *)
LEMMA SelectStep ==
    ASSUME GridInv, NEW shift \in BOOLEAN,
           MouseDown(shift) \/ SelectRow(shift) \/ SelectKey(shift) \/ MouseEnter
    PROVE  SelOk(selection', Shown)
  <1> DEFINE n == Shown
  <1>0. /\ n \in Nat /\ Len(rows) \in Nat /\ Len(inserts) \in Nat /\ n = Len(rows) + Len(inserts)
        /\ Positions = 0 .. n - 1
    BY Lengths DEF Positions
  <1>s. selection # NoSelection =>
          /\ selection.anchor \in Spots(n) /\ selection.focus \in Spots(n)
          /\ selection.anchor.r \in 0 .. n - 1
    BY DEF GridInv, SelOk, Spots
  <1> HIDE DEF n
  <1>1. ASSUME NEW r \in 0 .. n - 1, NEW c \in Columns PROVE Cell(r, c) \in Spots(n)
    BY DEF Cell, Spots
  <1>2. ASSUME NEW a \in Spots(n), NEW f \in Spots(n), selection' = Between(a, f)
        PROVE  SelOk(selection', n)
    BY <1>2 DEF Between, SelOk
  <1>3. CASE MouseDown(shift)
    <2>1. PICK r \in 0 .. n - 1, c \in Columns :
            selection' = Between(IF Extends(shift) /\ ~IsInsert(r) THEN selection.anchor ELSE Cell(r, c),
                                 Cell(r, c))
      BY <1>0, <1>3 DEF MouseDown, Select
    <2>2. Cell(r, c) \in Spots(n)
      BY <1>1
    <2>3. (IF Extends(shift) /\ ~IsInsert(r) THEN selection.anchor ELSE Cell(r, c)) \in Spots(n)
      BY <1>s, <2>2 DEF Extends
    <2> QED  BY <1>2, <2>1, <2>2, <2>3 DEF n
  <1>4. CASE MouseEnter
    <2>1. PICK r \in 0 .. Len(rows) - 1, c \in Columns : selection' = Between(selection.anchor, Cell(r, c))
      BY <1>4 DEF MouseEnter, Select
    <2>2. selection # NoSelection /\ r \in 0 .. n - 1
      BY <1>0, <1>4 DEF MouseEnter
    <2>3. Cell(r, c) \in Spots(n) /\ selection.anchor \in Spots(n)
      BY <1>1, <1>s, <2>2
    <2> QED  BY <1>2, <2>1, <2>3 DEF n
  <1>5. CASE SelectRow(shift)
    <2>1. PICK r \in 0 .. n - 1 :
            selection' = Between(Cell(IF Extends(shift) THEN selection.anchor.r ELSE r, 0), Cell(r, Cols - 1))
      BY <1>0, <1>5 DEF SelectRow, Select
    <2>2. (IF Extends(shift) THEN selection.anchor.r ELSE r) \in 0 .. n - 1
      BY <1>s DEF Extends
    <2>3. /\ Cell(IF Extends(shift) THEN selection.anchor.r ELSE r, 0) \in Spots(n)
          /\ Cell(r, Cols - 1) \in Spots(n)
      BY <1>1, <2>2, Sizes
    <2> QED  BY <1>2, <2>1, <2>3 DEF n
  <1>6. CASE SelectKey(shift)
    <2>0. n > 0 /\ 0 \in 0 .. n - 1 /\ n - 1 \in 0 .. n - 1 /\ n - 1 \in Nat
      BY <1>0, <1>6 DEF SelectKey, n
    <2>p. Position \in Spots(n) /\ Position.r \in 0 .. n - 1 /\ Position.c \in Columns
      BY <2>0, PositionIs DEF n, Spots
    <2>1. CASE Select(Cell(0, 0), Cell(n - 1, Cols - 1))
      <3>1. Cell(0, 0) \in Spots(n) /\ Cell(n - 1, Cols - 1) \in Spots(n)
        BY <1>1, <2>0, Sizes
      <3> QED  BY <1>2, <2>1, <3>1 DEF Select, n
    <2>2. CASE Select(Cell(Position.r, 0), Cell(Position.r, Cols - 1))
      <3>1. Cell(Position.r, 0) \in Spots(n) /\ Cell(Position.r, Cols - 1) \in Spots(n)
        BY <1>1, <2>p, Sizes
      <3> QED  BY <1>2, <2>2, <3>1 DEF Select, n
    <2>3. ASSUME NEW i \in Int, NEW j \in Int,
                 LET to == Cell(Clamp(Position.r + i, n - 1), Clamp(Position.c + j, Cols - 1))
                 IN  Select(IF Extends(shift) THEN selection.anchor ELSE to, to)
          PROVE  SelOk(selection', n)
      <3>1. Clamp(Position.r + i, n - 1) \in 0 .. n - 1
        <4>1. Position.r + i \in Int
          BY <2>p
        <4> QED  BY <2>0, <4>1, ClampIs
      <3>2. Clamp(Position.c + j, Cols - 1) \in Columns
        <4>1. Position.c + j \in Int /\ Cols - 1 \in Nat
          BY <2>p, Sizes
        <4> QED  BY <4>1, ClampIs DEF Columns
      <3>3. PICK to : to = Cell(Clamp(Position.r + i, n - 1), Clamp(Position.c + j, Cols - 1))
        OBVIOUS
      <3>4. to \in Spots(n)
        BY <1>1, <3>1, <3>2, <3>3
      <3>5. (IF Extends(shift) THEN selection.anchor ELSE to) \in Spots(n)
        BY <1>s, <3>4 DEF Extends
      <3>6. selection' = Between(IF Extends(shift) THEN selection.anchor ELSE to, to)
        BY <2>3, <3>3 DEF Select
      <3> QED  BY <1>2, <3>4, <3>5, <3>6
    <2>4. CASE selection' = NoSelection
      BY <2>4 DEF SelOk
    <2>5. CASE \E step \in {<<-1, 0>>, <<1, 0>>, <<0, -1>>, <<0, 1>>, <<0, Cols>>, <<0, -Cols>>,
                            <<n, Cols>>, <<-n, -Cols>>} :
                 LET to == Cell(Clamp(Position.r + step[1], n - 1), Clamp(Position.c + step[2], Cols - 1))
                 IN  Select(IF Extends(shift) THEN selection.anchor ELSE to, to)
      <3>1. PICK step \in {<<-1, 0>>, <<1, 0>>, <<0, -1>>, <<0, 1>>, <<0, Cols>>, <<0, -Cols>>,
                           <<n, Cols>>, <<-n, -Cols>>} :
                 LET to == Cell(Clamp(Position.r + step[1], n - 1), Clamp(Position.c + step[2], Cols - 1))
                 IN  Select(IF Extends(shift) THEN selection.anchor ELSE to, to)
        BY <2>5
      <3>2. step[1] \in Int /\ step[2] \in Int
        BY SMTT(60), <1>0, Sizes
      <3> QED  BY <2>3, <3>1, <3>2 DEF n
    <2> QED  BY <1>6, <2>1, <2>2, <2>4, <2>5 DEF SelectKey, n
  <1> QED  BY <1>3, <1>4, <1>5, <1>6

(* New rows enter the buffer. *)
LEMMA InsertsGrow ==
    ASSUME GridInv, NEW h \in Nat, NEW q \in NewRows(h)
    PROVE  /\ InsertsOk(rows, inserts \o q)
           /\ Len(inserts \o q) = Len(inserts) + h
  <1>1. q \in [1 .. h -> Unused] /\ IsInjective(q)
    BY DEF NewRows
  <1>2. Unused \subseteq NewIds /\ Unused \cap Range(rows) = {} /\ Unused \cap Range(inserts) = {}
    BY Sizes, GridAssumption DEF Unused, NewIds
  <1>3. q \in Seq(NewIds) /\ Len(q) = h /\ Range(q) \subseteq Unused
    <2>1. q \in [1 .. h -> NewIds]
      BY <1>1, <1>2
    <2>2. q \in Seq(NewIds) /\ Len(q) = h
      BY <2>1
    <2>3. Range(q) \subseteq Unused
      BY <1>1 DEF Range
    <2> QED  BY <2>2, <2>3
  <1>4. inserts \in Seq(NewIds) /\ IsInjective(inserts) /\ Range(rows) \cap Range(inserts) = {}
    BY DEF GridInv, InsertsOk
  <1>5. /\ inserts \o q \in Seq(NewIds) /\ Len(inserts \o q) = Len(inserts) + h
        /\ Range(inserts \o q) = Range(inserts) \cup Range(q)
    <2>1. /\ inserts \o q \in Seq(NewIds) /\ Len(inserts \o q) = Len(inserts) + Len(q)
          /\ Range(inserts \o q) = Range(inserts) \cup Range(q)
      <3>1. inserts \in Seq(NewIds) /\ q \in Seq(NewIds)
        BY <1>3, <1>4
      <3> HIDE DEF NewIds
      <3> QED  BY <3>1, ConcatIs
    <2> QED  BY <1>3, <2>1
  <1>6. IsInjective(inserts \o q)
    BY <1>1, <1>2, <1>3, <1>4, ConcatInjective
  <1> QED  BY <1>2, <1>3, <1>4, <1>5, <1>6 DEF InsertsOk

(* The rows change: what is left to show for the invariant. *)
LEMMA RowsFrame ==
    ASSUME GridInv, RowsOk(rows', next'), InsertsOk(rows', inserts'), next' \in 0 .. ServerRows,
           deletes' \subseteq 0 .. Len(rows') - 1, SelOk(selection', Len(rows') + Len(inserts')),
           UNCHANGED <<editing, job>>, PasteIsWhole', loading' \in BOOLEAN, locked' \in BOOLEAN
    PROVE  GridInv'
  BY DEF GridInv, Shown, EditingOk, JobOk

(* A new row, by its button or key. *)
LEMMA AddRowStep ==
    ASSUME GridInv, AddRow, wrote' = NoWrite
    PROVE  GridInv'
  <1>1. PICK q \in NewRows(1) : inserts' = inserts \o q
    BY DEF AddRow
  <1>2. InsertsOk(rows, inserts') /\ Len(inserts') = Len(inserts) + 1
    BY <1>1, InsertsGrow
  <1>3. Len(rows) \in Nat /\ Len(inserts) \in Nat /\ Shown \in Nat /\ Len(inserts') \in Nat
    BY <1>2, Lengths
  <1>4. SelOk(selection', Len(rows) + Len(inserts'))
    <2>1. SelOk(selection, Shown) /\ selection' = Rebased(selection, Len(rows), Len(rows), Len(inserts'))
      BY DEF GridInv, AddRow
    <2> QED  BY <1>3, <2>1, RebasedOk
  <1>5. PasteIsWhole'
    BY NothingWritten
  <1> QED  BY <1>2, <1>4, <1>5, RowsFrame DEF AddRow, GridInv

(* The rows selected. *)
LEMMA SelectedIs ==
    ASSUME GridInv, selection # NoSelection
    PROVE  /\ MinR(selection) \in Nat /\ MaxR(selection) \in 0 .. Shown - 1
           /\ SelectedRows(selection) = MinR(selection) .. MaxR(selection)
           /\ SelectedRows(selection) \subseteq 0 .. Shown - 1
  <1>1. selection.anchor.r \in 0 .. Shown - 1 /\ selection.focus.r \in 0 .. Shown - 1 /\ Shown \in Nat
    BY Lengths DEF GridInv, SelOk, Spots
  <1>2. PICK a \in Int : a = selection.anchor.r
    BY <1>1
  <1>3. PICK f \in Int : f = selection.focus.r
    BY <1>1
  <1>4. MinR(selection) = (IF a <= f THEN a ELSE f) /\ MaxR(selection) = (IF a >= f THEN a ELSE f)
    BY <1>2, <1>3, MinOfTwo, MaxOfTwo DEF MinR, MaxR
  <1>5. MinR(selection) \in Nat /\ MaxR(selection) \in 0 .. Shown - 1
    BY <1>1, <1>2, <1>3, <1>4
  <1> QED  BY <1>1, <1>5 DEF SelectedRows

(* What the delete command leaves of the new rows. *)
LEMMA DeleteLeaves ==
    ASSUME GridInv, DeleteSelectedRows
    PROVE  /\ inserts' \in Seq(NewIds) /\ IsInjective(inserts')
           /\ Range(inserts') = Range(inserts) \ RemovedInserts(selection)
  <1>1. inserts \in Seq(NewIds) /\ IsInjective(inserts)
    BY DEF GridInv, InsertsOk
  <1>2. inserts' = Only(inserts, Range(inserts) \ RemovedInserts(selection))
    BY DEF DeleteSelectedRows
  <1>3. /\ inserts' \in Seq(NewIds) /\ IsInjective(inserts')
        /\ Range(inserts') = Range(inserts) \cap (Range(inserts) \ RemovedInserts(selection))
    BY <1>1, <1>2, OnlyIs
  <1> QED  BY <1>3

(* The delete command. *)
LEMMA DeleteStep ==
    ASSUME GridInv, DeleteSelectedRows, wrote' = NoWrite
    PROVE  GridInv'
  <1>1. InsertsOk(rows, inserts')
    BY DeleteLeaves DEF InsertsOk, GridInv
  <1>2. Len(rows) \in Nat /\ Shown \in Nat /\ Len(inserts') \in Nat
    BY <1>1, Lengths DEF InsertsOk
  <1>3. SelOk(selection', Len(rows) + Len(inserts'))
    <2>1. SelOk(selection, Shown) /\ selection' = Rebased(selection, Len(rows), Len(rows), Len(inserts'))
      BY DEF GridInv, DeleteSelectedRows
    <2> QED  BY <1>2, <2>1, RebasedOk
  <1>4. deletes' \subseteq 0 .. Len(rows) - 1
    <2>1. PICK marked : marked = SelectedRows(selection) \cap (0 .. Len(rows) - 1)
      OBVIOUS
    <2>2. deletes' = IF AllSelectedDeleted THEN deletes \ marked ELSE deletes \cup marked
      BY <2>1 DEF DeleteSelectedRows
    <2>3. deletes \subseteq 0 .. Len(rows) - 1
      BY DEF GridInv
    <2> QED  BY <2>1, <2>2, <2>3
  <1>5. PasteIsWhole'
    BY NothingWritten
  <1> QED  BY <1>1, <1>3, <1>4, <1>5, RowsFrame DEF DeleteSelectedRows, GridInv

(* A page arrives at the end of the fetched rows. *)
LEMMA AppendIs ==
    ASSUME GridInv, AppendPage
    PROVE  /\ rows' = rows \o PageRows(next) /\ Len(rows') = Len(rows) + Len(PageRows(next))
           /\ RowsOk(rows', next') /\ InsertsOk(rows', inserts) /\ next' \in 0 .. ServerRows
           /\ \A i \in 1 .. Len(rows) : rows'[i] = rows[i]
           /\ Len(PageRows(next)) \in Nat
  <1>1. PICK p : p = PageRows(next)
    OBVIOUS
  <1>2. /\ next \in 0 .. ServerRows /\ rows' = rows \o p /\ next' = next + Len(p)
        /\ rows \in Seq(Nat \ {0}) /\ Rising(rows, Served1) /\ ServerRows \in Nat
        /\ \A i \in DOMAIN rows : rows[i] \in Served1 => rows[i] <= next
    BY <1>1, Sizes DEF GridInv, RowsOk, AppendPage
  <1>3. /\ p \in Seq(Nat \ {0}) /\ Rising(p, Nat) /\ Len(p) \in Nat /\ next + Len(p) \in 0 .. ServerRows
        /\ Range(p) = next + 1 .. next + Len(p)
    BY <1>1, <1>2, PageIs
  <1>4. /\ rows' \in Seq(Nat \ {0}) /\ Len(rows') = Len(rows) + Len(p)
        /\ Range(rows') = Range(rows) \cup Range(p)
        /\ \A i \in 1 .. Len(rows) : rows'[i] = rows[i]
    BY SMTT(60), <1>2, <1>3, ConcatIs
  <1>5. \A x \in Range(rows) \cap Served1 : x <= next
    BY <1>2 DEF Range
  <1>6. Rising(rows', Served1)
    <2>1. Rising(p, Served1)
      BY <1>3 DEF Rising, Served1
    <2>2. \A x \in Range(rows) \cap Served1, y \in Range(p) \cap Served1 : x < y
      BY <1>2, <1>3, <1>5 DEF Served1
    <2>3. rows \in Seq(Nat) /\ p \in Seq(Nat)
      BY <1>2, <1>3
    <2> QED  BY <1>2, <2>1, <2>2, <2>3, ConcatRises
  <1>7. \A x \in Range(rows') : x \in Served1 => x <= next'
    BY <1>2, <1>3, <1>4, <1>5 DEF Served1
  <1>8. RowsOk(rows', next')
    BY <1>4, <1>6, <1>7 DEF RowsOk, Range
  <1>9. InsertsOk(rows', inserts)
    <2>1. inserts \in Seq(NewIds) /\ IsInjective(inserts) /\ Range(rows) \cap Range(inserts) = {}
      BY DEF GridInv, InsertsOk
    <2>2. Range(inserts) \subseteq NewIds
      BY <2>1 DEF Range
    <2>3. Range(p) \cap NewIds = {}
      BY <1>2, <1>3 DEF NewIds
    <2> QED  BY <1>4, <2>1, <2>2, <2>3 DEF InsertsOk
  <1> QED  BY <1>1, <1>2, <1>3, <1>4, <1>8, <1>9

LEMMA AppendStep ==
    ASSUME GridInv, AppendPage, wrote' = NoWrite
    PROVE  GridInv'
  <1>0. Len(rows) \in Nat /\ Len(inserts) \in Nat /\ Shown \in Nat
    BY Lengths
  <1>1. /\ RowsOk(rows', next') /\ InsertsOk(rows', inserts) /\ next' \in 0 .. ServerRows
        /\ Len(rows') = Len(rows) + Len(PageRows(next)) /\ Len(PageRows(next)) \in Nat
    BY AppendIs
  <1>2. SelOk(selection', Len(rows') + Len(inserts))
    <2>1. /\ SelOk(selection, Shown) /\ Len(rows') \in Nat
          /\ selection' = Rebased(selection, Len(rows), Len(rows'), Len(inserts))
      BY <1>0, <1>1 DEF GridInv, AppendPage
    <2> QED  BY <1>0, <2>1, RebasedOk
  <1>3. deletes \subseteq 0 .. Len(rows') - 1
    <2>1. deletes \subseteq 0 .. Len(rows) - 1
      BY DEF GridInv
    <2> QED  BY <1>0, <1>1, <2>1
  <1>4. PasteIsWhole'
    BY NothingWritten
  <1> QED  BY <1>1, <1>2, <1>3, <1>4, RowsFrame DEF AppendPage, GridInv

(* A save completes: rows go, and the new rows join the ones that stay. *)
LEMMA SaveStep ==
    ASSUME GridInv, SaveCompletes, wrote' = NoWrite
    PROVE  GridInv'
  <1>0. Len(rows) \in Nat /\ DOMAIN rows = 1 .. Len(rows) /\ Shown \in Nat
    BY Lengths
  <1>1. PICK kept : kept = [i \in DOMAIN rows |-> IF i - 1 \in deletes THEN 0 ELSE rows[i]]
    OBVIOUS
  <1>2. /\ rows' = Only(kept, Range(rows)) \o inserts /\ inserts' = <<>> /\ deletes' = {}
        /\ locked' = FALSE /\ selection' = Rebased(selection, Len(rows), Len(rows'), 0)
        /\ UNCHANGED <<next, loading, editing, job>>
    BY <1>1 DEF SaveCompletes
  <1>3. /\ rows \in Seq(Nat \ {0}) /\ Rising(rows, Served1)
        /\ \A i \in DOMAIN rows : rows[i] \in Served1 => rows[i] <= next
    BY DEF GridInv, RowsOk
  <1>4. \A i \in 1 .. Len(rows) : kept[i] \in Nat /\ kept[i] \in {0, rows[i]}
    BY <1>0, <1>1, <1>3
  <1>5. kept \in Seq(Nat) /\ DOMAIN kept = 1 .. Len(rows)
    BY <1>0, <1>1, <1>4
  <1>6. Rising(kept, Served1)
    <2>1. 0 \notin Served1
      BY Sizes DEF Served1
    <2>2. \A i, j \in 1 .. Len(rows) : i < j /\ rows[i] \in Served1 /\ rows[j] \in Served1 => rows[i] < rows[j]
      BY <1>0, <1>3 DEF Rising
    <2> QED  BY <1>4, <1>5, <2>1, <2>2 DEF Rising
  <1>7. PICK stay : stay = Only(kept, Range(rows))
    OBVIOUS
  <1>8. stay \in Seq(Nat) /\ Range(stay) = Range(kept) \cap Range(rows) /\ Rising(stay, Served1)
    BY <1>5, <1>6, <1>7, OnlyIs, OnlyRises
  <1>9. inserts \in Seq(NewIds) /\ inserts \in Seq(Nat) /\ Range(inserts) \subseteq NewIds
        /\ NewIds \cap Served1 = {} /\ Range(rows) \subseteq Nat \ {0} /\ NewIds \subseteq Nat \ {0}
    <2>1. inserts \in Seq(NewIds) /\ inserts \in Seq(Nat)
      BY Lengths DEF GridInv, InsertsOk
    <2>2. Range(inserts) \subseteq NewIds /\ Range(rows) \subseteq Nat \ {0}
      BY <1>3, <2>1 DEF Range
    <2>3. NewIds \cap Served1 = {} /\ NewIds \subseteq Nat \ {0}
      BY Sizes DEF NewIds, Served1
    <2> QED  BY <2>1, <2>2, <2>3
  <1>10. rows' \in Seq(Nat) /\ Range(rows') = Range(stay) \cup Range(inserts)
    BY <1>2, <1>7, <1>8, <1>9, ConcatIs
  <1>11. Rising(rows', Served1)
    <2>1. Range(inserts) \cap Served1 = {}
      BY <1>9
    <2>2. Rising(inserts, Served1)
      BY <2>1 DEF Rising, Range
    <2>3. \A x \in Range(stay) \cap Served1, y \in Range(inserts) \cap Served1 : x < y
      BY <2>1
    <2> QED  BY <1>2, <1>7, <1>8, <1>9, <2>2, <2>3, ConcatRises
  <1>12. rows' \in Seq(Nat \ {0})
    <2>1. Range(rows') \subseteq Nat \ {0}
      BY <1>8, <1>9, <1>10
    <2>2. \A i \in 1 .. Len(rows') : rows'[i] \in Nat \ {0}
      BY <1>10, <2>1 DEF Range
    <2> QED  BY <1>10, <2>2
  <1>13. \A x \in Range(rows') : x \in Served1 => x <= next
    <2>1. \A x \in Range(rows) : x \in Served1 => x <= next
      BY <1>3 DEF Range
    <2> QED  BY <1>8, <1>9, <1>10, <2>1
  <1>14. RowsOk(rows', next')
    BY <1>2, <1>11, <1>12, <1>13 DEF RowsOk, Range
  <1>15. InsertsOk(rows', inserts')
    <2>1. <<>> \in Seq(NewIds) /\ DOMAIN <<>> = {}
      OBVIOUS
    <2> QED  BY <1>2, <2>1 DEF InsertsOk, IsInjective, Range
  <1>16. SelOk(selection', Len(rows') + Len(inserts'))
    <2>1. Len(rows') \in Nat /\ SelOk(selection, Shown) /\ Len(inserts') = 0
      BY <1>2, <1>10 DEF GridInv
    <2> QED  BY <1>0, <1>2, <2>1, RebasedOk
  <1>17. PasteIsWhole'
    BY NothingWritten
  <1> QED  BY <1>2, <1>14, <1>15, <1>16, <1>17, RowsFrame DEF GridInv


(* The cells of a paste over a selection. *)
LEMMA PasteOverStep ==
    ASSUME GridInv, NEW h \in Nat, NEW w \in Nat, NEW mode, PasteOver(h, w, mode)
    PROVE  GridInv'
  <1>1. PICK cells : cells = Rectangle(h, w)
    OBVIOUS
  <1>2. PICK takes : takes = PasteTakes(cells, mode)
    OBVIOUS
  <1>3. /\ wrote' = [asked |-> cells, took |-> IF locked THEN {} ELSE takes] /\ ~locked
        /\ UNCHANGED <<rows, next, loading, inserts, deletes, locked, selection, editing, job>>
    BY <1>1, <1>2 DEF PasteOver, Write
  <1>4. takes \in {{}, cells} /\ \A p \in takes : p.c \in Editable /\ p.r \notin deletes
    BY <1>2 DEF PasteTakes, Accepts
  <1>5. wrote'.asked = cells /\ wrote'.took = takes
    BY <1>3
  <1>6. PasteIsWhole'
    BY <1>3, <1>4, <1>5 DEF PasteIsWhole
  <1>7. EditingOk' /\ JobOk' /\ SelOk(selection', Shown) /\ loading' \in BOOLEAN /\ locked' \in BOOLEAN
    BY <1>3 DEF GridInv, EditingOk, JobOk
  <1> QED  BY <1>3, <1>6, <1>7, Frame

(* A paste into new rows. *)
LEMMA PasteRowsStep ==
    ASSUME GridInv, NEW h \in Nat, NEW w \in Nat, PasteRows(h, w)
    PROVE  GridInv'
  <1>1. PICK q \in NewRows(h) : inserts' = inserts \o q
    BY DEF PasteRows
  <1>2. InsertsOk(rows, inserts')
    BY <1>1, InsertsGrow
  <1> DEFINE into == {x \in Editable : Cardinality({y \in Editable : y < x}) < w}
             cells == {Cell(r, c) : r \in Shown .. (Shown + h - 1), c \in into}
  <1>5. /\ wrote' = [asked |-> cells, took |-> IF locked THEN {} ELSE cells]
        /\ selection = NoSelection /\ ~locked
        /\ UNCHANGED <<rows, next, loading, deletes, locked, selection, editing, job>>
    <2>1. Write(cells, cells)
      BY DEF PasteRows
    <2>2. /\ selection = NoSelection /\ ~locked
          /\ UNCHANGED <<rows, next, loading, deletes, locked, selection, editing, job>>
      BY DEF PasteRows
    <2> HIDE DEF cells
    <2> QED  BY <2>1, <2>2 DEF Write
  <1>6. \A p \in cells : p.c \in Editable /\ p.r \notin deletes
    <2> SUFFICES ASSUME NEW r \in Shown .. Shown + h - 1, NEW c \in into
                 PROVE  Cell(r, c).c \in Editable /\ Cell(r, c).r \notin deletes
      <3> HIDE DEF into
      <3> QED  OBVIOUS
    <2>1. deletes \subseteq 0 .. Len(rows) - 1 /\ Len(rows) \in Nat /\ Len(inserts) \in Nat
          /\ Shown = Len(rows) + Len(inserts)
      BY Lengths DEF GridInv
    <2>2. r \notin 0 .. Len(rows) - 1 /\ c \in Editable
      BY <2>1
    <2> QED  BY <2>1, <2>2 DEF Cell
  <1> HIDE DEF cells
  <1>7. wrote'.asked = cells /\ wrote'.took = cells
    BY <1>5
  <1>8. PasteIsWhole'
    BY <1>5, <1>6, <1>7 DEF PasteIsWhole
  <1>9. SelOk(selection', Len(rows') + Len(inserts')) /\ deletes' \subseteq 0 .. Len(rows') - 1
    BY <1>5 DEF SelOk, GridInv
  <1>10. RowsOk(rows', next') /\ InsertsOk(rows', inserts') /\ next' \in 0 .. ServerRows
         /\ loading' \in BOOLEAN /\ locked' \in BOOLEAN
    BY <1>2, <1>5 DEF GridInv
  <1> QED  BY <1>5, <1>8, <1>9, <1>10, RowsFrame

(* The cell editor writes its cell, or nothing. *)
LEMMA CloseStep ==
    ASSUME GridInv, CloseEditor
    PROVE  GridInv'
  <1>1. /\ editing # NoCell /\ editing' = NoCell
        /\ UNCHANGED <<rows, next, loading, inserts, deletes, locked, selection, job>>
    BY DEF CloseEditor
  <1>2. editing \in [r : Nat, c : Editable]
    BY <1>1 DEF GridInv, EditingOk
  <1>3. PICK cells \in {{}, {editing}} : wrote' = [asked |-> cells, took |-> IF locked THEN {} ELSE cells]
    BY DEF CloseEditor, Write
  <1>4. wrote'.asked = cells /\ wrote'.took \in {{}, cells}
    BY <1>3
  <1>5. \A p \in cells : p.c \in Editable
    BY <1>2
  <1>6. ~(Cardinality(cells) > 1)
    <2>1. Cardinality({}) = 0 /\ Cardinality({editing}) = 1
      BY FS_EmptySet, FS_Singleton
    <2> QED  BY <2>1
  <1>7. PasteIsWhole'
    BY <1>4, <1>5, <1>6 DEF PasteIsWhole
  <1>8. EditingOk' /\ JobOk' /\ SelOk(selection', Shown) /\ loading' \in BOOLEAN /\ locked' \in BOOLEAN
    BY <1>1 DEF GridInv, EditingOk, JobOk
  <1> QED  BY <1>1, <1>7, <1>8, Frame

(* A copy or export begins with the rows of the result that are shown. *)
LEMMA CollectIs ==
    ASSUME GridInv, Collect
    PROVE  Collected(job')
  <1>1. PICK g : g = Served(rows)
    OBVIOUS
  <1>2. /\ rows \in Seq(Nat) /\ Rising(rows, Served1) /\ next \in 0 .. ServerRows
        /\ \A i \in DOMAIN rows : rows[i] \in Served1 => rows[i] <= next
    BY Lengths DEF GridInv, RowsOk
  <1>3. g \in Seq(Nat) /\ Range(g) = Range(rows) \cap Served1 /\ Rising(g, Served1)
    BY <1>1, <1>2, OnlyIs, OnlyRises DEF Served, Served1
  <1>4. \A i \in DOMAIN g : g[i] \in Range(rows) /\ g[i] \in Served1
    BY <1>3 DEF Range
  <1>5. Rising(g, Nat)
    BY <1>3, <1>4 DEF Rising
  <1>6. \A i \in DOMAIN g : g[i] <= next
    BY <1>2, <1>4 DEF Range
  <1>7. ServerRows \in Nat /\ next \in Nat
    BY <1>2, Sizes
  <1>8. next + 1 .. next = {}
    BY <1>7
  <1>9. PICK st \in {"fetching", "done"} :
          /\ job' = [step |-> st, got |-> g, from |-> next, offset |-> next]
          /\ st = "done" => ~(next < ServerRows)
    BY <1>1 DEF Collect, MoreRows, FirstOffset
  <1>10. st = "done" => next = ServerRows
    BY <1>2, <1>7, <1>9
  <1> QED  BY <1>2, <1>3, <1>5, <1>6, <1>7, <1>8, <1>9, <1>10 DEF Collected

(* The next page follows what it has. *)
LEMMA CollectPageIs ==
    ASSUME GridInv, CollectPage
    PROVE  job' = NoJob \/ Collected(job')
  <1> SUFFICES ASSUME job' # NoJob PROVE Collected(job')
    OBVIOUS
  <1>1. Collected(job)
    BY DEF GridInv, JobOk, CollectPage
  <1>2. PICK g \in Seq(Nat) : g = job.got
    BY <1>1 DEF Collected
  <1>3. PICK o \in 0 .. ServerRows : o = job.offset
    BY <1>1 DEF Collected
  <1>4. PICK a \in Nat : a = job.from
    BY <1>1 DEF Collected
  <1>5. PICK p : p = PageRows(o)
    OBVIOUS
  <1>6. /\ p \in Seq(Nat \ {0}) /\ Rising(p, Nat) /\ Len(p) \in Nat /\ o + Len(p) \in 0 .. ServerRows
        /\ Range(p) = o + 1 .. o + Len(p)
    BY <1>5, PageIs
  <1>7. PICK e \in 0 .. ServerRows : e = o + Len(p)
    BY <1>6
  <1>8. PICK st \in {"fetching", "done"} :
          /\ job' = [job EXCEPT !.step = st, !.got = @ \o p, !.offset = e]
          /\ st = "done" => ~(e < ServerRows)
    <2>1. job' = [job EXCEPT !.step = IF e < ServerRows THEN "fetching" ELSE "done",
                             !.got = @ \o p, !.offset = e]
      BY <1>3, <1>5, <1>7 DEF CollectPage
    <2> QED  BY <2>1
  <1>9. /\ job' = [step |-> st, got |-> g \o p, from |-> a, offset |-> e]
    <2>1. job \in [step : {"fetching", "done"}, got : Seq(Nat), from : Nat, offset : 0 .. ServerRows]
      BY <1>1 DEF Collected
    <2> QED  BY <1>2, <1>3, <1>4, <1>8, <2>1
  <1>10. p \in Seq(Nat) /\ ServerRows \in Nat
    BY <1>6, Sizes
  <1>11. g \o p \in Seq(Nat) /\ Range(g \o p) = Range(g) \cup Range(p)
    BY <1>10, ConcatIs
  <1>12. \A x \in Range(g) : x <= o /\ x \in Nat
    BY <1>1, <1>2, <1>3 DEF Collected, Range
  <1>13. Rising(g \o p, Nat)
    <2>1. \A x \in Range(g) \cap Nat, y \in Range(p) \cap Nat : x < y
      BY <1>6, <1>12
    <2>2. Rising(g, Nat)
      BY <1>1, <1>2 DEF Collected
    <2> QED  BY <1>6, <1>10, <2>1, <2>2, ConcatRises
  <1>14. \A x \in Range(g \o p) : x <= e
    BY <1>6, <1>7, <1>11, <1>12
  <1>15. a + 1 .. e \subseteq Range(g \o p)
    <2>1. a + 1 .. o \subseteq Range(g)
      BY <1>1, <1>2, <1>3, <1>4 DEF Collected
    <2>2. \A x \in a + 1 .. e : x \in a + 1 .. o \/ x \in o + 1 .. e
      BY SMTT(60), <1>3, <1>4, <1>7
    <2>3. Range(p) = o + 1 .. e
      BY <1>6, <1>7
    <2> QED  BY <1>11, <2>1, <2>2, <2>3
  <1>16. st = "done" => e = ServerRows
    BY <1>7, <1>8, <1>10
  <1>17. \A i \in DOMAIN (g \o p) : (g \o p)[i] <= e
    BY <1>14 DEF Range
  <1> HIDE DEF Rising
  <1>18. PICK u : u = g \o p
    OBVIOUS
  <1> QED  BY <1>9, <1>11, <1>13, <1>15, <1>16, <1>17, <1>18 DEF Collected

----------------------------------------------------------------------------
(* The grid keeps the invariant. *)
LEMMA GridInit == Init => GridInv
  <1> SUFFICES ASSUME Init PROVE GridInv
    OBVIOUS
  <1>1. PICK p : p = PageRows(0)
    OBVIOUS
  <1>2. 0 \in 0 .. ServerRows
    BY Sizes
  <1>3. /\ p \in Seq(Nat \ {0}) /\ Rising(p, Nat) /\ Len(p) \in Nat /\ 0 + Len(p) \in 0 .. ServerRows
        /\ \A i \in DOMAIN p : p[i] = 0 + i
    BY <1>1, <1>2, PageIs
  <1>4. rows = p /\ next = Len(p)
    BY <1>1 DEF Init
  <1>5. RowsOk(rows, next) /\ next \in 0 .. ServerRows
    <2>1. Rising(p, Served1)
      BY <1>3 DEF Rising, Served1
    <2>2. \A i \in DOMAIN p : p[i] <= Len(p)
      BY <1>3
    <2> QED  BY <1>3, <1>4, <2>1, <2>2 DEF RowsOk
  <1>6. InsertsOk(rows, inserts)
    <2>1. <<>> \in Seq(NewIds) /\ DOMAIN <<>> = {} /\ inserts = <<>>
      BY DEF Init
    <2> QED  BY <2>1 DEF InsertsOk, IsInjective, Range
  <1>7. PasteIsWhole
    BY DEF Init, NoWrite, PasteIsWhole
  <1>8. /\ loading \in BOOLEAN /\ locked \in BOOLEAN /\ deletes \subseteq 0 .. Len(rows) - 1
        /\ SelOk(selection, Shown) /\ EditingOk /\ JobOk
    BY DEF Init, SelOk, EditingOk, JobOk
  <1> QED  BY <1>5, <1>6, <1>7, <1>8 DEF GridInv

LEMMA GridNext == GridInv /\ [Next]_vars => GridInv'
  <1> SUFFICES ASSUME GridInv, [Next]_vars PROVE GridInv'
    OBVIOUS
  <1>i. /\ loading \in BOOLEAN /\ locked \in BOOLEAN /\ SelOk(selection, Shown)
        /\ EditingOk /\ JobOk /\ PasteIsWhole
    BY DEF GridInv
  <1>1. CASE UNCHANGED vars
    BY <1>1 DEF vars, GridInv, Shown, EditingOk, JobOk, PasteIsWhole
  <1>2. CASE CloseEditor
    BY <1>2, CloseStep
  <1>3. ASSUME NEW h \in 1 .. 2, NEW w \in 1 .. 2, PasteRows(h, w) PROVE GridInv'
    BY <1>3, PasteRowsStep
  <1>4. ASSUME NEW h \in 1 .. 2, NEW w \in 1 .. 2, NEW mode, PasteOver(h, w, mode) PROVE GridInv'
    BY <1>4, PasteOverStep
  <1>5. ASSUME wrote' = NoWrite, NEW shift \in BOOLEAN,
               MouseDown(shift) \/ SelectRow(shift) \/ SelectKey(shift) \/ MouseEnter
        PROVE  GridInv'
    <2>1. SelOk(selection', Shown)
      BY <1>5, SelectStep
    <2>2. PasteIsWhole'
      BY <1>5, NothingWritten
    <2>3. UNCHANGED <<rows, next, loading, inserts, deletes, locked, job, editing>>
      BY <1>5 DEF MouseDown, SelectRow, SelectKey, MouseEnter, OnlySelection
    <2>4. EditingOk' /\ JobOk' /\ loading' \in BOOLEAN /\ locked' \in BOOLEAN
      BY <1>i, <2>3 DEF EditingOk, JobOk
    <2> QED  BY <2>1, <2>2, <2>3, <2>4, Frame
  <1>6. ASSUME wrote' = NoWrite, OpenEditor PROVE GridInv'
    <2>1. PasteIsWhole'
      BY <1>6, NothingWritten
    <2>2. /\ UNCHANGED <<rows, next, loading, inserts, deletes, locked, job, selection>>
          /\ editing' = Position /\ Position.c \in Editable /\ Shown > 0
      BY <1>6 DEF OpenEditor, OnlySelection
    <2>3. Position \in [r : Nat, c : Editable]
      BY <2>2, PositionIs DEF Spots
    <2>4. EditingOk' /\ JobOk' /\ loading' \in BOOLEAN /\ locked' \in BOOLEAN
      BY <1>i, <2>2, <2>3 DEF EditingOk, JobOk
    <2> QED  BY <1>i, <2>1, <2>2, <2>4, Frame
  <1>7. ASSUME wrote' = NoWrite, LoadMoreRows \/ PageFails \/ Save \/ SaveFails PROVE GridInv'
    <2>1. PasteIsWhole'
      BY <1>7, NothingWritten
    <2>2. /\ UNCHANGED <<rows, next, inserts, deletes, job, selection, editing>>
          /\ loading' \in BOOLEAN /\ locked' \in BOOLEAN
      BY <1>7, <1>i DEF LoadMoreRows, PageFails, Save, SaveFails
    <2>3. EditingOk' /\ JobOk'
      BY <1>i, <2>2 DEF EditingOk, JobOk
    <2> QED  BY <1>i, <2>1, <2>2, <2>3, Frame
  <1>8. ASSUME wrote' = NoWrite, Collect \/ CollectPage PROVE GridInv'
    <2>1. PasteIsWhole'
      BY <1>8, NothingWritten
    <2>2. UNCHANGED <<rows, next, loading, inserts, deletes, locked, selection, editing>>
      BY <1>8 DEF Collect, CollectPage
    <2>3. JobOk'
      BY <1>8, CollectIs, CollectPageIs DEF JobOk
    <2>4. EditingOk'
      BY <1>i, <2>2 DEF EditingOk
    <2> QED  BY <1>i, <2>1, <2>2, <2>3, <2>4, Frame
  <1>9. ASSUME wrote' = NoWrite, AddRow \/ DeleteSelectedRows \/ AppendPage \/ SaveCompletes PROVE GridInv'
    BY <1>9, AddRowStep, DeleteStep, AppendStep, SaveStep
  <1> QED  BY <1>1, <1>2, <1>3, <1>4, <1>5, <1>6, <1>7, <1>8, <1>9 DEF Next

LEMMA GridInvariant == Spec => []GridInv
  BY GridInit, GridNext, PTL DEF Spec

(* A copy or export that finishes has the rows of the result once, in      *)
(* order, and all of those that were not fetched when it began; a paste is *)
(* written as a whole or not at all (allResultRows and onPaste of          *)
(* ResultGrid, TransfersAreWhole).                                         *)
THEOREM TransfersStayWhole == Spec => []TransfersAreWhole
  <1>1. GridInv => TransfersAreWhole
    <2> SUFFICES ASSUME GridInv PROVE TransfersAreWhole
      OBVIOUS
    <2>1. PasteIsWhole
      BY DEF GridInv
    <2>2. ASSUME job # NoJob, job.step = "done"
          PROVE  /\ \A i, j \in DOMAIN job.got : i < j => job.got[i] < job.got[j]
                 /\ (job.from + 1)..ServerRows \subseteq Range(job.got)
      <3>1. Collected(job)
        BY <2>2 DEF GridInv, JobOk
      <3>2. job.got \in Seq(Nat) /\ Rising(job.got, Nat) /\ job.offset = ServerRows
            /\ job.from + 1 .. job.offset \subseteq Range(job.got)
        BY <2>2, <3>1 DEF Collected
      <3>3. \A i \in DOMAIN job.got : job.got[i] \in Nat
        BY <3>2
      <3> QED  BY <3>2, <3>3 DEF Rising
    <2> QED  BY <2>1, <2>2 DEF TransfersAreWhole, ExportIsComplete
  <1> QED  BY <1>1, GridInvariant, PTL

----------------------------------------------------------------------------
(* What the user selected. *)

(* The row at a position, for any rows and new rows. *)
RowIn(rs, ins, r) == IF r < Len(rs) THEN rs[r + 1] ELSE ins[r - Len(rs) + 1]

(* A page that arrives moves the new rows down and leaves the others. *)
LEMMA RowMoves ==
    ASSUME GridInv, AppendPage, NEW r \in 0 .. Shown - 1
    PROVE  /\ r < Len(rows) => RowIn(rows', inserts', r) = RowAt(r)
           /\ r >= Len(rows) => RowIn(rows', inserts', r + Len(rows') - Len(rows)) = RowAt(r)
  <1>0. /\ Len(rows) \in Nat /\ Len(inserts) \in Nat /\ Shown = Len(rows) + Len(inserts)
        /\ Len(rows') = Len(rows) + Len(PageRows(next)) /\ Len(PageRows(next)) \in Nat
        /\ inserts' = inserts
        /\ \A i \in 1 .. Len(rows) : rows'[i] = rows[i]
    BY Lengths, AppendIs DEF AppendPage
  <1>1. PICK m \in Nat : m = Len(rows)
    BY <1>0
  <1>2. PICK n \in Nat : n = Len(rows') /\ n >= m
    BY <1>0, <1>1
  <1>3. r \in Int /\ r >= 0
    BY <1>0
  <1>4. CASE r < m
    <2>1. r + 1 \in 1 .. m /\ r < n
      BY <1>2, <1>3, <1>4
    <2>2. rows'[r + 1] = rows[r + 1]
      BY <1>0, <1>1, <2>1
    <2> QED  BY <1>1, <1>2, <1>3, <1>4, <2>1, <2>2 DEF RowAt, RowIn
  <1>5. CASE r >= m
    <2>1. ~(r < m) /\ ~(r + n - m < n) /\ (r + n - m) - n + 1 = r - m + 1
      BY <1>3, <1>5
    <2>2. RowAt(r) = inserts[r - m + 1]
      BY <1>1, <2>1 DEF RowAt
    <2>3. RowIn(rows', inserts', r + n - m) = inserts[(r + n - m) - n + 1]
      BY <1>0, <1>2, <2>1 DEF RowIn
    <2>4. RowIn(rows', inserts', r + n - m) = RowAt(r)
      BY <2>1, <2>2, <2>3
    <2> QED  BY <1>1, <1>2, <1>5, <2>4
  <1> QED  BY <1>1, <1>3, <1>4, <1>5

(* So the selection moves with its rows. *)
LEMMA SelectionMoves ==
    ASSUME GridInv, AppendPage, selection # NoSelection
    PROVE  /\ selection' # NoSelection
           /\ RowAt(selection.focus.r)' = RowAt(selection.focus.r)
           /\ RowAt(selection.anchor.r)' = RowAt(selection.anchor.r)
  <1>0. /\ Len(rows) \in Nat /\ Len(inserts) \in Nat /\ Shown = Len(rows) + Len(inserts)
        /\ Len(rows') = Len(rows) + Len(PageRows(next)) /\ Len(PageRows(next)) \in Nat
    BY Lengths, AppendIs
  <1>1. PICK m \in Nat : m = Len(rows)
    BY <1>0
  <1>2. PICK n \in Nat : n = Len(rows') /\ n >= m
    BY <1>0, <1>1
  <1>3. PICK x \in Nat : x = Len(inserts)
    BY <1>0
  <1>4. selection' = Rebased(selection, m, n, x)
    BY <1>1, <1>2, <1>3 DEF AppendPage
  <1>5. selection.anchor \in Spots(Shown) /\ selection.focus \in Spots(Shown) /\ Shown = m + x
    BY <1>0, <1>1, <1>3 DEF GridInv, SelOk
  <1> DEFINE move(p) == IF p.r >= m THEN Cell(p.r + n - m, p.c) ELSE p
  <1>6. ASSUME NEW p \in Spots(Shown)
        PROVE  /\ move(p).r \in Nat /\ move(p).r < n + x
               /\ RowIn(rows', inserts', move(p).r) = RowAt(p.r)
    <2>1. p.r \in 0 .. Shown - 1 /\ p.r \in 0 .. m + x - 1
      BY <1>5 DEF Spots
    <2>2. CASE p.r >= m
      <3>1. move(p).r = p.r + n - m
        BY <2>2 DEF Cell
      <3>2. RowIn(rows', inserts', p.r + n - m) = RowAt(p.r)
        BY <1>1, <1>2, <2>1, <2>2, RowMoves
      <3>3. p.r + n - m \in Nat /\ p.r + n - m < n + x
        BY <1>2, <2>1, <2>2
      <3> QED  BY <3>1, <3>2, <3>3
    <2>3. CASE ~(p.r >= m)
      <3>1. move(p) = p /\ p.r < m
        BY <2>1, <2>3
      <3>2. RowIn(rows', inserts', p.r) = RowAt(p.r)
        BY <1>1, <2>1, <3>1, RowMoves
      <3>3. p.r \in Nat /\ p.r < n + x
        BY <1>2, <2>1
      <3> QED  BY <3>1, <3>2, <3>3
    <2> QED  BY <2>2, <2>3
  <1>7. PICK a : a = move(selection.anchor)
    OBVIOUS
  <1>8. PICK f : f = move(selection.focus)
    OBVIOUS
  <1>9. /\ a.r \in Nat /\ a.r < n + x /\ RowIn(rows', inserts', a.r) = RowAt(selection.anchor.r)
        /\ f.r \in Nat /\ f.r < n + x /\ RowIn(rows', inserts', f.r) = RowAt(selection.focus.r)
    <2> HIDE DEF move
    <2> QED  BY <1>5, <1>6, <1>7, <1>8
  <1>10. PICK to : to = Between(a, f)
    OBVIOUS
  <1>11. Rebased(selection, m, n, x) = IF MaxR(to) >= n + x THEN NoSelection ELSE to
    BY <1>2, <1>7, <1>8, <1>10 DEF Rebased
  <1>12. to.anchor = a /\ to.focus = f /\ to # NoSelection
    BY <1>10 DEF Between, NoSelection
  <1>13. ~(MaxR(to) >= n + x)
    <2>1. MaxR(to) = IF a.r >= f.r THEN a.r ELSE f.r
      BY <1>9, <1>12, MaxOfTwo DEF MaxR
    <2> QED  BY <1>9, <2>1
  <1>14. selection' = to
    BY <1>4, <1>11, <1>13
  <1>15. /\ RowAt(selection.focus.r)' = RowIn(rows', inserts', selection'.focus.r)
         /\ RowAt(selection.anchor.r)' = RowIn(rows', inserts', selection'.anchor.r)
    BY DEF RowAt, RowIn
  <1> QED  BY <1>9, <1>12, <1>14, <1>15

(* Only a page that arrives or fails ends the loading. *)
LEMMA LoadingEnds ==
    ASSUME Next, loading, ~loading'
    PROVE  AppendPage \/ PageFails
  <1> SUFFICES ASSUME ~AppendPage, ~PageFails PROVE FALSE
    OBVIOUS
  <1>1. loading' # loading /\ loading' # TRUE
    BY Zenon
  <1>2. ~CloseEditor /\ ~AddRow /\ ~DeleteSelectedRows
    BY <1>1, Zenon DEF CloseEditor, AddRow, DeleteSelectedRows
  <1>3. \A h, w, mode : ~PasteRows(h, w) /\ ~PasteOver(h, w, mode)
    <2>1. ASSUME NEW h, NEW w, PasteRows(h, w) PROVE FALSE
      <3>1. UNCHANGED <<rows, next, loading>>
        BY <2>1 DEF PasteRows
      <3> QED  BY <1>1, <3>1, Zenon
    <2>2. \A h, w, mode : ~PasteOver(h, w, mode)
      BY <1>1, Zenon DEF PasteOver
    <2> QED  BY <2>1, <2>2, Zenon
  <1>4. (\A shift : ~MouseDown(shift) /\ ~SelectRow(shift) /\ ~SelectKey(shift)) /\ ~MouseEnter /\ ~OpenEditor
    BY <1>1, Zenon DEF MouseDown, SelectRow, SelectKey, MouseEnter, OpenEditor, OnlySelection
  <1>5. ~LoadMoreRows /\ ~Save /\ ~SaveCompletes /\ ~SaveFails
    BY <1>1, Zenon DEF LoadMoreRows, Save, SaveCompletes, SaveFails
  <1>6. ~Collect /\ ~CollectPage
    BY <1>1, Zenon DEF Collect, CollectPage
  <1> QED  BY <1>2, <1>3, <1>4, <1>5, <1>6, Zenon DEF Next

(* Under every page that arrives the selection stays on the rows it was on *)
(* (the selection effect of ResultGrid, SelectionFollowsRows).             *)
THEOREM SelectionStaysOnRows == Spec => SelectionFollowsRows
  <1>1. GridInv /\ [Next]_vars =>
          [(selection # NoSelection /\ loading /\ ~loading') =>
             /\ selection' # NoSelection
             /\ {RowAt(selection.focus.r), RowAt(selection.anchor.r)} =
                {RowAt(selection.focus.r)', RowAt(selection.anchor.r)'}]_vars
    <2> SUFFICES ASSUME GridInv, Next, selection # NoSelection, loading, ~loading'
                 PROVE  /\ selection' # NoSelection
                        /\ {RowAt(selection.focus.r), RowAt(selection.anchor.r)} =
                           {RowAt(selection.focus.r)', RowAt(selection.anchor.r)'}
      OBVIOUS
    <2>1. CASE AppendPage
      BY <2>1, SelectionMoves
    <2>2. CASE PageFails
      <3>1. UNCHANGED <<rows, inserts, selection>>
        BY <2>2 DEF PageFails
      <3> QED  BY <3>1 DEF RowAt
    <2> QED  BY <2>1, <2>2, LoadingEnds
  <1> QED  BY <1>1, GridInvariant, PTL DEF Spec, SelectionFollowsRows

(* The new rows among the rows selected. *)
LEMMA SelectedInserts ==
    ASSUME GridInv, selection # NoSelection
    PROVE  RowsOf(selection) \cap Range(inserts) = RemovedInserts(selection)
  <1>0. /\ Len(rows) \in Nat /\ Len(inserts) \in Nat /\ Shown = Len(rows) + Len(inserts)
        /\ DOMAIN rows = 1 .. Len(rows) /\ DOMAIN inserts = 1 .. Len(inserts)
    BY SMTT(60), Lengths
  <1>1. PICK m \in Nat : m = Len(rows)
    BY ZenonT(120), <1>0
  <1>2. PICK x \in Nat : x = Len(inserts)
    BY <1>0
  <1>3. PICK sel : sel = SelectedRows(selection)
    OBVIOUS
  <1>4. sel \subseteq 0 .. m + x - 1
    BY <1>0, <1>1, <1>2, <1>3, SelectedIs
  <1>5. RowsOf(selection) = {RowAt(r) : r \in sel}
    BY <1>3 DEF RowsOf
  <1>6. RemovedInserts(selection) = {inserts[i] : i \in {k \in 1 .. x : m + k - 1 \in sel}}
    BY <1>0, <1>1, <1>2, <1>3 DEF RemovedInserts
  <1>7. Range(rows) \cap Range(inserts) = {}
    BY DEF GridInv, InsertsOk
  <1>8. ASSUME NEW r \in sel, RowAt(r) \in Range(inserts) PROVE RowAt(r) \in RemovedInserts(selection)
    <2>1. r \in Int /\ r >= 0 /\ r <= m + x - 1
      BY <1>4
    <2>2. ~(r < m)
      <3> SUFFICES ASSUME r < m PROVE FALSE
        OBVIOUS
      <3>1. r + 1 \in DOMAIN rows /\ RowAt(r) = rows[r + 1]
        BY <1>0, <1>1, <2>1 DEF RowAt
      <3>2. RowAt(r) \in Range(rows)
        BY <3>1 DEF Range
      <3> QED  BY <1>7, <1>8, <3>2
    <2>3. RowAt(r) = inserts[r - m + 1] /\ r - m + 1 \in 1 .. x /\ m + (r - m + 1) - 1 = r
      BY <1>1, <2>1, <2>2 DEF RowAt
    <2> QED  BY <1>6, <2>3
  <1>9. ASSUME NEW k \in 1 .. x, m + k - 1 \in sel
        PROVE  inserts[k] \in Range(inserts) /\ \E r \in sel : inserts[k] = RowAt(r)
    <2>1. ~(m + k - 1 < m) /\ (m + k - 1) - m + 1 = k
      OBVIOUS
    <2>2. RowAt(m + k - 1) = inserts[k]
      BY <1>1, <2>1 DEF RowAt
    <2>3. inserts[k] \in Range(inserts)
      BY <1>0, <1>2 DEF Range
    <2> QED  BY <1>9, <2>2, <2>3
  <1> QED  BY <1>5, <1>6, <1>8, <1>9

(* The delete command takes the rows selected and no other, and marks or   *)
(* unmarks the fetched ones together (deleteSelectedRows,                  *)
(* DeletesAreSelected).                                                    *)
THEOREM DeleteTakesSelected == Spec => DeletesAreSelected
  <1>1. GridInv /\ [Next]_vars =>
          [(~locked /\ (deletes' # deletes \/ Len(inserts') < Len(inserts)) /\ DeleteSelectedRows) =>
             LET old == SelectedRows(selection) \cap (0..(Len(rows) - 1))
             IN  /\ Range(inserts) \ Range(inserts') = RowsOf(selection) \cap Range(inserts)
                 /\ old \subseteq deletes' \/ old \cap deletes' = {}
                 /\ deletes' \ old = deletes \ old]_vars
    <2> SUFFICES ASSUME GridInv, DeleteSelectedRows
                 PROVE  LET old == SelectedRows(selection) \cap (0..(Len(rows) - 1))
                        IN  /\ Range(inserts) \ Range(inserts') = RowsOf(selection) \cap Range(inserts)
                            /\ old \subseteq deletes' \/ old \cap deletes' = {}
                            /\ deletes' \ old = deletes \ old
      OBVIOUS
    <2>1. selection # NoSelection
      BY DEF DeleteSelectedRows, FullRowsSelected
    <2>2. RowsOf(selection) \cap Range(inserts) = RemovedInserts(selection)
      BY <2>1, SelectedInserts
    <2>3. Range(inserts') = Range(inserts) \ RemovedInserts(selection)
      BY DeleteLeaves
    <2>4. Range(inserts) \ Range(inserts') = RowsOf(selection) \cap Range(inserts)
      BY <2>2, <2>3
    <2>5. PICK old : old = SelectedRows(selection) \cap (0 .. Len(rows) - 1)
      OBVIOUS
    <2>6. deletes' = IF AllSelectedDeleted THEN deletes \ old ELSE deletes \cup old
      BY <2>5 DEF DeleteSelectedRows
    <2>7. (old \subseteq deletes' \/ old \cap deletes' = {}) /\ deletes' \ old = deletes \ old
      BY <2>6
    <2> QED  BY <2>4, <2>5, <2>7
  <1> QED  BY <1>1, GridInvariant, PTL DEF Spec, DeletesAreSelected

----------------------------------------------------------------------------
(* What the grid may edit. *)

(* A draft under a displayed name is written to the column of the table    *)
(* that this name shows.                                                   *)
LEMMA NameIsOrigin ==
    ASSUME NEW columns, NEW meta, NEW xmin, Provable(columns, meta, xmin), NEW i \in Visible(columns, xmin)
    PROVE  CatalogName(columns, xmin, columns[i].name) = columns[i].attribute
  <1>1. \A a, b \in Visible(columns, xmin) : columns[a].name = columns[b].name => a = b
    BY DEF Provable, UsableNames
  <1>2. PICK k : k = CHOOSE j \in Visible(columns, xmin) : columns[j].name = columns[i].name
    OBVIOUS
  <1>3. k \in Visible(columns, xmin) /\ columns[k].name = columns[i].name
    BY <1>2
  <1>4. k = i
    BY <1>1, <1>3
  <1> QED  BY <1>2, <1>4 DEF CatalogName

(* For every result and table, with any number of columns and keys: when   *)
(* the origins of the columns pass the checks, the displayed key of a row  *)
(* finds that row alone, and a draft is written to the cell it was made in *)
(* and to no generated column (analyzeColumns of editability.ts).          *)
THEOREM DraftsReachTheirCells ==
    ASSUME NEW columns, NEW meta, NEW xmin, NEW Values, Analyzed(columns, meta, xmin)
    PROVE  Addressed(columns, meta, xmin, Values)
  <1>1. Provable(columns, meta, xmin) /\ KeyShown(columns, meta, xmin)
    BY DEF Analyzed
  <1> DEFINE origin(i) == columns[i].attribute
             written(i) == CatalogName(columns, xmin, columns[i].name)
             tableRows == [DOMAIN meta.columns -> Values]
  <1>2. meta.primaryKey # <<>>
    BY <1>1 DEF KeyShown
  <1>3. ASSUME NEW row \in tableRows, NEW other \in tableRows,
               NEW k \in Range(meta.primaryKey), row[k] # other[k]
        PROVE  ~(\A i \in KeyColumns(columns, meta, xmin) : other[origin(i)] = row[origin(i)])
    <2>1. PICK i \in KeyColumns(columns, meta, xmin) : k = columns[i].attribute
      BY <1>1 DEF KeyShown
    <2> QED  BY <1>3, <2>1
  <1>4. ASSUME NEW i \in EditableColumns(columns, meta, xmin)
        PROVE  /\ ~meta.columns[written(i)].generated
               /\ \A row \in tableRows, v \in Values : \A j \in Visible(columns, xmin) :
                    [row EXCEPT ![written(i)] = v][origin(j)] = IF j = i THEN v ELSE row[origin(j)]
    <2>1. i \in Visible(columns, xmin) /\ ~meta.columns[origin(i)].generated
      BY DEF EditableColumns
    <2>2. written(i) = origin(i)
      BY <1>1, <2>1, NameIsOrigin
    <2>3. \A j \in Visible(columns, xmin) :
            origin(j) \in DOMAIN meta.columns /\ (origin(j) = origin(i) => j = i)
      BY <1>1, <2>1 DEF Provable, UniqueOrigins
    <2> HIDE DEF origin, written
    <2>4. ASSUME NEW row \in tableRows, NEW v \in Values, NEW j \in Visible(columns, xmin)
          PROVE  [row EXCEPT ![written(i)] = v][origin(j)] = IF j = i THEN v ELSE row[origin(j)]
      BY <2>2, <2>3
    <2> QED  BY <2>1, <2>2, <2>4
  <1>5. \A row, other \in tableRows :
          (\E k \in Range(meta.primaryKey) : row[k] # other[k]) =>
            ~(\A i \in KeyColumns(columns, meta, xmin) : other[origin(i)] = row[origin(i)])
    BY <1>3
  <1>6. \A i \in EditableColumns(columns, meta, xmin) :
          /\ ~meta.columns[written(i)].generated
          /\ \A row \in tableRows, v \in Values : \A j \in Visible(columns, xmin) :
               [row EXCEPT ![written(i)] = v][origin(j)] = IF j = i THEN v ELSE row[origin(j)]
    BY <1>4
  <1> QED  BY <1>2, <1>5, <1>6 DEF Addressed

(* A result the table tab or a query tab takes for editable is one whose   *)
(* drafts are addressed, however many columns it has (DraftsAreAddressed). *)
THEOREM EditableIsAddressed == DraftsAreAddressed
  <1> SUFFICES ASSUME NEW meta \in Metas, NEW xmin \in {0, 1},
                      IF xmin = 1 THEN input # <<>> /\ TableDataEditable(input, meta, FALSE)
                                  ELSE QueryEditable(input, meta, FALSE, TRUE)
               PROVE  Addressed(input, meta, xmin, {0, 1, 2})
    BY DEF DraftsAreAddressed
  <1>1. Analyzed(input, meta, xmin)
    BY DEF TableDataEditable, QueryEditable
  <1> QED  BY <1>1, DraftsReachTheirCells

=============================================================================

---------------------------- MODULE MerkleProofs ----------------------------
(***************************************************************************)
(* The contract's frontier, the client's tree and the paths of the         *)
(* circuits, for every depth of the tree.                                  *)
(***************************************************************************)
EXTENDS IncrementalMerkle, SumProofs, SequenceTheorems

-----------------------------------------------------------------------------
(* The recursions of ClientTree have solutions, one level after the other. *)

\* Powers of two.
LEMMA TwoToRecursion ==
  TwoTo[0] = 1 /\ \A i \in Levels : TwoTo[i + 1] = 2 * TwoTo[i]
  <1> DEFINE Body(f, n) == [i \in 0 .. n |-> IF i = 0 THEN 1
                                  ELSE 2 * f[i - 1]]
             S == {n \in Nat : \E f : f = Body(f, n)}
  <1>1. 0 \in S
    <2> DEFINE g == [i \in 0 .. 0 |-> 1]
    <2>1. g = Body(g, 0)
      OBVIOUS
    <2> QED
      BY <2>1
  <1>2. ASSUME NEW n \in S PROVE n + 1 \in S
    <2>1. PICK f : f = Body(f, n)
      OBVIOUS
    <2>2. n \in Nat /\ \A i \in 0 .. n + 1 : i # 0 => i - 1 \in 0 .. n
      OBVIOUS
    <2>3. \A i \in 0 .. n : f[i] = IF i = 0 THEN 1
                                 ELSE 2 * f[i - 1]
      BY <2>1
    <2> HIDE DEF S, Body
    <2> DEFINE g == [i \in 0 .. n + 1 |->
                       IF i = n + 1 THEN 2 * f[n] ELSE f[i]]
    <2>4. /\ DOMAIN g = 0 .. n + 1 /\ g = [i \in 0 .. n + 1 |-> g[i]]
          /\ g[n + 1] = 2 * f[n]
          /\ \A i \in 0 .. n : g[i] = f[i]
      BY <2>2
    <2> HIDE DEF g
    <2>5. ASSUME NEW i \in 0 .. n + 1
          PROVE  g[i] = IF i = 0 THEN 1
                        ELSE 2 * g[i - 1]
      <3>1. CASE i = n + 1
        <4>1. i # 0 /\ i - 1 = n /\ n \in 0 .. n
          BY <2>2, <3>1
        <4>2. g[n] = f[n]
          BY <2>4, <4>1
        <4> QED
          BY <2>4, <3>1, <4>1, <4>2
      <3>2. CASE i \in 0 .. n
        <4>1. i = 0 \/ i - 1 \in 0 .. n
          BY <2>2, <3>2
        <4>2. i # 0 => g[i - 1] = f[i - 1]
          BY <2>4, <4>1
        <4> QED
          BY <2>4, <2>3, <3>2, <4>2
      <3> QED
        BY <2>2, <3>1, <3>2
    <2>6. g = Body(g, n + 1)
      BY <2>4, <2>5 DEF Body
    <2> QED
      BY <2>2, <2>6 DEF S
  <1> HIDE DEF S
  <1>3. S = Nat
    <2>1. S \in SUBSET Nat
      BY DEF S
    <2> QED
      BY <1>1, <1>2, <2>1, Induction
  <1>4. Depth \in Nat
    BY DepthAssumption
  <1>5. \E f : f = [i \in 0 .. Depth |-> IF i = 0 THEN 1
                                  ELSE 2 * f[i - 1]]
    BY <1>3, <1>4 DEF S
  <1> DEFINE it == TwoTo
  <1>6. it = [i \in 0 .. Depth |-> IF i = 0 THEN 1
                                  ELSE 2 * it[i - 1]]
    BY <1>5 DEF TwoTo
  <1>7. 0 \in 0 .. Depth /\ \A i \in 0 .. Depth - 1 :
               i + 1 \in 0 .. Depth /\ i + 1 # 0 /\ (i + 1) - 1 = i
    BY <1>4
  <1> HIDE DEF it
  <1>8. it[0] = 1 /\ \A i \in 0 .. Depth - 1 : it[i + 1] = 2 * it[i]
    BY <1>6, <1>7
  <1> QED
    BY <1>8 DEF it, Levels

\* The halves of an index.
LEMMA HalvedRecursion ==
  ASSUME NEW index
  PROVE  /\ Halved(index)[0] = index
         /\ \A i \in Levels : Halved(index)[i + 1] = Halved(index)[i] \div 2
  <1> DEFINE Body(f, n) == [i \in 0 .. n |-> IF i = 0 THEN index
                                  ELSE (f[i - 1] \div 2)]
             S == {n \in Nat : \E f : f = Body(f, n)}
  <1>1. 0 \in S
    <2> DEFINE g == [i \in 0 .. 0 |-> index]
    <2>1. g = Body(g, 0)
      OBVIOUS
    <2> QED
      BY <2>1
  <1>2. ASSUME NEW n \in S PROVE n + 1 \in S
    <2>1. PICK f : f = Body(f, n)
      OBVIOUS
    <2>2. n \in Nat /\ \A i \in 0 .. n + 1 : i # 0 => i - 1 \in 0 .. n
      OBVIOUS
    <2>3. \A i \in 0 .. n : f[i] = IF i = 0 THEN index
                                 ELSE (f[i - 1] \div 2)
      BY <2>1
    <2> HIDE DEF S, Body
    <2> DEFINE g == [i \in 0 .. n + 1 |->
                       IF i = n + 1 THEN (f[n] \div 2) ELSE f[i]]
    <2>4. /\ DOMAIN g = 0 .. n + 1 /\ g = [i \in 0 .. n + 1 |-> g[i]]
          /\ g[n + 1] = (f[n] \div 2)
          /\ \A i \in 0 .. n : g[i] = f[i]
      BY <2>2
    <2> HIDE DEF g
    <2>5. ASSUME NEW i \in 0 .. n + 1
          PROVE  g[i] = IF i = 0 THEN index
                        ELSE (g[i - 1] \div 2)
      <3>1. CASE i = n + 1
        <4>1. i # 0 /\ i - 1 = n /\ n \in 0 .. n
          BY <2>2, <3>1
        <4>2. g[n] = f[n]
          BY <2>4, <4>1
        <4> QED
          BY <2>4, <3>1, <4>1, <4>2
      <3>2. CASE i \in 0 .. n
        <4>1. i = 0 \/ i - 1 \in 0 .. n
          BY <2>2, <3>2
        <4>2. i # 0 => g[i - 1] = f[i - 1]
          BY <2>4, <4>1
        <4> QED
          BY <2>4, <2>3, <3>2, <4>2
      <3> QED
        BY <2>2, <3>1, <3>2
    <2>6. g = Body(g, n + 1)
      BY <2>4, <2>5 DEF Body
    <2> QED
      BY <2>2, <2>6 DEF S
  <1> HIDE DEF S
  <1>3. S = Nat
    <2>1. S \in SUBSET Nat
      BY DEF S
    <2> QED
      BY <1>1, <1>2, <2>1, Induction
  <1>4. Depth \in Nat
    BY DepthAssumption
  <1>5. \E f : f = [i \in 0 .. Depth |-> IF i = 0 THEN index
                                  ELSE (f[i - 1] \div 2)]
    BY <1>3, <1>4 DEF S
  <1> DEFINE it == Halved(index)
  <1>6. it = [i \in 0 .. Depth |-> IF i = 0 THEN index
                                  ELSE (it[i - 1] \div 2)]
    BY <1>5 DEF Halved
  <1>7. 0 \in 0 .. Depth /\ \A i \in 0 .. Depth - 1 :
               i + 1 \in 0 .. Depth /\ i + 1 # 0 /\ (i + 1) - 1 = i
    BY <1>4
  <1> HIDE DEF it
  <1>8. it[0] = index /\ \A i \in 0 .. Depth - 1 : it[i + 1] = (it[i] \div 2)
    BY <1>6, <1>7
  <1> QED
    BY <1>8 DEF it, Levels

\* The empty subtrees.
LEMMA ZerosRecursion ==
  zeros[0] = Zero /\ \A i \in Levels : zeros[i + 1] = Hash(zeros[i], zeros[i])
  <1> DEFINE Body(f, n) == [i \in 0 .. n |-> IF i = 0 THEN Zero
                                  ELSE Hash(f[i - 1], f[i - 1])]
             S == {n \in Nat : \E f : f = Body(f, n)}
  <1>1. 0 \in S
    <2> DEFINE g == [i \in 0 .. 0 |-> Zero]
    <2>1. g = Body(g, 0)
      OBVIOUS
    <2> QED
      BY <2>1
  <1>2. ASSUME NEW n \in S PROVE n + 1 \in S
    <2>1. PICK f : f = Body(f, n)
      OBVIOUS
    <2>2. n \in Nat /\ \A i \in 0 .. n + 1 : i # 0 => i - 1 \in 0 .. n
      OBVIOUS
    <2>3. \A i \in 0 .. n : f[i] = IF i = 0 THEN Zero
                                 ELSE Hash(f[i - 1], f[i - 1])
      BY <2>1
    <2> HIDE DEF S, Body
    <2> DEFINE g == [i \in 0 .. n + 1 |->
                       IF i = n + 1 THEN Hash(f[n], f[n]) ELSE f[i]]
    <2>4. /\ DOMAIN g = 0 .. n + 1 /\ g = [i \in 0 .. n + 1 |-> g[i]]
          /\ g[n + 1] = Hash(f[n], f[n])
          /\ \A i \in 0 .. n : g[i] = f[i]
      BY <2>2
    <2> HIDE DEF g
    <2>5. ASSUME NEW i \in 0 .. n + 1
          PROVE  g[i] = IF i = 0 THEN Zero
                        ELSE Hash(g[i - 1], g[i - 1])
      <3>1. CASE i = n + 1
        <4>1. i # 0 /\ i - 1 = n /\ n \in 0 .. n
          BY <2>2, <3>1
        <4>2. g[n] = f[n]
          BY <2>4, <4>1
        <4> QED
          BY <2>4, <3>1, <4>1, <4>2
      <3>2. CASE i \in 0 .. n
        <4>1. i = 0 \/ i - 1 \in 0 .. n
          BY <2>2, <3>2
        <4>2. i # 0 => g[i - 1] = f[i - 1]
          BY <2>4, <4>1
        <4> QED
          BY <2>4, <2>3, <3>2, <4>2
      <3> QED
        BY <2>2, <3>1, <3>2
    <2>6. g = Body(g, n + 1)
      BY <2>4, <2>5 DEF Body
    <2> QED
      BY <2>2, <2>6 DEF S
  <1> HIDE DEF S
  <1>3. S = Nat
    <2>1. S \in SUBSET Nat
      BY DEF S
    <2> QED
      BY <1>1, <1>2, <2>1, Induction
  <1>4. Depth \in Nat
    BY DepthAssumption
  <1>5. \E f : f = [i \in 0 .. Depth |-> IF i = 0 THEN Zero
                                  ELSE Hash(f[i - 1], f[i - 1])]
    BY <1>3, <1>4 DEF S
  <1> DEFINE it == zeros
  <1>6. it = [i \in 0 .. Depth |-> IF i = 0 THEN Zero
                                  ELSE Hash(it[i - 1], it[i - 1])]
    BY <1>5 DEF zeros
  <1>7. 0 \in 0 .. Depth /\ \A i \in 0 .. Depth - 1 :
               i + 1 \in 0 .. Depth /\ i + 1 # 0 /\ (i + 1) - 1 = i
    BY <1>4
  <1> HIDE DEF it
  <1>8. it[0] = Zero /\ \A i \in 0 .. Depth - 1 : it[i + 1] = Hash(it[i], it[i])
    BY <1>6, <1>7
  <1> QED
    BY <1>8 DEF it, Levels

\* The way up from a leaf.
LEMMA ClimbRecursion ==
  ASSUME NEW leaf, NEW bits, NEW siblings
  PROVE  LET cur == Climb(leaf, bits, siblings) IN
         /\ cur[0] = leaf
         /\ \A i \in Levels : cur[i + 1] = IF bits[i] = 0 THEN Hash(cur[i], siblings[i])
                                                   ELSE Hash(siblings[i], cur[i])
  <1> DEFINE Body(f, n) == [i \in 0 .. n |-> IF i = 0 THEN leaf
                                  ELSE IF bits[i - 1] = 0 THEN Hash(f[i - 1], siblings[i - 1])
                   ELSE Hash(siblings[i - 1], f[i - 1])]
             S == {n \in Nat : \E f : f = Body(f, n)}
  <1>1. 0 \in S
    <2> DEFINE g == [i \in 0 .. 0 |-> leaf]
    <2>1. g = Body(g, 0)
      OBVIOUS
    <2> QED
      BY <2>1
  <1>2. ASSUME NEW n \in S PROVE n + 1 \in S
    <2>1. PICK f : f = Body(f, n)
      OBVIOUS
    <2>2. n \in Nat /\ \A i \in 0 .. n + 1 : i # 0 => i - 1 \in 0 .. n
      OBVIOUS
    <2>3. \A i \in 0 .. n : f[i] = IF i = 0 THEN leaf
                                 ELSE IF bits[i - 1] = 0 THEN Hash(f[i - 1], siblings[i - 1])
                   ELSE Hash(siblings[i - 1], f[i - 1])
      BY <2>1
    <2> HIDE DEF S, Body
    <2> DEFINE g == [i \in 0 .. n + 1 |->
                       IF i = n + 1 THEN IF bits[n] = 0 THEN Hash(f[n], siblings[n])
                   ELSE Hash(siblings[n], f[n]) ELSE f[i]]
    <2>4. /\ DOMAIN g = 0 .. n + 1 /\ g = [i \in 0 .. n + 1 |-> g[i]]
          /\ g[n + 1] = IF bits[n] = 0 THEN Hash(f[n], siblings[n])
                   ELSE Hash(siblings[n], f[n])
          /\ \A i \in 0 .. n : g[i] = f[i]
      BY <2>2
    <2> HIDE DEF g
    <2>5. ASSUME NEW i \in 0 .. n + 1
          PROVE  g[i] = IF i = 0 THEN leaf
                        ELSE IF bits[i - 1] = 0 THEN Hash(g[i - 1], siblings[i - 1])
                   ELSE Hash(siblings[i - 1], g[i - 1])
      <3>1. CASE i = n + 1
        <4>1. i # 0 /\ i - 1 = n /\ n \in 0 .. n
          BY <2>2, <3>1
        <4>2. g[n] = f[n]
          BY <2>4, <4>1
        <4> QED
          BY <2>4, <3>1, <4>1, <4>2
      <3>2. CASE i \in 0 .. n
        <4>1. i = 0 \/ i - 1 \in 0 .. n
          BY <2>2, <3>2
        <4>2. i # 0 => g[i - 1] = f[i - 1]
          BY <2>4, <4>1
        <4> QED
          BY <2>4, <2>3, <3>2, <4>2
      <3> QED
        BY <2>2, <3>1, <3>2
    <2>6. g = Body(g, n + 1)
      BY <2>4, <2>5 DEF Body
    <2> QED
      BY <2>2, <2>6 DEF S
  <1> HIDE DEF S
  <1>3. S = Nat
    <2>1. S \in SUBSET Nat
      BY DEF S
    <2> QED
      BY <1>1, <1>2, <2>1, Induction
  <1>4. Depth \in Nat
    BY DepthAssumption
  <1>5. \E f : f = [i \in 0 .. Depth |-> IF i = 0 THEN leaf
                                  ELSE IF bits[i - 1] = 0 THEN Hash(f[i - 1], siblings[i - 1])
                   ELSE Hash(siblings[i - 1], f[i - 1])]
    BY <1>3, <1>4 DEF S
  <1> DEFINE it == Climb(leaf, bits, siblings)
  <1>6. it = [i \in 0 .. Depth |-> IF i = 0 THEN leaf
                                  ELSE IF bits[i - 1] = 0 THEN Hash(it[i - 1], siblings[i - 1])
                   ELSE Hash(siblings[i - 1], it[i - 1])]
    BY <1>5 DEF Climb
  <1>7. 0 \in 0 .. Depth /\ \A i \in 0 .. Depth - 1 :
               i + 1 \in 0 .. Depth /\ i + 1 # 0 /\ (i + 1) - 1 = i
    BY <1>4
  <1> HIDE DEF it
  <1>8. it[0] = leaf /\ \A i \in 0 .. Depth - 1 : it[i + 1] = IF bits[i] = 0 THEN Hash(it[i], siblings[i])
                   ELSE Hash(siblings[i], it[i])
    BY <1>6, <1>7
  <1> QED
    BY <1>8 DEF it, Levels

\* The index that the bits of a path add up to.
LEMMA IndexRecursion ==
  ASSUME NEW indices
  PROVE  \E sum : /\ PathIndicesToLeafIndex(indices) = sum[Depth]
                 /\ sum[0] = 0
                 /\ \A i \in Levels : sum[i + 1] = sum[i] + indices[i] * TwoTo[i]
  <1> DEFINE Body(f, n) == [i \in 0 .. n |-> IF i = 0 THEN 0
                                  ELSE (f[i - 1] + indices[i - 1] * TwoTo[i - 1])]
             S == {n \in Nat : \E f : f = Body(f, n)}
  <1>1. 0 \in S
    <2> DEFINE g == [i \in 0 .. 0 |-> 0]
    <2>1. g = Body(g, 0)
      OBVIOUS
    <2> QED
      BY <2>1
  <1>2. ASSUME NEW n \in S PROVE n + 1 \in S
    <2>1. PICK f : f = Body(f, n)
      OBVIOUS
    <2>2. n \in Nat /\ \A i \in 0 .. n + 1 : i # 0 => i - 1 \in 0 .. n
      OBVIOUS
    <2>3. \A i \in 0 .. n : f[i] = IF i = 0 THEN 0
                                 ELSE (f[i - 1] + indices[i - 1] * TwoTo[i - 1])
      BY <2>1
    <2> HIDE DEF S, Body
    <2> DEFINE g == [i \in 0 .. n + 1 |->
                       IF i = n + 1 THEN (f[n] + indices[n] * TwoTo[n]) ELSE f[i]]
    <2>4. /\ DOMAIN g = 0 .. n + 1 /\ g = [i \in 0 .. n + 1 |-> g[i]]
          /\ g[n + 1] = (f[n] + indices[n] * TwoTo[n])
          /\ \A i \in 0 .. n : g[i] = f[i]
      BY <2>2
    <2> HIDE DEF g
    <2>5. ASSUME NEW i \in 0 .. n + 1
          PROVE  g[i] = IF i = 0 THEN 0
                        ELSE (g[i - 1] + indices[i - 1] * TwoTo[i - 1])
      <3>1. CASE i = n + 1
        <4>1. i # 0 /\ i - 1 = n /\ n \in 0 .. n
          BY <2>2, <3>1
        <4>2. g[n] = f[n]
          BY <2>4, <4>1
        <4> QED
          BY <2>4, <3>1, <4>1, <4>2
      <3>2. CASE i \in 0 .. n
        <4>1. i = 0 \/ i - 1 \in 0 .. n
          BY <2>2, <3>2
        <4>2. i # 0 => g[i - 1] = f[i - 1]
          BY <2>4, <4>1
        <4> QED
          BY <2>4, <2>3, <3>2, <4>2
      <3> QED
        BY <2>2, <3>1, <3>2
    <2>6. g = Body(g, n + 1)
      BY <2>4, <2>5 DEF Body
    <2> QED
      BY <2>2, <2>6 DEF S
  <1> HIDE DEF S
  <1>3. S = Nat
    <2>1. S \in SUBSET Nat
      BY DEF S
    <2> QED
      BY <1>1, <1>2, <2>1, Induction
  <1>4. Depth \in Nat
    BY DepthAssumption
  <1>5. \E f : f = [i \in 0 .. Depth |-> IF i = 0 THEN 0
                                  ELSE (f[i - 1] + indices[i - 1] * TwoTo[i - 1])]
    BY <1>3, <1>4 DEF S
  <1> DEFINE it == CHOOSE f : f = [i \in 0 .. Depth |-> IF i = 0 THEN 0
                                  ELSE (f[i - 1] + indices[i - 1] * TwoTo[i - 1])]
  <1>6. it = [i \in 0 .. Depth |-> IF i = 0 THEN 0
                                  ELSE (it[i - 1] + indices[i - 1] * TwoTo[i - 1])]
    BY <1>5
  <1>7. 0 \in 0 .. Depth /\ \A i \in 0 .. Depth - 1 :
               i + 1 \in 0 .. Depth /\ i + 1 # 0 /\ (i + 1) - 1 = i
    BY <1>4
  <1>8. PathIndicesToLeafIndex(indices) = it[Depth]
    BY DEF PathIndicesToLeafIndex
  <1> HIDE DEF it
  <1>9. it[0] = 0 /\ \A i \in 0 .. Depth - 1 : it[i + 1] = (it[i] + indices[i] * TwoTo[i])
    BY <1>6, <1>7
  <1> QED
    BY <1>8, <1>9 DEF Levels

\* The way down to a slot.
LEMMA SlotLeafRecursion ==
  ASSUME NEW r, NEW slot
  PROVE  \E node : /\ SlotLeaf(r, slot) = node[Depth]
                  /\ node[0] = r
                  /\ \A i \in Levels :
                       node[i + 1] = node[i][Bit(slot, Depth - (i + 1)) + 1]
  <1> DEFINE Body(f, n) == [i \in 0 .. n |-> IF i = 0 THEN r
                                  ELSE f[i - 1][Bit(slot, Depth - i) + 1]]
             S == {n \in Nat : \E f : f = Body(f, n)}
  <1>1. 0 \in S
    <2> DEFINE g == [i \in 0 .. 0 |-> r]
    <2>1. g = Body(g, 0)
      OBVIOUS
    <2> QED
      BY <2>1
  <1>2. ASSUME NEW n \in S PROVE n + 1 \in S
    <2>1. PICK f : f = Body(f, n)
      OBVIOUS
    <2>2. n \in Nat /\ \A i \in 0 .. n + 1 : i # 0 => i - 1 \in 0 .. n
      OBVIOUS
    <2>3. \A i \in 0 .. n : f[i] = IF i = 0 THEN r
                                 ELSE f[i - 1][Bit(slot, Depth - i) + 1]
      BY <2>1
    <2> HIDE DEF S, Body
    <2> DEFINE g == [i \in 0 .. n + 1 |->
                       IF i = n + 1 THEN f[n][Bit(slot, Depth - (n + 1)) + 1] ELSE f[i]]
    <2>4. /\ DOMAIN g = 0 .. n + 1 /\ g = [i \in 0 .. n + 1 |-> g[i]]
          /\ g[n + 1] = f[n][Bit(slot, Depth - (n + 1)) + 1]
          /\ \A i \in 0 .. n : g[i] = f[i]
      <3>1. n + 1 \in 0 .. n + 1 /\ \A i \in 0 .. n : i \in 0 .. n + 1 /\ i # n + 1
        BY <2>2
      <3> QED
        BY <3>1, Zenon
    <2> HIDE DEF g
    <2>5. ASSUME NEW i \in 0 .. n + 1
          PROVE  g[i] = IF i = 0 THEN r
                        ELSE g[i - 1][Bit(slot, Depth - i) + 1]
      <3>1. CASE i = n + 1
        <4>1. i # 0 /\ i - 1 = n /\ n \in 0 .. n
          BY <2>2, <3>1
        <4>2. g[n] = f[n]
          BY <2>4, <4>1
        <4> QED
          BY <2>4, <3>1, <4>1, <4>2
      <3>2. CASE i \in 0 .. n
        <4>1. i = 0 \/ i - 1 \in 0 .. n
          BY <2>2, <3>2
        <4>2. i # 0 => g[i - 1] = f[i - 1]
          BY <2>4, <4>1
        <4> QED
          BY <2>4, <2>3, <3>2, <4>2
      <3> QED
        BY <2>2, <3>1, <3>2
    <2>6. g = Body(g, n + 1)
      BY <2>4, <2>5 DEF Body
    <2> QED
      BY <2>2, <2>6 DEF S
  <1> HIDE DEF S
  <1>3. S = Nat
    <2>1. S \in SUBSET Nat
      BY DEF S
    <2> QED
      BY <1>1, <1>2, <2>1, Induction
  <1>4. Depth \in Nat
    BY DepthAssumption
  <1>5. \E f : f = [i \in 0 .. Depth |-> IF i = 0 THEN r
                                  ELSE f[i - 1][Bit(slot, Depth - i) + 1]]
    BY <1>3, <1>4 DEF S
  <1> DEFINE it == CHOOSE f : f = [i \in 0 .. Depth |-> IF i = 0 THEN r
                                  ELSE f[i - 1][Bit(slot, Depth - i) + 1]]
  <1>6. it = [i \in 0 .. Depth |-> IF i = 0 THEN r
                                  ELSE it[i - 1][Bit(slot, Depth - i) + 1]]
    BY <1>5
  <1>7. 0 \in 0 .. Depth /\ \A i \in 0 .. Depth - 1 :
               i + 1 \in 0 .. Depth /\ i + 1 # 0 /\ (i + 1) - 1 = i
    BY <1>4
  <1>8. SlotLeaf(r, slot) = it[Depth]
    BY DEF SlotLeaf
  <1> HIDE DEF it
  <1>9. it[0] = r /\ \A i \in 0 .. Depth - 1 : it[i + 1] = it[i][Bit(slot, Depth - (i + 1)) + 1]
    <2>1. it[0] = r
      BY <1>6, <1>7
    <2>2. ASSUME NEW i \in 0 .. Depth - 1
          PROVE  it[i + 1] = it[i][Bit(slot, Depth - (i + 1)) + 1]
      <3>1. i + 1 \in 0 .. Depth /\ i + 1 # 0 /\ (i + 1) - 1 = i
        BY <1>7
      <3>2. it[i + 1] = it[(i + 1) - 1][Bit(slot, Depth - (i + 1)) + 1]
        BY <1>6, <3>1, Zenon
      <3> QED
        BY <3>1, <3>2
    <2> QED
      BY <2>1, <2>2
  <1> QED
    BY <1>8, <1>9 DEF Levels

\* The client's tree, one insertion after the other.
LEMMA BuildTreeRecursion ==
  ASSUME NEW commitments, Len(commitments) \in Nat
  PROVE  \E tree : /\ BuildTree(commitments) = tree[Len(commitments)]
                  /\ tree[0] = NewTree
                  /\ \A k \in 0 .. Len(commitments) - 1 :
                       tree[k + 1] = ClientInsert(tree[k], commitments[k + 1])
  <1> DEFINE Body(f, n) == [i \in 0 .. n |-> IF i = 0 THEN NewTree
                                  ELSE ClientInsert(f[i - 1], commitments[i])]
             S == {n \in Nat : \E f : f = Body(f, n)}
  <1>1. 0 \in S
    <2> DEFINE g == [i \in 0 .. 0 |-> NewTree]
    <2>1. g = Body(g, 0)
      OBVIOUS
    <2> QED
      BY <2>1
  <1>2. ASSUME NEW n \in S PROVE n + 1 \in S
    <2>1. PICK f : f = Body(f, n)
      OBVIOUS
    <2>2. n \in Nat /\ \A i \in 0 .. n + 1 : i # 0 => i - 1 \in 0 .. n
      OBVIOUS
    <2>3. \A i \in 0 .. n : f[i] = IF i = 0 THEN NewTree
                                 ELSE ClientInsert(f[i - 1], commitments[i])
      BY <2>1
    <2> HIDE DEF S, Body
    <2> DEFINE g == [i \in 0 .. n + 1 |->
                       IF i = n + 1 THEN ClientInsert(f[n], commitments[(n + 1)]) ELSE f[i]]
    <2>4. /\ DOMAIN g = 0 .. n + 1 /\ g = [i \in 0 .. n + 1 |-> g[i]]
          /\ g[n + 1] = ClientInsert(f[n], commitments[(n + 1)])
          /\ \A i \in 0 .. n : g[i] = f[i]
      BY <2>2
    <2> HIDE DEF g
    <2>5. ASSUME NEW i \in 0 .. n + 1
          PROVE  g[i] = IF i = 0 THEN NewTree
                        ELSE ClientInsert(g[i - 1], commitments[i])
      <3>1. CASE i = n + 1
        <4>1. i # 0 /\ i - 1 = n /\ n \in 0 .. n
          BY <2>2, <3>1
        <4>2. g[n] = f[n]
          BY <2>4, <4>1
        <4> QED
          BY <2>4, <3>1, <4>1, <4>2
      <3>2. CASE i \in 0 .. n
        <4>1. i = 0 \/ i - 1 \in 0 .. n
          BY <2>2, <3>2
        <4>2. i # 0 => g[i - 1] = f[i - 1]
          BY <2>4, <4>1
        <4> QED
          BY <2>4, <2>3, <3>2, <4>2
      <3> QED
        BY <2>2, <3>1, <3>2
    <2>6. g = Body(g, n + 1)
      BY <2>4, <2>5 DEF Body
    <2> QED
      BY <2>2, <2>6 DEF S
  <1> HIDE DEF S
  <1>3. S = Nat
    <2>1. S \in SUBSET Nat
      BY DEF S
    <2> QED
      BY <1>1, <1>2, <2>1, Induction
  <1>4. Len(commitments) \in Nat
    BY DepthAssumption
  <1>5. \E f : f = [i \in 0 .. Len(commitments) |-> IF i = 0 THEN NewTree
                                  ELSE ClientInsert(f[i - 1], commitments[i])]
    BY <1>3, <1>4 DEF S
  <1> DEFINE it == CHOOSE f : f = [i \in 0 .. Len(commitments) |-> IF i = 0 THEN NewTree
                                  ELSE ClientInsert(f[i - 1], commitments[i])]
  <1>6. it = [i \in 0 .. Len(commitments) |-> IF i = 0 THEN NewTree
                                  ELSE ClientInsert(it[i - 1], commitments[i])]
    BY <1>5
  <1>7. 0 \in 0 .. Len(commitments) /\ \A i \in 0 .. Len(commitments) - 1 :
               i + 1 \in 0 .. Len(commitments) /\ i + 1 # 0 /\ (i + 1) - 1 = i
    BY <1>4
  <1>8. BuildTree(commitments) = it[Len(commitments)]
    BY DEF BuildTree
  <1> HIDE DEF it
  <1>9. it[0] = NewTree /\ \A i \in 0 .. Len(commitments) - 1 : it[i + 1] = ClientInsert(it[i], commitments[(i + 1)])
    BY <1>6, <1>7
  <1> QED
    BY <1>8, <1>9 DEF Levels

\* The levels that a client rebuilds.
LEMMA LevelNodesRecursion ==
  ASSUME NEW commitments
  PROVE  LET nodes == LevelNodes(commitments) IN
         /\ nodes[0] = commitments
         /\ \A i \in Levels : nodes[i + 1] = NextLevel(nodes[i], i)
  <1> DEFINE Body(f, n) == [i \in 0 .. n |-> IF i = 0 THEN commitments
                                  ELSE NextLevel(f[i - 1], i - 1)]
             S == {n \in Nat : \E f : f = Body(f, n)}
  <1>1. 0 \in S
    <2> DEFINE g == [i \in 0 .. 0 |-> commitments]
    <2>1. g = Body(g, 0)
      OBVIOUS
    <2> QED
      BY <2>1
  <1>2. ASSUME NEW n \in S PROVE n + 1 \in S
    <2>1. PICK f : f = Body(f, n)
      OBVIOUS
    <2>2. n \in Nat /\ \A i \in 0 .. n + 1 : i # 0 => i - 1 \in 0 .. n
      OBVIOUS
    <2>3. \A i \in 0 .. n : f[i] = IF i = 0 THEN commitments
                                 ELSE NextLevel(f[i - 1], i - 1)
      BY <2>1
    <2> HIDE DEF S, Body
    <2> DEFINE g == [i \in 0 .. n + 1 |->
                       IF i = n + 1 THEN NextLevel(f[n], n) ELSE f[i]]
    <2>4. /\ DOMAIN g = 0 .. n + 1 /\ g = [i \in 0 .. n + 1 |-> g[i]]
          /\ g[n + 1] = NextLevel(f[n], n)
          /\ \A i \in 0 .. n : g[i] = f[i]
      BY <2>2
    <2> HIDE DEF g
    <2>5. ASSUME NEW i \in 0 .. n + 1
          PROVE  g[i] = IF i = 0 THEN commitments
                        ELSE NextLevel(g[i - 1], i - 1)
      <3>1. CASE i = n + 1
        <4>1. i # 0 /\ i - 1 = n /\ n \in 0 .. n
          BY <2>2, <3>1
        <4>2. g[n] = f[n]
          BY <2>4, <4>1
        <4> QED
          BY <2>4, <3>1, <4>1, <4>2
      <3>2. CASE i \in 0 .. n
        <4>1. i = 0 \/ i - 1 \in 0 .. n
          BY <2>2, <3>2
        <4>2. i # 0 => g[i - 1] = f[i - 1]
          BY <2>4, <4>1
        <4> QED
          BY <2>4, <2>3, <3>2, <4>2
      <3> QED
        BY <2>2, <3>1, <3>2
    <2>6. g = Body(g, n + 1)
      BY <2>4, <2>5 DEF Body
    <2> QED
      BY <2>2, <2>6 DEF S
  <1> HIDE DEF S
  <1>3. S = Nat
    <2>1. S \in SUBSET Nat
      BY DEF S
    <2> QED
      BY <1>1, <1>2, <2>1, Induction
  <1>4. Depth \in Nat
    BY DepthAssumption
  <1>5. \E f : f = [i \in 0 .. Depth |-> IF i = 0 THEN commitments
                                  ELSE NextLevel(f[i - 1], i - 1)]
    BY <1>3, <1>4 DEF S
  <1> DEFINE it == LevelNodes(commitments)
  <1>6. it = [i \in 0 .. Depth |-> IF i = 0 THEN commitments
                                  ELSE NextLevel(it[i - 1], i - 1)]
    BY <1>5 DEF LevelNodes
  <1>7. 0 \in 0 .. Depth /\ \A i \in 0 .. Depth - 1 :
               i + 1 \in 0 .. Depth /\ i + 1 # 0 /\ (i + 1) - 1 = i
    BY <1>4
  <1> HIDE DEF it
  <1>8. it[0] = commitments /\ \A i \in 0 .. Depth - 1 : it[i + 1] = NextLevel(it[i], i)
    BY <1>6, <1>7
  <1> QED
    BY <1>8 DEF it, Levels

-----------------------------------------------------------------------------
(* The bits of an index.                                                   *)

LEMMA DepthFacts ==
  /\ Depth \in Nat /\ Depth > 0 /\ Levels = 0 .. Depth - 1
  /\ \A i \in Levels : i \in 0 .. Depth /\ i + 1 \in 0 .. Depth /\ i \in Nat
  BY DepthAssumption DEF Levels

LEMMA TwoToType == \A i \in 0 .. Depth : TwoTo[i] \in Nat /\ TwoTo[i] > 0
  <1> DEFINE S == {n \in Nat : n <= Depth => TwoTo[n] \in Nat /\ TwoTo[n] > 0}
  <1>1. 0 \in S
    BY TwoToRecursion
  <1>2. ASSUME NEW n \in S PROVE n + 1 \in S
    <2>1. CASE n + 1 <= Depth
      <3>1. n \in Levels /\ TwoTo[n] \in Nat /\ TwoTo[n] > 0
        BY <2>1, DepthFacts
      <3>2. TwoTo[n + 1] = 2 * TwoTo[n]
        BY <3>1, TwoToRecursion
      <3> QED
        BY <3>1, <3>2
    <2> QED
      BY <2>1
  <1> HIDE DEF S
  <1>3. S = Nat
    <2>1. S \in SUBSET Nat
      BY DEF S
    <2> QED
      BY <1>1, <1>2, <2>1, Induction
  <1> QED
    BY <1>3, DepthFacts DEF S

LEMMA CapacityType == Capacity \in Nat /\ Capacity > 0
  BY TwoToType, DepthFacts DEF Capacity

LEMMA HalvedType ==
  ASSUME NEW index \in Nat
  PROVE  \A i \in 0 .. Depth : Halved(index)[i] \in Nat
  <1> DEFINE S == {n \in Nat : n <= Depth => Halved(index)[n] \in Nat}
  <1>1. 0 \in S
    BY HalvedRecursion
  <1>2. ASSUME NEW n \in S PROVE n + 1 \in S
    <2>1. CASE n + 1 <= Depth
      <3>1. n \in Levels /\ Halved(index)[n] \in Nat
        BY <2>1, DepthFacts
      <3>2. Halved(index)[n + 1] = Halved(index)[n] \div 2
        BY <3>1, HalvedRecursion
      <3> QED
        BY <3>1, <3>2
    <2> QED
      BY <2>1
  <1> HIDE DEF S
  <1>3. S = Nat
    <2>1. S \in SUBSET Nat
      BY DEF S
    <2> QED
      BY <1>1, <1>2, <2>1, Induction
  <1> QED
    BY <1>3, DepthFacts DEF S

\* A node is the left or the right child of its parent.
LEMMA HalvedStep ==
  ASSUME NEW index \in Nat, NEW i \in Levels
  PROVE  /\ Bit(index, i) \in {0, 1}
         /\ Halved(index)[i] = 2 * Halved(index)[i + 1] + Bit(index, i)
  <1>1. Halved(index)[i] \in Nat
    BY HalvedType, DepthFacts
  <1>2. Halved(index)[i + 1] = Halved(index)[i] \div 2
    BY HalvedRecursion
  <1>3. \A x \in Nat : x % 2 \in {0, 1} /\ x = (2 * (x \div 2)) + (x % 2)
    OBVIOUS
  <1> QED
    BY <1>1, <1>2, <1>3 DEF Bit

\* What lies above a bit m of a number does not change the bits below it.
LEMMA HalvedSplit ==
  ASSUME NEW low \in Nat, NEW high \in Nat, NEW m \in 0 .. Depth
  PROVE  \A i \in 0 .. m :
           Halved(low + high * TwoTo[m])[i] = Halved(low)[i] + high * TwoTo[m - i]
  <1> DEFINE x == low + high * TwoTo[m]
             S == {n \in Nat : n <= m => Halved(x)[n] = Halved(low)[n] + high * TwoTo[m - n]}
  <1>1. m \in Nat /\ m <= Depth
    BY DepthFacts
  <1>2. \A i \in 0 .. m : TwoTo[m - i] \in Nat /\ high * TwoTo[m - i] \in Nat
    <2>1. \A i \in 0 .. m : m - i \in 0 .. Depth
      BY <1>1, DepthFacts
    <2>2. \A i \in 0 .. m : TwoTo[m - i] \in Nat
      BY <2>1, TwoToType
    <2> QED
      BY <2>2
  <1>3. 0 \in S
    BY <1>1, HalvedRecursion
  <1>4. ASSUME NEW n \in S PROVE n + 1 \in S
    <2>1. CASE n + 1 <= m
      <3> DEFINE rest == high * TwoTo[m - (n + 1)]
      <3>1. /\ n \in Levels /\ m - (n + 1) \in Levels /\ (m - (n + 1)) + 1 = m - n
            /\ n \in 0 .. Depth /\ n + 1 \in 0 .. m
        BY <1>1, <2>1, DepthFacts
      <3>2. TwoTo[m - n] = 2 * TwoTo[m - (n + 1)]
        BY <3>1, TwoToRecursion
      <3>3. rest \in Nat /\ TwoTo[m - (n + 1)] \in Nat
        BY <1>2, <3>1
      <3>4. high * TwoTo[m - n] = 2 * rest
        BY <3>2, <3>3
      <3>5. Halved(x)[n] = Halved(low)[n] + 2 * rest /\ Halved(low)[n] \in Nat
        BY <2>1, <3>1, <3>4, HalvedType
      <3>6. /\ Halved(x)[n + 1] = Halved(x)[n] \div 2
            /\ Halved(low)[n + 1] = Halved(low)[n] \div 2
        BY <3>1, HalvedRecursion
      <3> HIDE DEF rest, x
      <3>7. Halved(x)[n + 1] = Halved(low)[n + 1] + rest
        BY <3>3, <3>5, <3>6
      <3> QED
        BY <3>7 DEF rest, x
    <2> QED
      BY <2>1
  <1> HIDE DEF S
  <1>5. S = Nat
    <2>1. S \in SUBSET Nat
      BY DEF S
    <2> QED
      BY <1>3, <1>4, <2>1, Induction
  <1> QED
    BY <1>1, <1>5 DEF S

\* A number below a power of two has no bits from there on.
LEMMA HalvedVanishes ==
  ASSUME NEW m \in 0 .. Depth, NEW x \in Nat, x < TwoTo[m]
  PROVE  Halved(x)[m] = 0
  <1> DEFINE S == {n \in Nat : n <= m => Halved(x)[n] < TwoTo[m - n]}
  <1>1. m \in Nat /\ m <= Depth
    BY DepthFacts
  <1>2. 0 \in S
    BY <1>1, HalvedRecursion
  <1>3. ASSUME NEW n \in S PROVE n + 1 \in S
    <2>1. CASE n + 1 <= m
      <3>1. /\ n \in Levels /\ m - (n + 1) \in Levels /\ (m - (n + 1)) + 1 = m - n
            /\ n \in 0 .. Depth /\ m - (n + 1) \in 0 .. Depth
        BY <1>1, <2>1, DepthFacts
      <3>2. TwoTo[m - n] = 2 * TwoTo[m - (n + 1)] /\ TwoTo[m - (n + 1)] \in Nat
        BY <3>1, TwoToRecursion, TwoToType
      <3>3. Halved(x)[n] < TwoTo[m - n] /\ Halved(x)[n] \in Nat
        BY <2>1, <3>1, HalvedType
      <3>4. Halved(x)[n + 1] = Halved(x)[n] \div 2
        BY <3>1, HalvedRecursion
      <3>5. Halved(x)[n + 1] < TwoTo[m - (n + 1)]
        BY <3>2, <3>3, <3>4
      <3> QED
        BY <3>5
    <2> QED
      BY <2>1
  <1> HIDE DEF S
  <1>4. S = Nat
    <2>1. S \in SUBSET Nat
      BY DEF S
    <2> QED
      BY <1>2, <1>3, <2>1, Induction
  <1>5. Halved(x)[m] < TwoTo[m - m] /\ m - m = 0
    BY <1>1, <1>4 DEF S
  <1>6. TwoTo[0] = 1 /\ Halved(x)[m] \in Nat
    BY TwoToRecursion, HalvedType
  <1> QED
    BY <1>5, <1>6

LEMMA Division ==
  ASSUME NEW n \in Nat, NEW d \in Nat, d > 0
  PROVE  /\ n % d \in 0 .. d - 1 /\ n \div d \in Nat
         /\ n = (n % d) + (n \div d) * d
         /\ ((n + 1) % d) \in {0, (n % d) + 1}
         /\ n < d => n % d = n
  <1> DEFINE q == n \div d
             r == n % d
  <1>1. q \in Nat /\ r \in 0 .. d - 1 /\ n = (d * q) + r
    OBVIOUS
  <1>2. \A m \in Nat, k \in Int, e \in 0 .. d - 1 : m = (d * k) + e => m % d = e
    OBVIOUS
  <1> HIDE DEF q, r
  <1>3. d * q = q * d /\ d * q \in Nat /\ d * (q + 1) = (d * q) + d /\ q + 1 \in Int
    BY <1>1
  <1>4. ASSUME r + 1 < d PROVE (n + 1) % d = r + 1
    <2>1. n + 1 = (d * q) + (r + 1) /\ r + 1 \in 0 .. d - 1 /\ n + 1 \in Nat
      BY <1>1, <1>3, <1>4
    <2> QED
      BY <1>1, <1>2, <2>1
  <1>5. ASSUME r + 1 = d PROVE (n + 1) % d = 0
    <2>1. n + 1 = (d * (q + 1)) + 0 /\ 0 \in 0 .. d - 1 /\ n + 1 \in Nat
      BY <1>1, <1>3, <1>5
    <2> QED
      BY <1>2, <1>3, <2>1
  <1>6. ((n + 1) % d) \in {0, r + 1}
    <2>1. r + 1 = d \/ r + 1 < d
      BY <1>1
    <2> QED
      BY <1>4, <1>5, <2>1
  <1>7. n < d => n % d = n
    <2>1. n = (d * 0) + n
      OBVIOUS
    <2> QED
      BY <1>2, <2>1
  <1>8. n = r + (q * d)
    BY <1>1, <1>3
  <1> QED
    BY <1>1, <1>6, <1>7, <1>8 DEF q, r

\* The slot of an index has its low bits, all that a walk looks at.
LEMMA SlotBits ==
  ASSUME NEW index \in Nat
  PROVE  /\ index % Capacity \in 0 .. Capacity - 1 /\ index % Capacity \in Nat
         /\ Halved(index % Capacity)[Depth] = 0
         /\ \A i \in Levels : Bit(index, i) = Bit(index % Capacity, i)
  <1> DEFINE low == index % Capacity
             high == index \div Capacity
  <1>1. low \in 0 .. Capacity - 1 /\ high \in Nat /\ index = low + high * Capacity
    BY CapacityType, Division
  <1>2. low \in Nat /\ low < TwoTo[Depth] /\ Depth \in 0 .. Depth
    BY <1>1, CapacityType, DepthFacts DEF Capacity
  <1> HIDE DEF low, high
  <1>3. Halved(low)[Depth] = 0
    BY <1>2, HalvedVanishes
  <1>4. ASSUME NEW i \in Levels PROVE Bit(index, i) = Bit(low, i)
    <2> DEFINE rest == high * TwoTo[Depth - (i + 1)]
    <2>1. Halved(index)[i] = Halved(low)[i] + high * TwoTo[Depth - i]
      BY <1>1, <1>2, HalvedSplit, DepthFacts, ZenonT(60) DEF Capacity
    <2>2. /\ Depth - (i + 1) \in Levels /\ (Depth - (i + 1)) + 1 = Depth - i
          /\ Depth - (i + 1) \in 0 .. Depth /\ i \in 0 .. Depth
      BY DepthFacts
    <2>3. TwoTo[Depth - i] = 2 * TwoTo[Depth - (i + 1)] /\ TwoTo[Depth - (i + 1)] \in Nat
      BY <2>2, TwoToRecursion, TwoToType
    <2>4. high * TwoTo[Depth - i] = 2 * rest /\ rest \in Nat
      BY <1>1, <2>3
    <2>5. Halved(low)[i] \in Nat
      BY <1>2, <2>2, HalvedType
    <2> HIDE DEF rest
    <2> QED
      BY <2>1, <2>4, <2>5 DEF Bit
  <1> QED
    BY <1>1, <1>2, <1>3, <1>4 DEF low

\* The ancestors of the next slot: the same or the next one at each level.
LEMMA HalvedNext ==
  ASSUME NEW x \in Nat
  PROVE  \A i \in 0 .. Depth : Halved(x + 1)[i] \in {Halved(x)[i], Halved(x)[i] + 1}
  <1> DEFINE S == {n \in Nat : n <= Depth =>
                     Halved(x + 1)[n] \in {Halved(x)[n], Halved(x)[n] + 1}}
  <1>1. 0 \in S
    BY HalvedRecursion
  <1>2. ASSUME NEW n \in S PROVE n + 1 \in S
    <2>1. CASE n + 1 <= Depth
      <3>1. n \in Levels /\ Halved(x)[n] \in Nat
        BY <2>1, DepthFacts, HalvedType
      <3>2. /\ Halved(x)[n + 1] = Halved(x)[n] \div 2
            /\ Halved(x + 1)[n + 1] = Halved(x + 1)[n] \div 2
        BY <3>1, HalvedRecursion
      <3>3. Halved(x + 1)[n] \in {Halved(x)[n], Halved(x)[n] + 1}
        BY <2>1, DepthFacts
      <3>4. \A h \in Nat : (h + 1) \div 2 \in {h \div 2, (h \div 2) + 1}
        OBVIOUS
      <3>5. Halved(x + 1)[n + 1] \in {Halved(x)[n + 1], Halved(x)[n + 1] + 1}
        BY <3>1, <3>2, <3>3, <3>4
      <3> QED
        BY <3>5
    <2> QED
      BY <2>1
  <1> HIDE DEF S
  <1>3. S = Nat
    <2>1. S \in SUBSET Nat
      BY DEF S
    <2> QED
      BY <1>1, <1>2, <2>1, Induction
  <1> QED
    BY <1>3, DepthFacts DEF S

LEMMA ZeroHalves == \A i \in Levels : Halved(0)[i] = 0
  <1> DEFINE S == {n \in Nat : n <= Depth => Halved(0)[n] = 0}
  <1>1. 0 \in S
    BY HalvedRecursion
  <1>2. ASSUME NEW n \in S PROVE n + 1 \in S
    <2>1. CASE n + 1 <= Depth
      <3>1. n \in Levels /\ Halved(0)[n] = 0
        BY <2>1, DepthFacts
      <3> QED
        BY <3>1, HalvedRecursion
    <2> QED
      BY <2>1
  <1> HIDE DEF S
  <1>3. S = Nat
    <2>1. S \in SUBSET Nat
      BY DEF S
    <2> QED
      BY <1>1, <1>2, <2>1, Induction
  <1> QED
    BY <1>3, DepthFacts DEF S

-----------------------------------------------------------------------------
(* The whole tree over given leaves.                                       *)

\* The parents of a level of the tree, which goes on with empty subtrees.
Parents(level) == [k \in Nat |-> Hash(level[2 * k], level[2 * k + 1])]

\* The leaves of the slots, and empty leaves after them.
Padded(tree) == [k \in Nat |-> IF k < Capacity THEN tree[k] ELSE Zero]

\* Subtree(tree)[i][k] is the root of the k-th subtree of height i.
Subtree(tree) ==
    LET sub[i \in 0 .. Depth] == IF i = 0 THEN Padded(tree) ELSE Parents(sub[i - 1])
    IN  sub

\* The subtrees, one level after the other.
LEMMA SubtreeRecursion ==
  ASSUME NEW tree
  PROVE  /\ Subtree(tree)[0] = Padded(tree)
         /\ \A i \in Levels : Subtree(tree)[i + 1] = Parents(Subtree(tree)[i])
  <1> DEFINE Body(f, n) == [i \in 0 .. n |-> IF i = 0 THEN Padded(tree)
                                  ELSE Parents(f[i - 1])]
             S == {n \in Nat : \E f : f = Body(f, n)}
  <1>1. 0 \in S
    <2> DEFINE g == [i \in 0 .. 0 |-> Padded(tree)]
    <2>1. g = Body(g, 0)
      OBVIOUS
    <2> QED
      BY <2>1
  <1>2. ASSUME NEW n \in S PROVE n + 1 \in S
    <2>1. PICK f : f = Body(f, n)
      OBVIOUS
    <2>2. n \in Nat /\ \A i \in 0 .. n + 1 : i # 0 => i - 1 \in 0 .. n
      OBVIOUS
    <2>3. \A i \in 0 .. n : f[i] = IF i = 0 THEN Padded(tree)
                                 ELSE Parents(f[i - 1])
      BY <2>1
    <2> HIDE DEF S, Body
    <2> DEFINE g == [i \in 0 .. n + 1 |->
                       IF i = n + 1 THEN Parents(f[n]) ELSE f[i]]
    <2>4. /\ DOMAIN g = 0 .. n + 1 /\ g = [i \in 0 .. n + 1 |-> g[i]]
          /\ g[n + 1] = Parents(f[n])
          /\ \A i \in 0 .. n : g[i] = f[i]
      BY <2>2
    <2> HIDE DEF g
    <2>5. ASSUME NEW i \in 0 .. n + 1
          PROVE  g[i] = IF i = 0 THEN Padded(tree)
                        ELSE Parents(g[i - 1])
      <3>1. CASE i = n + 1
        <4>1. i # 0 /\ i - 1 = n /\ n \in 0 .. n
          BY <2>2, <3>1
        <4>2. g[n] = f[n]
          BY <2>4, <4>1
        <4> QED
          BY <2>4, <3>1, <4>1, <4>2
      <3>2. CASE i \in 0 .. n
        <4>1. i = 0 \/ i - 1 \in 0 .. n
          BY <2>2, <3>2
        <4>2. i # 0 => g[i - 1] = f[i - 1]
          BY <2>4, <4>1
        <4> QED
          BY <2>4, <2>3, <3>2, <4>2
      <3> QED
        BY <2>2, <3>1, <3>2
    <2>6. g = Body(g, n + 1)
      BY <2>4, <2>5 DEF Body
    <2> QED
      BY <2>2, <2>6 DEF S
  <1> HIDE DEF S
  <1>3. S = Nat
    <2>1. S \in SUBSET Nat
      BY DEF S
    <2> QED
      BY <1>1, <1>2, <2>1, Induction
  <1>4. Depth \in Nat
    BY DepthAssumption
  <1>5. \E f : f = [i \in 0 .. Depth |-> IF i = 0 THEN Padded(tree)
                                  ELSE Parents(f[i - 1])]
    BY <1>3, <1>4 DEF S
  <1> DEFINE it == Subtree(tree)
  <1>6. it = [i \in 0 .. Depth |-> IF i = 0 THEN Padded(tree)
                                  ELSE Parents(it[i - 1])]
    BY <1>5 DEF Subtree
  <1>7. 0 \in 0 .. Depth /\ \A i \in 0 .. Depth - 1 :
               i + 1 \in 0 .. Depth /\ i + 1 # 0 /\ (i + 1) - 1 = i
    BY <1>4
  <1> HIDE DEF it
  <1>8. it[0] = Padded(tree) /\ \A i \in 0 .. Depth - 1 : it[i + 1] = Parents(it[i])
    BY <1>6, <1>7
  <1> QED
    BY <1>8 DEF it, Levels

\* A walk at one level: a left child is hashed with an empty subtree.
LEMMA WalkRecursion ==
  ASSUME NEW filled, NEW index, NEW leaf
  PROVE  LET node == Walk(filled, index, leaf) IN
         /\ node[0] = leaf
         /\ \A i \in Levels : node[i + 1] = IF Bit(index, i) = 0
                                              THEN Hash(node[i], zeros[i])
                                              ELSE Hash(filled[i], node[i])
  <1> DEFINE bits == [i \in Levels |-> Bit(index, i)]
             siblings == [i \in Levels |-> IF bits[i] = 0 THEN zeros[i] ELSE filled[i]]
             node == Climb(leaf, bits, siblings)
  <1>1. Walk(filled, index, leaf) = node
    BY DEF Walk
  <1>2. \A i \in Levels : bits[i] = Bit(index, i)
    OBVIOUS
  <1>3. \A i \in Levels : siblings[i] = IF bits[i] = 0 THEN zeros[i] ELSE filled[i]
    OBVIOUS
  <1> HIDE DEF bits, siblings
  <1>4. /\ node[0] = leaf
        /\ \A i \in Levels : node[i + 1] = IF bits[i] = 0 THEN Hash(node[i], siblings[i])
                                                        ELSE Hash(siblings[i], node[i])
    BY ClimbRecursion
  <1> HIDE DEF node
  <1> QED
    BY <1>1, <1>2, <1>3, <1>4

\* A subtree is the pair of the two below it.
LEMMA SubtreeStep ==
  ASSUME NEW tree, NEW i \in Levels, NEW k \in Nat
  PROVE  Subtree(tree)[i + 1][k] = Hash(Subtree(tree)[i][2 * k], Subtree(tree)[i][2 * k + 1])
  <1>1. Subtree(tree)[i + 1] = Parents(Subtree(tree)[i])
    BY SubtreeRecursion
  <1>2. \A level : Parents(level)[k] = Hash(level[2 * k], level[2 * k + 1])
    BY DEF Parents
  <1> QED
    BY <1>1, <1>2

\* The subtrees of height 0 are the leaves.
LEMMA SubtreeLeaves ==
  ASSUME NEW tree, NEW k \in Nat
  PROVE  Subtree(tree)[0][k] = IF k < Capacity THEN tree[k] ELSE Zero
  <1>1. Subtree(tree)[0] = Padded(tree)
    BY SubtreeRecursion
  <1> QED
    BY <1>1 DEF Padded

\* The siblings that are cached on the left of the path of index n are the tree's.
CachedLeft(cached, tree, n) ==
    \A i \in Levels : Bit(n, i) = 1 =>
      cached[i] = Subtree(tree)[i][Halved(n % Capacity)[i] - 1]

\* `node` holds the subtrees above the leaf inserted at index n.
Inserts(tree, n, leaf, node) ==
    LET new == Log!InsertLeaf(tree, n, leaf)
        at == Halved(n % Capacity) IN
    \A i \in 0 .. Depth : \A k \in Nat :
      /\ k < at[i] => Subtree(new)[i][k] = Subtree(tree)[i][k]
      /\ k = at[i] => Subtree(new)[i][k] = node[i]
      /\ k > at[i] => Subtree(new)[i][k] = zeros[i]

(***************************************************************************)
(* merkle::insert at index n: the subtrees left of the new leaf stay, the  *)
(* walk computes those above it, and all that is right of it is empty.  The*)
(* frontier need only be right where the walk is at a right child.         *)
(***************************************************************************)
LEMMA InsertedSubtrees ==
  ASSUME NEW n \in Nat, NEW tree, NEW leaf, NEW filled, CachedLeft(filled, tree, n)
  PROVE  Inserts(tree, n, leaf, Walk(filled, n, leaf))
  <1> DEFINE new == Log!InsertLeaf(tree, n, leaf)
             node == Walk(filled, n, leaf)
             slot == n % Capacity
             at == Halved(slot)
             Level(i) == \A k \in Nat :
               /\ k < at[i] => Subtree(new)[i][k] = Subtree(tree)[i][k]
               /\ k = at[i] => Subtree(new)[i][k] = node[i]
               /\ k > at[i] => Subtree(new)[i][k] = zeros[i]
             S == {j \in Nat : j <= Depth => Level(j)}
  <1>1. /\ slot \in 0 .. Capacity - 1 /\ slot \in Nat
        /\ \A i \in Levels : Bit(n, i) = Bit(slot, i)
    BY SlotBits
  <1>2. new = [s \in 0 .. Capacity - 1 |-> IF s < slot THEN tree[s]
                                           ELSE IF s = slot THEN leaf ELSE Zero]
    BY DEF Log!InsertLeaf, Log!Slots, Log!Slot
  <1>3. /\ node[0] = leaf
        /\ \A i \in Levels : node[i + 1] = IF Bit(n, i) = 0 THEN Hash(node[i], zeros[i])
                                                        ELSE Hash(filled[i], node[i])
    BY WalkRecursion
  <1>4. \A i \in Levels : Bit(n, i) = 1 => filled[i] = Subtree(tree)[i][at[i] - 1]
    BY DEF CachedLeft
  <1>5. \A i \in 0 .. Depth : at[i] \in Nat
    BY <1>1, HalvedType
  <1>6. \A i \in Levels : at[i] = 2 * at[i + 1] + Bit(n, i) /\ Bit(n, i) \in {0, 1}
    BY <1>1, HalvedStep
  <1>7. at[0] = slot
    BY HalvedRecursion
  <1> HIDE DEF new, node, slot, at
  <1>8. 0 \in S
    <2>1. ASSUME NEW k \in Nat
          PROVE  /\ k < at[0] => Subtree(new)[0][k] = Subtree(tree)[0][k]
                 /\ k = at[0] => Subtree(new)[0][k] = node[0]
                 /\ k > at[0] => Subtree(new)[0][k] = zeros[0]
      <3>1. /\ Subtree(new)[0][k] = IF k < Capacity THEN new[k] ELSE Zero
            /\ Subtree(tree)[0][k] = IF k < Capacity THEN tree[k] ELSE Zero
        BY SubtreeLeaves
      <3>2. k < Capacity => k \in 0 .. Capacity - 1
        BY CapacityType
      <3>3. k < Capacity => new[k] = IF k < slot THEN tree[k]
                                     ELSE IF k = slot THEN leaf ELSE Zero
        BY <1>2, <3>2
      <3>4. k >= Capacity => k > slot
        BY <1>1, CapacityType
      <3>5. zeros[0] = Zero
        BY ZerosRecursion
      <3> QED
        BY <1>1, <1>3, <1>7, <3>1, <3>3, <3>4, <3>5, CapacityType
    <2> QED
      BY <2>1
  <1>9. ASSUME NEW j \in S PROVE j + 1 \in S
    <2>1. CASE j + 1 <= Depth
      <3>1. j \in Levels /\ j \in 0 .. Depth /\ j + 1 \in 0 .. Depth
        BY <2>1, DepthFacts
      <3>2. Level(j)
        BY <2>1, DepthFacts
      <3>3. /\ at[j] \in Nat /\ at[j + 1] \in Nat
            /\ at[j] = 2 * at[j + 1] + Bit(n, j) /\ Bit(n, j) \in {0, 1}
        BY <1>5, <1>6, <3>1
      <3> HIDE DEF S
      <3>4. ASSUME NEW k \in Nat
            PROVE  /\ k < at[j + 1] => Subtree(new)[j + 1][k] = Subtree(tree)[j + 1][k]
                   /\ k = at[j + 1] => Subtree(new)[j + 1][k] = node[j + 1]
                   /\ k > at[j + 1] => Subtree(new)[j + 1][k] = zeros[j + 1]
        <4>1. /\ Subtree(new)[j + 1][k]
                   = Hash(Subtree(new)[j][2 * k], Subtree(new)[j][2 * k + 1])
              /\ Subtree(tree)[j + 1][k]
                   = Hash(Subtree(tree)[j][2 * k], Subtree(tree)[j][2 * k + 1])
          BY <3>1, SubtreeStep
        <4>2. 2 * k \in Nat /\ 2 * k + 1 \in Nat
          OBVIOUS
        <4>3. CASE k < at[j + 1]
          <5>1. 2 * k < at[j] /\ 2 * k + 1 < at[j]
            BY <3>3, <4>3
          <5>2. /\ Subtree(new)[j][2 * k] = Subtree(tree)[j][2 * k]
                /\ Subtree(new)[j][2 * k + 1] = Subtree(tree)[j][2 * k + 1]
            BY <3>2, <4>2, <5>1
          <5> QED
            BY <3>3, <4>1, <4>3, <5>2
        <4>4. CASE k > at[j + 1]
          <5>1. 2 * k > at[j] /\ 2 * k + 1 > at[j]
            BY <3>3, <4>4
          <5>2. /\ Subtree(new)[j][2 * k] = zeros[j]
                /\ Subtree(new)[j][2 * k + 1] = zeros[j]
            BY <3>2, <4>2, <5>1
          <5>3. zeros[j + 1] = Hash(zeros[j], zeros[j])
            BY <3>1, ZerosRecursion
          <5> QED
            BY <3>3, <4>1, <4>4, <5>2, <5>3
        <4>5. CASE k = at[j + 1] /\ Bit(n, j) = 0
          <5>1. 2 * k = at[j] /\ 2 * k + 1 > at[j]
            BY <3>3, <4>5
          <5>2. /\ Subtree(new)[j][2 * k] = node[j]
                /\ Subtree(new)[j][2 * k + 1] = zeros[j]
            BY <3>2, <4>2, <5>1
          <5>3. node[j + 1] = Hash(node[j], zeros[j])
            BY <1>3, <3>1, <4>5
          <5> QED
            BY <3>3, <4>1, <4>5, <5>2, <5>3
        <4>6. CASE k = at[j + 1] /\ Bit(n, j) = 1
          <5>1. 2 * k < at[j] /\ 2 * k = at[j] - 1 /\ 2 * k + 1 = at[j]
            BY <3>3, <4>6
          <5>2. /\ Subtree(new)[j][2 * k] = Subtree(tree)[j][2 * k]
                /\ Subtree(new)[j][2 * k + 1] = node[j]
            BY <3>2, <4>2, <5>1
          <5>3. filled[j] = Subtree(tree)[j][2 * k]
            BY <1>4, <3>1, <4>6, <5>1
          <5>4. node[j + 1] = Hash(filled[j], node[j])
            BY <1>3, <3>1, <4>6
          <5> QED
            BY <3>3, <4>1, <4>6, <5>2, <5>3, <5>4
        <4> QED
          BY <3>3, <4>3, <4>4, <4>5, <4>6
      <3> QED
        BY <3>1, <3>4 DEF S
    <2> QED
      BY <2>1
  <1> HIDE DEF S, Level
  <1>10. S = Nat
    <2>1. S \in SUBSET Nat
      BY DEF S
    <2> QED
      BY <1>8, <1>9, <2>1, Induction
  <1>11. \A i \in 0 .. Depth : Level(i)
    BY <1>10, DepthFacts DEF S
  <1> QED
    BY <1>11 DEF Level, new, node, slot, at, Inserts

\* The subtrees of a tree without leaves.
LEMMA EmptySubtrees ==
  \A i \in 0 .. Depth : \A k \in Nat : Subtree(Log!EmptyTree)[i][k] = zeros[i]
  <1> DEFINE tree == Log!EmptyTree
             S == {j \in Nat : j <= Depth => \A k \in Nat : Subtree(tree)[j][k] = zeros[j]}
  <1>1. 0 \in S
    <2>1. ASSUME NEW k \in Nat PROVE Subtree(tree)[0][k] = zeros[0]
      <3>1. k < Capacity => tree[k] = Zero
        BY CapacityType DEF Log!EmptyTree, Log!Slots
      <3> HIDE DEF tree
      <3> QED
        BY <3>1, SubtreeLeaves, ZerosRecursion
    <2> QED
      BY <2>1
  <1> HIDE DEF tree
  <1>2. ASSUME NEW j \in S PROVE j + 1 \in S
    <2>1. CASE j + 1 <= Depth
      <3>1. j \in Levels /\ \A k \in Nat : Subtree(tree)[j][k] = zeros[j]
        BY <2>1, DepthFacts
      <3>2. zeros[j + 1] = Hash(zeros[j], zeros[j])
        BY <3>1, ZerosRecursion
      <3>3. ASSUME NEW k \in Nat PROVE Subtree(tree)[j + 1][k] = zeros[j + 1]
        <4>1. 2 * k \in Nat /\ 2 * k + 1 \in Nat
          OBVIOUS
        <4> QED
          BY <3>1, <3>2, <4>1, SubtreeStep
      <3> QED
        BY <3>3
    <2> QED
      BY <2>1
  <1> HIDE DEF S
  <1>3. S = Nat
    <2>1. S \in SUBSET Nat
      BY DEF S
    <2> QED
      BY <1>1, <1>2, <2>1, Induction
  <1> QED
    BY <1>3, DepthFacts DEF S, tree

\* The bits of a slot lead from the root down to its leaf.
LEMMA SlotLeafOfTree ==
  ASSUME NEW tree, NEW slot \in 0 .. Capacity - 1
  PROVE  SlotLeaf(Subtree(tree)[Depth][0], slot) = tree[slot]
  <1>1. PICK node :
           /\ SlotLeaf(Subtree(tree)[Depth][0], slot) = node[Depth]
           /\ node[0] = Subtree(tree)[Depth][0]
           /\ \A i \in Levels : node[i + 1] = node[i][Bit(slot, Depth - (i + 1)) + 1]
    BY SlotLeafRecursion
  <1> DEFINE at == Halved(slot)
             S == {j \in Nat : j <= Depth =>
                     node[j] = Subtree(tree)[Depth - j][at[Depth - j]]}
  <1>2. slot \in Nat /\ slot < Capacity
    BY CapacityType
  <1>3. at[Depth] = 0
    BY <1>2, HalvedVanishes, DepthFacts DEF Capacity
  <1>4. 0 \in S
    BY <1>1, <1>3, DepthFacts
  <1>5. ASSUME NEW j \in S PROVE j + 1 \in S
    <2>1. CASE j + 1 <= Depth
      <3> DEFINE i == Depth - (j + 1)
      <3>1. /\ j \in Levels /\ i \in Levels /\ i + 1 = Depth - j
            /\ i \in 0 .. Depth /\ i + 1 \in 0 .. Depth
        BY <2>1, DepthFacts
      <3>2. node[j] = Subtree(tree)[i + 1][at[i + 1]]
        BY <2>1, <3>1, DepthFacts
      <3>3. node[j + 1] = node[j][Bit(slot, i) + 1]
        BY <1>1, <3>1
      <3> HIDE DEF i, at
      <3>4. /\ at[i] \in Nat /\ at[i + 1] \in Nat
            /\ at[i] = 2 * at[i + 1] + Bit(slot, i) /\ Bit(slot, i) \in {0, 1}
        BY <1>2, <3>1, HalvedType, HalvedStep DEF at
      <3>5. node[j] = <<Subtree(tree)[i][2 * at[i + 1]], Subtree(tree)[i][2 * at[i + 1] + 1]>>
        BY <3>1, <3>2, <3>4, SubtreeStep, ZenonT(60) DEF Hash
      <3>6. node[j + 1] = Subtree(tree)[i][at[i]]
        <4>1. CASE Bit(slot, i) = 0
          <5>1. at[i] = 2 * at[i + 1] /\ Bit(slot, i) + 1 = 1
            BY <3>4, <4>1
          <5> QED
            BY <3>3, <3>5, <5>1
        <4>2. CASE Bit(slot, i) = 1
          <5>1. at[i] = 2 * at[i + 1] + 1 /\ Bit(slot, i) + 1 = 2
            BY <3>4, <4>2
          <5> QED
            BY <3>3, <3>5, <5>1
        <4> QED
          BY <3>4, <4>1, <4>2
      <3> QED
        BY <3>6 DEF i
    <2> QED
      BY <2>1
  <1> HIDE DEF S
  <1>6. S = Nat
    <2>1. S \in SUBSET Nat
      BY DEF S
    <2> QED
      BY <1>4, <1>5, <2>1, Induction
  <1>7. node[Depth] = Subtree(tree)[0][at[0]]
    <2>1. Depth - Depth = 0
      BY DepthFacts
    <2> QED
      BY <1>6, <2>1, DepthFacts DEF S
  <1>8. at[0] = slot
    BY HalvedRecursion
  <1> QED
    BY <1>1, <1>2, <1>7, <1>8, SubtreeLeaves

LEMMA ContentsOfTree ==
  ASSUME NEW tree, tree = [s \in 0 .. Capacity - 1 |-> tree[s]]
  PROVE  Contents(Subtree(tree)[Depth][0]) = tree
  <1>1. \A s \in 0 .. Capacity - 1 : SlotLeaf(Subtree(tree)[Depth][0], s) = tree[s]
    BY SlotLeafOfTree
  <1>2. Contents(Subtree(tree)[Depth][0]) = [s \in 0 .. Capacity - 1 |-> tree[s]]
    BY <1>1 DEF Contents
  <1> QED
    BY <1>2

-----------------------------------------------------------------------------
(* The contract implements the log.                                        *)

\* The cached siblings of the path of the next leaf, and the root, are those
\* of the contents.
FrontierOK(cached, r, n) ==
    r = Subtree(Contents(r))[Depth][0] /\ CachedLeft(cached, Contents(r), n)

FrontierInv == nextIndex \in Nat /\ FrontierOK(frontier, root, nextIndex)

LEMMA FrontierInit ==
  ASSUME Init
  PROVE  FrontierInv /\ Contents(root) = Log!EmptyTree
  <1>1. root = zeros[Depth] /\ nextIndex = 0
    BY DEF Init
  <1>2. Log!EmptyTree = [s \in 0 .. Capacity - 1 |-> Log!EmptyTree[s]]
    BY DEF Log!EmptyTree, Log!Slots
  <1>3. root = Subtree(Log!EmptyTree)[Depth][0]
    BY <1>1, EmptySubtrees, DepthFacts
  <1>4. Contents(root) = Log!EmptyTree
    BY <1>2, <1>3, ContentsOfTree
  <1>5. \A i \in Levels : Bit(0, i) = 0
    BY ZeroHalves DEF Bit
  <1> QED
    BY <1>1, <1>3, <1>4, <1>5 DEF FrontierInv, FrontierOK, CachedLeft

\* One insertion, in a tree that may have gone round its slots before.
LEMMA FrontierStep ==
  ASSUME NEW n \in Nat, NEW r, NEW cached, NEW leaf, FrontierOK(cached, r, n)
  PROVE  LET node == Walk(cached, n, leaf) IN
         /\ Contents(node[Depth]) = Log!InsertLeaf(Contents(r), n, leaf)
         /\ FrontierOK(Refill(cached, n, node), node[Depth], n + 1)
  <1> DEFINE node == Walk(cached, n, leaf)
             tree == Contents(r)
             new == Log!InsertLeaf(tree, n, leaf)
             slot == n % Capacity
             at == Halved(slot)
             next == Halved((n + 1) % Capacity)
             refilled == Refill(cached, n, node)
  <1>1. \A i \in 0 .. Depth : \A k \in Nat :
           /\ k < at[i] => Subtree(new)[i][k] = Subtree(tree)[i][k]
           /\ k = at[i] => Subtree(new)[i][k] = node[i]
    <2>1. Inserts(Contents(r), n, leaf, Walk(cached, n, leaf))
      BY InsertedSubtrees DEF FrontierOK
    <2> QED
      BY <2>1 DEF Inserts
  <1>2. new = [s \in 0 .. Capacity - 1 |-> new[s]]
    BY DEF Log!InsertLeaf, Log!Slots
  <1>3. /\ slot \in Nat /\ at[Depth] = 0
        /\ \A i \in Levels : Bit(n, i) = Bit(slot, i)
    BY SlotBits
  <1>4. n + 1 \in Nat /\ (n + 1) % Capacity \in {0, slot + 1}
    BY CapacityType, Division
  <1>5. \A i \in Levels : Bit(n + 1, i) = Bit((n + 1) % Capacity, i)
    BY <1>4, SlotBits
  <1>6. \A i \in Levels : refilled[i] = IF Bit(n, i) = 0 THEN node[i] ELSE cached[i]
    BY DEF Refill
  <1>7. \A i \in Levels : Bit(n, i) = 1 => cached[i] = Subtree(tree)[i][at[i] - 1]
    BY DEF FrontierOK, CachedLeft
  <1>8. \A i \in Levels : at[i] \in Nat /\ Bit(slot, i) \in {0, 1}
                          /\ Bit(slot, i) = at[i] % 2
    BY <1>3, HalvedType, HalvedStep, DepthFacts DEF Bit
  <1>9. \A i \in Levels : Bit((n + 1) % Capacity, i) = next[i] % 2
    BY DEF Bit
  <1>10. \A i \in Levels : next[i] % 2 = 1 => next[i] \in {at[i], at[i] + 1}
    <2>1. CASE (n + 1) % Capacity = 0
      <3>1. \A i \in Levels : Halved(0)[i] = 0
        BY ZeroHalves
      <3> QED
        BY <2>1, <3>1
    <2>2. CASE (n + 1) % Capacity = slot + 1
      BY <1>3, <2>2, HalvedNext, DepthFacts
    <2> QED
      BY <1>4, <2>1, <2>2
  <1> HIDE DEF tree, new, node, slot, at, next, refilled
  <1>11. node[Depth] = Subtree(new)[Depth][0]
    BY <1>1, <1>3, DepthFacts
  <1>12. Contents(node[Depth]) = new
    BY <1>2, <1>11, ContentsOfTree
  <1>13. ASSUME NEW i \in Levels, Bit(n + 1, i) = 1
         PROVE  refilled[i] = Subtree(new)[i][next[i] - 1]
    <2>1. next[i] % 2 = 1 /\ next[i] \in {at[i], at[i] + 1}
      BY <1>5, <1>9, <1>10, <1>13
    <2>2. at[i] \in Nat /\ i \in 0 .. Depth
      BY <1>8, DepthFacts
    <2>3. CASE next[i] = at[i]
      <3>1. Bit(n, i) = 1 /\ at[i] - 1 \in Nat /\ at[i] - 1 < at[i]
        BY <1>3, <1>8, <2>1, <2>2, <2>3
      <3>2. refilled[i] = Subtree(tree)[i][at[i] - 1]
        BY <1>6, <1>7, <3>1
      <3> QED
        BY <1>1, <2>2, <2>3, <3>1, <3>2
    <2>4. CASE next[i] = at[i] + 1
      <3>1. at[i] % 2 = 0 /\ next[i] - 1 = at[i]
        BY <2>1, <2>2, <2>4
      <3>2. Bit(n, i) = 0
        BY <1>3, <1>8, <3>1
      <3> QED
        BY <1>1, <1>6, <2>2, <3>1, <3>2
    <2> QED
      BY <2>1, <2>3, <2>4
  <1>14. FrontierOK(refilled, node[Depth], n + 1)
    BY <1>11, <1>12, <1>13 DEF FrontierOK, CachedLeft, next
  <1> QED
    BY <1>12, <1>14 DEF node, new, tree, refilled

\* One step of the contract, seen as a step of the log.
LEMMA LogStep ==
  ASSUME FrontierInv, NEW leaf \in Leaf, Insert(leaf)
  PROVE  /\ FrontierInv'
         /\ Contents(root') = Log!InsertLeaf(Contents(root), nextIndex, leaf)
         /\ Log!AppendLeaf(leaf)
  <1> DEFINE node == Walk(frontier, nextIndex, leaf)
  <1>1. /\ frontier' = Refill(frontier, nextIndex, node)
        /\ root' = node[Depth]
        /\ nextIndex' = nextIndex + 1
        /\ knownRoots' = knownRoots \cup {root'}
    BY DEF Insert
  <1>2. nextIndex \in Nat /\ FrontierOK(frontier, root, nextIndex)
    BY DEF FrontierInv
  <1>3. /\ Contents(node[Depth]) = Log!InsertLeaf(Contents(root), nextIndex, leaf)
        /\ FrontierOK(Refill(frontier, nextIndex, node), node[Depth], nextIndex + 1)
    BY <1>2, FrontierStep
  <1> HIDE DEF node
  <1>4. FrontierInv'
    BY <1>1, <1>2, <1>3 DEF FrontierInv
  <1>5. Contents(root') = Log!InsertLeaf(Contents(root), nextIndex, leaf)
    BY <1>1, <1>3
  <1>6. {Contents(r) : r \in knownRoots'}
          = {Contents(r) : r \in knownRoots} \cup {Contents(root')}
    BY <1>1
  <1>7. Log!AppendLeaf(leaf)
    BY <1>1, <1>5, <1>6 DEF Log!AppendLeaf
  <1> QED
    BY <1>4, <1>5, <1>7

(***************************************************************************)
(* merkle.rs init and insert, for every depth and any number of            *)
(* insertions: what the roots stand for is the log of leaves, of which     *)
(* every state stays known, also when the slots are used again.            *)
(***************************************************************************)
THEOREM TreeImplementsLog == Spec => ImplementsLog
  <1>1. Init => FrontierInv /\ Log!Init
    <2> SUFFICES ASSUME Init PROVE FrontierInv /\ Log!Init
      OBVIOUS
    <2>1. knownRoots = {root} /\ nextIndex = 0
      BY DEF Init
    <2>2. {Contents(r) : r \in knownRoots} = {Contents(root)}
      BY <2>1
    <2> QED
      BY <2>1, <2>2, FrontierInit DEF Log!Init
  <1>2. FrontierInv /\ [Next]_merkleVars => FrontierInv' /\ [Log!Next]_(Log!logVars)
    <2> SUFFICES ASSUME FrontierInv, [Next]_merkleVars
                 PROVE  FrontierInv' /\ [Log!Next]_(Log!logVars)
      OBVIOUS
    <2>1. ASSUME NEW leaf \in Leaf, Insert(leaf)
          PROVE  FrontierInv' /\ Log!Next
      BY <2>1, LogStep DEF Log!Next
    <2>2. CASE UNCHANGED merkleVars
      <3>1. UNCHANGED <<frontier, root, nextIndex, knownRoots>>
        BY <2>2 DEF merkleVars
      <3>2. FrontierInv'
        BY <3>1 DEF FrontierInv
      <3>3. UNCHANGED Log!logVars
        BY <3>1 DEF Log!logVars, Contents, SlotLeaf
      <3> QED
        BY <3>2, <3>3
    <2> QED
      BY <2>1, <2>2 DEF Next
  <1> QED
    BY <1>1, <1>2, PTL DEF Spec, ImplementsLog, Log!Spec

-----------------------------------------------------------------------------
(* Paths.                                                                  *)

\* The index that bits add up to has these bits.
LEMMA IndexBits ==
  ASSUME NEW indices \in [Levels -> {0, 1}]
  PROVE  /\ PathIndicesToLeafIndex(indices) \in 0 .. Capacity - 1
         /\ \A i \in Levels : Bit(PathIndicesToLeafIndex(indices), i) = indices[i]
  <1>1. PICK sum : /\ PathIndicesToLeafIndex(indices) = sum[Depth]
                   /\ sum[0] = 0
                   /\ \A i \in Levels : sum[i + 1] = sum[i] + indices[i] * TwoTo[i]
    BY IndexRecursion
  <1> DEFINE S == {m \in Nat : m <= Depth =>
                     /\ sum[m] \in Nat /\ sum[m] < TwoTo[m]
                     /\ \A j \in 0 .. m - 1 : Bit(sum[m], j) = indices[j]}
  <1>2. 0 \in S
    BY <1>1, TwoToRecursion
  <1>3. ASSUME NEW m \in S PROVE m + 1 \in S
    <2>1. CASE m + 1 <= Depth
      <3> DEFINE b == indices[m]
      <3>1. /\ m \in Levels /\ m \in 0 .. Depth /\ m + 1 \in 0 .. Depth /\ m \in Nat
            /\ sum[m] \in Nat /\ sum[m] < TwoTo[m]
            /\ \A j \in 0 .. m - 1 : Bit(sum[m], j) = indices[j]
        BY <2>1, DepthFacts
      <3>2. b \in {0, 1} /\ b \in Nat /\ sum[m + 1] = sum[m] + b * TwoTo[m]
        BY <1>1, <3>1
      <3>3. TwoTo[m + 1] = 2 * TwoTo[m] /\ TwoTo[m] \in Nat
        BY <3>1, TwoToRecursion, TwoToType
      <3>4. \A j \in 0 .. m : Halved(sum[m + 1])[j] = Halved(sum[m])[j] + b * TwoTo[m - j]
        <4> HIDE DEF b
        <4>1. \A j \in 0 .. m :
                 Halved(sum[m] + b * TwoTo[m])[j] = Halved(sum[m])[j] + b * TwoTo[m - j]
          BY <3>1, <3>2, HalvedSplit
        <4> QED
          BY <3>2, <4>1
      <3> HIDE DEF b
      <3>5. sum[m + 1] \in Nat /\ sum[m + 1] < TwoTo[m + 1]
        BY <3>1, <3>2, <3>3
      <3>6. Bit(sum[m + 1], m) = b
        <4>1. Halved(sum[m])[m] = 0
          BY <3>1, HalvedVanishes
        <4>2. b * TwoTo[m - m] = b
          BY <3>1, <3>2, TwoToRecursion
        <4>3. Halved(sum[m + 1])[m] = b
          BY <3>1, <3>2, <3>4, <4>1, <4>2
        <4> QED
          BY <3>2, <4>3 DEF Bit
      <3>7. ASSUME NEW j \in 0 .. m - 1 PROVE Bit(sum[m + 1], j) = Bit(sum[m], j)
        <4>1. /\ j \in Levels /\ m - (j + 1) \in Levels /\ (m - (j + 1)) + 1 = m - j
              /\ j \in 0 .. m /\ j \in 0 .. Depth
          BY <3>1, DepthFacts
        <4>2. TwoTo[m - j] = 2 * TwoTo[m - (j + 1)] /\ TwoTo[m - (j + 1)] \in Nat
          BY <4>1, TwoToRecursion, TwoToType, DepthFacts
        <4>3. PICK rest \in Nat : b * TwoTo[m - j] = 2 * rest
          BY <3>2, <4>2
        <4>4. Halved(sum[m + 1])[j] = Halved(sum[m])[j] + 2 * rest
              /\ Halved(sum[m])[j] \in Nat
          BY <3>1, <3>4, <4>1, <4>3, HalvedType
        <4> QED
          BY <4>4 DEF Bit
      <3>8. ASSUME NEW j \in 0 .. (m + 1) - 1 PROVE Bit(sum[m + 1], j) = indices[j]
        <4>1. j = m \/ j \in 0 .. m - 1
          BY <3>1
        <4> QED
          BY <3>1, <3>6, <3>7, <4>1 DEF b
      <3> QED
        BY <3>1, <3>5, <3>8
    <2> QED
      BY <2>1
  <1> HIDE DEF S
  <1>4. S = Nat
    <2>1. S \in SUBSET Nat
      BY DEF S
    <2> QED
      BY <1>2, <1>3, <2>1, Induction
  <1>5. /\ sum[Depth] \in Nat /\ sum[Depth] < TwoTo[Depth]
        /\ \A j \in Levels : Bit(sum[Depth], j) = indices[j]
    BY <1>4, DepthFacts DEF S
  <1> QED
    BY <1>1, <1>5, CapacityType DEF Capacity

\* The bits of an index add up to it.
LEMMA BitsOfIndex ==
  ASSUME NEW index \in 0 .. Capacity - 1
  PROVE  PathIndicesToLeafIndex([i \in Levels |-> Bit(index, i)]) = index
  <1> DEFINE indices == [i \in Levels |-> Bit(index, i)]
  <1>1. PICK sum : /\ PathIndicesToLeafIndex(indices) = sum[Depth]
                   /\ sum[0] = 0
                   /\ \A i \in Levels : sum[i + 1] = sum[i] + indices[i] * TwoTo[i]
    BY IndexRecursion
  <1>2. index \in Nat /\ index < TwoTo[Depth] /\ Depth \in 0 .. Depth
    BY CapacityType, DepthFacts DEF Capacity
  <1>3. \A i \in Levels : indices[i] = Bit(index, i)
    OBVIOUS
  <1> HIDE DEF indices
  <1> DEFINE S == {m \in Nat : m <= Depth =>
                     /\ sum[m] \in Nat
                     /\ sum[m] + Halved(index)[m] * TwoTo[m] = index}
  <1>4. 0 \in S
    <2>1. Halved(index)[0] * TwoTo[0] = index
      BY <1>2, HalvedRecursion, TwoToRecursion
    <2> QED
      BY <1>1, <1>2, <2>1
  <1>5. ASSUME NEW m \in S PROVE m + 1 \in S
    <2>1. CASE m + 1 <= Depth
      <3> DEFINE b == Bit(index, m)
                 high == Halved(index)[m + 1]
                 p == TwoTo[m]
      <3>1. /\ m \in Levels /\ m + 1 \in 0 .. Depth /\ m \in 0 .. Depth
            /\ sum[m] \in Nat /\ sum[m] + Halved(index)[m] * p = index
        BY <2>1, DepthFacts
      <3>2. b \in {0, 1} /\ Halved(index)[m] = 2 * high + b /\ high \in Nat
        BY <1>2, <3>1, HalvedStep, HalvedType
      <3>3. sum[m + 1] = sum[m] + b * p /\ TwoTo[m + 1] = 2 * p /\ p \in Nat
        BY <1>1, <1>3, <3>1, TwoToRecursion, TwoToType
      <3> HIDE DEF b, high, p
      <3>4. (2 * high + b) * p = high * (2 * p) + b * p
        BY <3>2, <3>3
      <3>5. b * p \in Nat /\ high * (2 * p) \in Nat
        BY <3>2, <3>3
      <3>6. sum[m + 1] \in Nat /\ sum[m + 1] + high * TwoTo[m + 1] = index
        BY <1>2, <3>1, <3>2, <3>3, <3>4, <3>5
      <3> QED
        BY <3>6 DEF high
    <2> QED
      BY <2>1
  <1> HIDE DEF S
  <1>6. S = Nat
    <2>1. S \in SUBSET Nat
      BY DEF S
    <2> QED
      BY <1>4, <1>5, <2>1, Induction
  <1>7. sum[Depth] \in Nat /\ sum[Depth] + Halved(index)[Depth] * TwoTo[Depth] = index
    BY <1>6, DepthFacts DEF S
  <1>8. Halved(index)[Depth] = 0 /\ TwoTo[Depth] \in Nat
    BY <1>2, HalvedVanishes, TwoToType
  <1>9. sum[Depth] = index
    BY <1>7, <1>8
  <1> QED
    BY <1>1, <1>9 DEF indices

(***************************************************************************)
(* A path that leads from a leaf to a root, whatever its elements, names   *)
(* by its bits a slot in which the root holds this leaf.                   *)
(***************************************************************************)
LEMMA PathBindsSlot ==
  ASSUME NEW leaf, NEW elements, NEW indices \in [Levels -> {0, 1}]
  PROVE  SlotLeaf(PathRoot(leaf, [elements |-> elements, indices |-> indices]),
                  PathIndicesToLeafIndex(indices)) = leaf
  <1> DEFINE cur == Climb(leaf, indices, elements)
             slot == PathIndicesToLeafIndex(indices)
             r == PathRoot(leaf, [elements |-> elements, indices |-> indices])
  <1>1. r = cur[Depth]
    BY DEF PathRoot
  <1>2. /\ cur[0] = leaf
        /\ \A i \in Levels : cur[i + 1] = IF indices[i] = 0
                                            THEN Hash(cur[i], elements[i])
                                            ELSE Hash(elements[i], cur[i])
    BY ClimbRecursion
  <1>3. \A i \in Levels : Bit(slot, i) = indices[i] /\ indices[i] \in {0, 1}
    BY IndexBits
  <1>4. PICK node : /\ SlotLeaf(r, slot) = node[Depth]
                    /\ node[0] = r
                    /\ \A i \in Levels : node[i + 1] = node[i][Bit(slot, Depth - (i + 1)) + 1]
    BY SlotLeafRecursion
  <1> HIDE DEF cur, slot, r
  <1> DEFINE S == {j \in Nat : j <= Depth => node[j] = cur[Depth - j]}
  <1>5. 0 \in S
    BY <1>1, <1>4, DepthFacts
  <1>6. ASSUME NEW j \in S PROVE j + 1 \in S
    <2>1. CASE j + 1 <= Depth
      <3> DEFINE i == Depth - (j + 1)
      <3>1. j \in Levels /\ i \in Levels /\ i + 1 = Depth - j
        BY <2>1, DepthFacts
      <3>2. node[j] = cur[i + 1]
        BY <2>1, <3>1, DepthFacts
      <3>3. node[j + 1] = node[j][Bit(slot, i) + 1]
        BY <1>4, <3>1
      <3> HIDE DEF i
      <3>4. node[j + 1] = cur[i]
        <4>1. CASE indices[i] = 0
          <5>1. Bit(slot, i) = 0
            BY <1>3, <3>1, <4>1
          <5>2. cur[i + 1] = Hash(cur[i], elements[i])
            BY <1>2, <3>1, <4>1
          <5>3. node[j] = <<cur[i], elements[i]>>
            BY <3>2, <5>2 DEF Hash
          <5> QED
            BY <3>3, <5>1, <5>3
        <4>2. CASE indices[i] = 1
          <5>1. Bit(slot, i) = 1
            BY <1>3, <3>1, <4>2
          <5>2. cur[i + 1] = Hash(elements[i], cur[i])
            BY <1>2, <3>1, <4>2
          <5>3. node[j] = <<elements[i], cur[i]>>
            BY <3>2, <5>2 DEF Hash
          <5> QED
            BY <3>3, <5>1, <5>3
        <4> QED
          BY <1>3, <3>1, <4>1, <4>2
      <3> QED
        BY <3>4 DEF i
    <2> QED
      BY <2>1
  <1> HIDE DEF S
  <1>7. S = Nat
    <2>1. S \in SUBSET Nat
      BY DEF S
    <2> QED
      BY <1>5, <1>6, <2>1, Induction
  <1>8. node[Depth] = cur[0]
    <2>1. Depth - Depth = 0
      BY DepthFacts
    <2> QED
      BY <1>7, <2>1, DepthFacts DEF S
  <1> QED
    BY <1>2, <1>4, <1>8 DEF slot, r

(***************************************************************************)
(* circuits/lib/merkle.circom: a path, whatever its elements, proves only  *)
(* the leaf of the slot that its bits name, hence one nullifier for it.    *)
(***************************************************************************)
THEOREM InclusionAlwaysSound == Spec => []InclusionIsSound
  <1>1. InclusionIsSound
    <2> SUFFICES ASSUME NEW leaf \in Leaf, NEW indices \in [Levels -> {0, 1}],
                        NEW elements \in [Levels -> Nodes],
                        PathRoot(leaf, [elements |-> elements, indices |-> indices]) = root
                 PROVE  Contents(root)[PathIndicesToLeafIndex(indices)] = leaf
      BY DEF InclusionIsSound
    <2>1. SlotLeaf(root, PathIndicesToLeafIndex(indices)) = leaf
      BY PathBindsSlot
    <2>2. PathIndicesToLeafIndex(indices) \in 0 .. Capacity - 1
      BY IndexBits
    <2> QED
      BY <2>1, <2>2 DEF Contents
  <1> QED
    BY <1>1, PTL

-----------------------------------------------------------------------------
(* The client's copy of the tree.                                          *)

\* A function on 1 .. m is a sequence of length m.
LEMMA LengthOf ==
  ASSUME NEW m \in Nat, NEW f, DOMAIN f = 1 .. m, f = [j \in 1 .. m |-> f[j]]
  PROVE  Len(f) = m
  <1> DEFINE R == {f[j] : j \in 1 .. m}
  <1>1. f \in [1 .. m -> R]
    OBVIOUS
  <1>2. f \in Seq(R)
    BY <1>1, SeqDef
  <1>3. Len(f) \in Nat /\ 1 .. Len(f) = 1 .. m
    BY <1>2
  <1> QED
    BY <1>3

\* The leaves of a log that fits into the tree, in their slots.
FirstPass(log, tree) ==
    \A k \in 0 .. Capacity - 1 : tree[k] = IF k < Len(log) THEN log[k + 1] ELSE Zero

\* The levels that pathFor rebuilds are those of the tree, as far as they go.
LEMMA LevelNodesOfTree ==
  ASSUME NEW log, NEW tree, Len(log) \in 0 .. Capacity, FirstPass(log, tree)
  PROVE  \A i \in 0 .. Depth :
           LET level == LevelNodes(log)[i] IN
           /\ Len(level) \in Nat
           /\ \A k \in Nat : Subtree(tree)[i][k]
                               = IF k < Len(level) THEN level[k + 1] ELSE zeros[i]
  <1> DEFINE nodes == LevelNodes(log)
             Level(i) == /\ Len(nodes[i]) \in Nat
                         /\ \A k \in Nat : Subtree(tree)[i][k]
                               = IF k < Len(nodes[i]) THEN nodes[i][k + 1] ELSE zeros[i]
             S == {j \in Nat : j <= Depth => Level(j)}
  <1>1. nodes[0] = log /\ \A i \in Levels : nodes[i + 1] = NextLevel(nodes[i], i)
    BY LevelNodesRecursion
  <1> HIDE DEF nodes
  <1>2. 0 \in S
    <2>1. Len(log) \in Nat /\ Len(log) <= Capacity /\ zeros[0] = Zero
      BY CapacityType, ZerosRecursion
    <2>2. ASSUME NEW k \in Nat
          PROVE  Subtree(tree)[0][k] = IF k < Len(log) THEN log[k + 1] ELSE zeros[0]
      <3>1. Subtree(tree)[0][k] = IF k < Capacity THEN tree[k] ELSE Zero
        BY SubtreeLeaves
      <3>2. k < Capacity => tree[k] = IF k < Len(log) THEN log[k + 1] ELSE Zero
        BY CapacityType DEF FirstPass
      <3> QED
        BY <2>1, <3>1, <3>2, CapacityType
    <2> QED
      BY <1>1, <2>1, <2>2
  <1>3. ASSUME NEW j \in S PROVE j + 1 \in S
    <2>1. CASE j + 1 <= Depth
      <3> DEFINE below == nodes[j]
                 At(k) == IF k < Len(below) THEN below[k + 1] ELSE zeros[j]
                 m == (Len(below) + 1) \div 2
                 above == [k \in 1 .. m |-> Hash(At(2 * k - 2), At(2 * k - 1))]
      <3>1. j \in Levels /\ j \in Nat
        BY <2>1, DepthFacts
      <3>2. Level(j)
        BY <2>1, DepthFacts
      <3>3. nodes[j + 1] = above
        BY <1>1, <3>1 DEF NextLevel
      <3>4. Len(below) \in Nat /\ \A k \in Nat : Subtree(tree)[j][k] = At(k)
        BY <3>2
      <3>5. m \in Nat /\ \A k \in Nat : ~(k < m) => 2 * k >= Len(below)
                                                   /\ 2 * k + 1 >= Len(below)
        <4>1. \A x \in Nat : (x + 1) \div 2 \in Nat
          OBVIOUS
        <4>2. \A x, k \in Nat : ~(k < (x + 1) \div 2) => 2 * k >= x /\ 2 * k + 1 >= x
          OBVIOUS
        <4> QED
          BY <3>4, <4>1, <4>2
      <3>6. /\ DOMAIN above = 1 .. m /\ above = [k \in 1 .. m |-> above[k]]
            /\ \A k \in 1 .. m : above[k] = Hash(At(2 * k - 2), At(2 * k - 1))
        OBVIOUS
      <3> HIDE DEF above, m
      <3>7. Len(above) = m
        BY <3>5, <3>6, LengthOf
      <3>8. ASSUME NEW k \in Nat
            PROVE  Subtree(tree)[j + 1][k]
                     = IF k < m THEN above[k + 1] ELSE zeros[j + 1]
        <4>1. Subtree(tree)[j + 1][k] = Hash(At(2 * k), At(2 * k + 1))
          <5>1. 2 * k \in Nat /\ 2 * k + 1 \in Nat
            OBVIOUS
          <5>2. Subtree(tree)[j][2 * k] = At(2 * k)
                /\ Subtree(tree)[j][2 * k + 1] = At(2 * k + 1)
            BY <3>4, <5>1
          <5> HIDE DEF At, below
          <5> QED
            BY <3>1, <5>2, SubtreeStep, ZenonT(60)
        <4>2. CASE k < m
          <5>1. k + 1 \in 1 .. m /\ 2 * (k + 1) - 2 = 2 * k /\ 2 * (k + 1) - 1 = 2 * k + 1
            BY <3>5, <4>2
          <5>2. above[k + 1] = Hash(At(2 * (k + 1) - 2), At(2 * (k + 1) - 1))
            BY <3>6, <5>1
          <5> HIDE DEF At, below
          <5> QED
            BY <4>1, <4>2, <5>1, <5>2
        <4>3. CASE ~(k < m)
          <5>1. 2 * k >= Len(below) /\ 2 * k + 1 >= Len(below)
            BY <3>5, <4>3
          <5>2. At(2 * k) = zeros[j] /\ At(2 * k + 1) = zeros[j]
            BY <3>4, <5>1
          <5>3. zeros[j + 1] = Hash(zeros[j], zeros[j])
            BY <3>1, ZerosRecursion
          <5> HIDE DEF At, below
          <5> QED
            BY <4>1, <4>3, <5>2, <5>3
        <4> QED
          BY <4>2, <4>3
      <3>9. Level(j + 1)
        BY <3>3, <3>5, <3>7, <3>8
      <3> HIDE DEF Level
      <3> QED
        BY <3>1, <3>9
    <2> QED
      BY <2>1
  <1> HIDE DEF S, Level
  <1>4. S = Nat
    <2>1. S \in SUBSET Nat
      BY DEF S
    <2> QED
      BY <1>2, <1>3, <2>1, Induction
  <1>5. \A i \in 0 .. Depth : Level(i)
    BY <1>4, DepthFacts DEF S
  <1> QED
    BY <1>5 DEF Level, nodes

\* The path of a leaf leads to the root of the tree.
LEMMA PathLeadsToRoot ==
  ASSUME NEW log, NEW tree, Len(log) \in 0 .. Capacity, FirstPass(log, tree),
         NEW index \in 0 .. Len(log) - 1
  PROVE  /\ PathRoot(log[index + 1], PathFor(log, index)) = Subtree(tree)[Depth][0]
         /\ PathIndicesToLeafIndex(PathFor(log, index).indices) = index
  <1> DEFINE nodes == LevelNodes(log)
             at == Halved(index)
             Sibling(i) == IF at[i] % 2 = 1 THEN at[i] - 1 ELSE at[i] + 1
             elements == [i \in Levels |-> IF Sibling(i) < Len(nodes[i])
                                             THEN nodes[i][Sibling(i) + 1] ELSE zeros[i]]
             indices == [i \in Levels |-> Bit(index, i)]
             cur == Climb(log[index + 1], indices, elements)
  <1>1. PathFor(log, index) = [elements |-> elements, indices |-> indices]
    BY DEF PathFor
  <1>2. index \in 0 .. Capacity - 1 /\ index \in Nat /\ index < TwoTo[Depth]
        /\ index < Len(log)
    BY CapacityType DEF Capacity
  <1>3. PathIndicesToLeafIndex(indices) = index
    BY <1>2, BitsOfIndex
  <1>4. PathRoot(log[index + 1], PathFor(log, index)) = cur[Depth]
    BY <1>1 DEF PathRoot
  <1>5. /\ cur[0] = log[index + 1]
        /\ \A i \in Levels : cur[i + 1] = IF indices[i] = 0
                                            THEN Hash(cur[i], elements[i])
                                            ELSE Hash(elements[i], cur[i])
    BY ClimbRecursion
  <1>6. \A i \in Levels : indices[i] = Bit(index, i)
    OBVIOUS
  <1>7. \A i \in Levels : elements[i] = IF Sibling(i) < Len(nodes[i])
                                          THEN nodes[i][Sibling(i) + 1] ELSE zeros[i]
    OBVIOUS
  <1>8. \A i \in Levels : \A k \in Nat :
           Subtree(tree)[i][k] = IF k < Len(nodes[i]) THEN nodes[i][k + 1] ELSE zeros[i]
    BY LevelNodesOfTree, DepthFacts
  <1>9. at[Depth] = 0
    BY <1>2, HalvedVanishes, DepthFacts
  <1> HIDE DEF cur, elements, indices, nodes
  <1> DEFINE S == {j \in Nat : j <= Depth => cur[j] = Subtree(tree)[j][at[j]]}
  <1>10. 0 \in S
    <2>1. at[0] = index
      BY HalvedRecursion
    <2>2. tree[index] = log[index + 1]
      BY <1>2 DEF FirstPass
    <2>3. Subtree(tree)[0][index] = tree[index]
      BY <1>2, SubtreeLeaves DEF Capacity
    <2> QED
      BY <1>5, <2>1, <2>2, <2>3
  <1>11. ASSUME NEW j \in S PROVE j + 1 \in S
    <2>1. CASE j + 1 <= Depth
      <3>1. j \in Levels /\ j \in 0 .. Depth /\ j + 1 \in 0 .. Depth
        BY <2>1, DepthFacts
      <3>2. cur[j] = Subtree(tree)[j][at[j]]
        BY <2>1, DepthFacts
      <3>3. /\ at[j] \in Nat /\ at[j + 1] \in Nat
            /\ at[j] = 2 * at[j + 1] + Bit(index, j)
            /\ Bit(index, j) \in {0, 1} /\ Bit(index, j) = at[j] % 2
        BY <1>2, <3>1, HalvedType, HalvedStep DEF Bit
      <3>4. Sibling(j) \in Nat
        <4>1. \A x \in Nat : (IF x % 2 = 1 THEN x - 1 ELSE x + 1) \in Nat
          OBVIOUS
        <4>2. Sibling(j) = IF at[j] % 2 = 1 THEN at[j] - 1 ELSE at[j] + 1
          OBVIOUS
        <4> HIDE DEF Sibling
        <4> QED
          BY ONLY <3>3, <4>1, <4>2
      <3>5. elements[j] = Subtree(tree)[j][Sibling(j)]
        <4> HIDE DEF Sibling
        <4> QED
          BY <1>7, <1>8, <3>1, <3>4
      <3>6. Subtree(tree)[j + 1][at[j + 1]]
              = Hash(Subtree(tree)[j][2 * at[j + 1]], Subtree(tree)[j][2 * at[j + 1] + 1])
        BY <3>1, <3>3, SubtreeStep
      <3>7. CASE Bit(index, j) = 0
        <4>1. at[j] = 2 * at[j + 1] /\ Sibling(j) = 2 * at[j + 1] + 1
          BY <3>3, <3>7
        <4>2. cur[j + 1] = Hash(cur[j], elements[j])
          BY <1>5, <1>6, <3>1, <3>7
        <4> HIDE DEF at, Sibling
        <4> QED
          BY <3>2, <3>5, <3>6, <4>1, <4>2
      <3>8. CASE Bit(index, j) = 1
        <4>1. at[j] = 2 * at[j + 1] + 1 /\ Sibling(j) = 2 * at[j + 1]
          BY <3>3, <3>8
        <4>2. cur[j + 1] = Hash(elements[j], cur[j])
          BY <1>5, <1>6, <3>1, <3>8
        <4> HIDE DEF at, Sibling
        <4> QED
          BY <3>2, <3>5, <3>6, <4>1, <4>2
      <3> QED
        BY <3>3, <3>7, <3>8
    <2> QED
      BY <2>1
  <1> HIDE DEF S
  <1>12. S = Nat
    <2>1. S \in SUBSET Nat
      BY DEF S
    <2> QED
      BY <1>10, <1>11, <2>1, Induction
  <1>13. cur[Depth] = Subtree(tree)[Depth][0]
    BY <1>9, <1>12, DepthFacts DEF S
  <1> QED
    BY <1>1, <1>3, <1>4, <1>13

\* While the slots are filled for the first time, the contract holds the log.
LogInv ==
    /\ inserted \in Seq(Leaf) /\ nextIndex = Len(inserted)
    /\ nextIndex <= Capacity => FirstPass(inserted, Contents(root))

LEMMA LogInvStep ==
  ASSUME FrontierInv, LogInv, NEW leaf \in Leaf, Insert(leaf)
  PROVE  LogInv'
  <1>1. nextIndex' = nextIndex + 1 /\ inserted' = Append(inserted, leaf)
    BY DEF Insert
  <1>2. inserted \in Seq(Leaf) /\ nextIndex = Len(inserted) /\ nextIndex \in Nat
    BY DEF LogInv, FrontierInv
  <1>3. /\ inserted' \in Seq(Leaf) /\ Len(inserted') = nextIndex + 1
        /\ \A k \in 1 .. nextIndex : inserted'[k] = inserted[k]
        /\ inserted'[nextIndex + 1] = leaf
    BY <1>1, <1>2
  <1>4. Contents(root') = Log!InsertLeaf(Contents(root), nextIndex, leaf)
    BY LogStep
  <1>5. ASSUME nextIndex + 1 <= Capacity
        PROVE  FirstPass(inserted', Contents(root'))
    <2> DEFINE n == nextIndex
               tree == Contents(root)
               after == Contents(root')
    <2>1. n % Capacity = n
      BY <1>2, <1>5, CapacityType, Division
    <2>2. \A s \in 0 .. Capacity - 1 :
             after[s] = IF s < n THEN tree[s] ELSE IF s = n THEN leaf ELSE Zero
      BY <1>4, <2>1 DEF Log!InsertLeaf, Log!Slots, Log!Slot
    <2>3. \A s \in 0 .. Capacity - 1 :
             tree[s] = IF s < Len(inserted) THEN inserted[s + 1] ELSE Zero
      BY <1>2, <1>5, CapacityType DEF LogInv, FirstPass
    <2> HIDE DEF tree, after
    <2>4. ASSUME NEW s \in 0 .. Capacity - 1
          PROVE  after[s] = IF s < Len(inserted') THEN inserted'[s + 1] ELSE Zero
      <3>1. s \in Nat
        BY CapacityType
      <3>2. CASE s < n
        <4>1. after[s] = inserted[s + 1] /\ s + 1 \in 1 .. nextIndex
          BY <1>2, <2>2, <2>3, <3>1, <3>2
        <4> QED
          BY <1>2, <1>3, <3>1, <3>2, <4>1
      <3>3. CASE s = n
        BY <1>2, <1>3, <2>2, <3>1, <3>3
      <3>4. CASE s > n
        BY <1>2, <1>3, <2>2, <3>1, <3>4
      <3> QED
        BY <1>2, <3>1, <3>2, <3>3, <3>4
    <2> QED
      BY <2>4 DEF FirstPass, after
  <1> QED
    BY <1>1, <1>2, <1>3, <1>5 DEF LogInv

\* The invariants of contract and log.
LEMMA TreeInvariants == Spec => [](FrontierInv /\ LogInv)
  <1>1. Init => FrontierInv /\ LogInv
    <2> SUFFICES ASSUME Init PROVE FrontierInv /\ LogInv
      OBVIOUS
    <2>1. inserted = <<>> /\ nextIndex = 0
      BY DEF Init
    <2>2. FrontierInv /\ Contents(root) = Log!EmptyTree
      BY FrontierInit
    <2>3. \A k \in 0 .. Capacity - 1 : Contents(root)[k] = Zero /\ ~(k < 0)
      BY <2>2, CapacityType DEF Log!EmptyTree, Log!Slots
    <2>4. Len(inserted) = 0 /\ inserted \in Seq(Leaf)
      BY <2>1
    <2> QED
      BY <2>1, <2>2, <2>3, <2>4 DEF LogInv, FirstPass
  <1>2. FrontierInv /\ LogInv /\ [Next]_merkleVars => (FrontierInv /\ LogInv)'
    <2> SUFFICES ASSUME FrontierInv, LogInv, [Next]_merkleVars
                 PROVE  (FrontierInv /\ LogInv)'
      OBVIOUS
    <2>1. ASSUME NEW leaf \in Leaf, Insert(leaf)
          PROVE  FrontierInv' /\ LogInv'
      BY <2>1, LogStep, LogInvStep
    <2>2. CASE UNCHANGED merkleVars
      <3>1. UNCHANGED <<frontier, root, nextIndex, inserted>>
        BY <2>2 DEF merkleVars
      <3> QED
        BY <3>1 DEF FrontierInv, LogInv, Contents, SlotLeaf
    <2> QED
      BY <2>1, <2>2 DEF Next
  <1> QED
    BY <1>1, <1>2, PTL DEF Spec

(***************************************************************************)
(* cli/src/crypto.ts pathFor with circuits/lib/merkle.circom: as long as   *)
(* the leaves fit into the tree, a client that knows them all can prove    *)
(* each of them under the contract's root, at the index it was inserted at.*)
(***************************************************************************)
THEOREM PathsAlwaysAuthenticate == Spec => []ClientPathsAuthenticate
  <1>1. FrontierInv /\ LogInv => ClientPathsAuthenticate
    <2> SUFFICES ASSUME FrontierInv, LogInv, nextIndex <= Capacity,
                        NEW index \in 0 .. nextIndex - 1
                 PROVE  LET path == PathFor(inserted, index) IN
                        /\ PathRoot(inserted[index + 1], path) = root
                        /\ PathIndicesToLeafIndex(path.indices) = index
      BY DEF ClientPathsAuthenticate
    <2>1. /\ Len(inserted) \in 0 .. Capacity /\ index \in 0 .. Len(inserted) - 1
          /\ FirstPass(inserted, Contents(root))
      BY CapacityType DEF FrontierInv, LogInv
    <2>2. root = Subtree(Contents(root))[Depth][0]
      BY DEF FrontierInv, FrontierOK
    <2> QED
      BY <2>1, <2>2, PathLeadsToRoot
  <1> QED
    BY <1>1, TreeInvariants, PTL

\* A client that is told one leaf more inserts it into the tree it has.
LEMMA BuildTreeAppend ==
  ASSUME NEW log \in Seq(Leaf), NEW leaf \in Leaf
  PROVE  BuildTree(Append(log, leaf)) = ClientInsert(BuildTree(log), leaf)
  <1> DEFINE longer == Append(log, leaf)
             n == Len(log)
  <1>1. /\ n \in Nat /\ Len(longer) = n + 1 /\ longer[n + 1] = leaf
        /\ \A k \in 1 .. n : longer[k] = log[k]
    OBVIOUS
  <1>2. PICK old : /\ BuildTree(log) = old[n]
                   /\ old[0] = NewTree
                   /\ \A k \in 0 .. n - 1 : old[k + 1] = ClientInsert(old[k], log[k + 1])
    BY <1>1, BuildTreeRecursion
  <1>3. PICK new : /\ BuildTree(longer) = new[Len(longer)]
                   /\ new[0] = NewTree
                   /\ \A k \in 0 .. Len(longer) - 1 :
                        new[k + 1] = ClientInsert(new[k], longer[k + 1])
    <2>1. Len(longer) \in Nat
      BY <1>1
    <2> HIDE DEF longer
    <2> QED
      BY <2>1, BuildTreeRecursion
  <1> HIDE DEF longer, n
  <1> DEFINE S == {k \in Nat : k <= n => new[k] = old[k]}
  <1>4. 0 \in S
    BY <1>2, <1>3
  <1>5. ASSUME NEW k \in S PROVE k + 1 \in S
    <2>1. CASE k + 1 <= n
      <3>1. /\ k \in 0 .. n - 1 /\ k \in 0 .. Len(longer) - 1 /\ k + 1 \in 1 .. n
            /\ new[k] = old[k]
        BY <1>1, <2>1
      <3> QED
        BY <1>1, <1>2, <1>3, <3>1
    <2> QED
      BY <2>1
  <1> HIDE DEF S
  <1>6. S = Nat
    <2>1. S \in SUBSET Nat
      BY DEF S
    <2> QED
      BY <1>4, <1>5, <2>1, Induction
  <1>7. new[n] = old[n]
    BY <1>1, <1>6 DEF S
  <1>8. n \in 0 .. Len(longer) - 1
    BY <1>1
  <1>9. new[n + 1] = ClientInsert(new[n], leaf)
    BY <1>1, <1>3, <1>8
  <1> QED
    BY <1>1, <1>2, <1>3, <1>7, <1>9 DEF longer

\* The client has the contract's frontier and root, until its tree is full.
Mirrors(client, log, cached, r) ==
    /\ client = [leaves |-> client.leaves, filled |-> client.filled,
                 root |-> client.root, full |-> client.full]
    /\ client.full \in BOOLEAN
    /\ client.full <=> Len(log) > Capacity
    /\ ~client.full => client.leaves = log /\ client.filled = cached /\ client.root = r

ClientInv == Mirrors(BuildTree(inserted), inserted, frontier, root)

LEMMA MirrorsInsert ==
  ASSUME NEW client, NEW log \in Seq(Leaf), NEW cached, NEW r, NEW leaf \in Leaf,
         Mirrors(client, log, cached, r)
  PROVE  LET node == Walk(cached, Len(log), leaf) IN
         Mirrors(ClientInsert(client, leaf), Append(log, leaf),
                 Refill(cached, Len(log), node), node[Depth])
  <1> DEFINE n == Len(log)
             node == Walk(cached, n, leaf)
             after == ClientInsert(client, leaf)
  <1>1. n \in Nat /\ Len(Append(log, leaf)) = n + 1
    OBVIOUS
  <1>2. /\ client = [leaves |-> client.leaves, filled |-> client.filled,
                     root |-> client.root, full |-> client.full]
        /\ client.full \in BOOLEAN
        /\ client.full <=> n > Capacity
        /\ ~client.full => client.leaves = log /\ client.filled = cached
    BY DEF Mirrors
  <1>3. CASE n >= Capacity
    <2>1. client.full \/ Len(client.leaves) >= TwoTo[Depth]
      BY <1>1, <1>2, <1>3, CapacityType DEF Capacity
    <2>2. after = [client EXCEPT !.full = TRUE]
      BY <2>1 DEF ClientInsert
    <2>3. after = [leaves |-> client.leaves, filled |-> client.filled,
                   root |-> client.root, full |-> TRUE]
      BY <1>2, <2>2
    <2> HIDE DEF after, node
    <2>4. n + 1 > Capacity
      BY <1>1, <1>3, CapacityType
    <2>5. Mirrors(after, Append(log, leaf), Refill(cached, n, node), node[Depth])
      BY <1>1, <2>3, <2>4 DEF Mirrors
    <2> QED
      BY <2>5 DEF after, node
  <1>4. CASE n < Capacity
    <2>1. ~client.full /\ client.leaves = log /\ client.filled = cached
      BY <1>1, <1>2, <1>4, CapacityType
    <2>2. ~(client.full \/ Len(client.leaves) >= TwoTo[Depth])
      BY <1>1, <1>4, <2>1, CapacityType DEF Capacity
    <2>3. after = [leaves |-> Append(log, leaf), filled |-> Refill(cached, n, node),
                   root |-> node[Depth], full |-> FALSE]
      BY <2>1, <2>2 DEF ClientInsert
    <2> HIDE DEF after, node
    <2>4. ~(n + 1 > Capacity)
      BY <1>1, <1>4, CapacityType
    <2>5. Mirrors(after, Append(log, leaf), Refill(cached, n, node), node[Depth])
      BY <1>1, <2>3, <2>4 DEF Mirrors
    <2> QED
      BY <2>5 DEF after, node
  <1> QED
    BY <1>1, <1>3, <1>4, CapacityType

(***************************************************************************)
(* cli/src/crypto.ts insert against merkle.rs insert: a client that is     *)
(* told every leaf has the contract's root, as long as its tree is not     *)
(* full, and it is full exactly when more leaves came than fit.            *)
(***************************************************************************)
THEOREM ClientAlwaysMirrors == Spec => []ClientMirrorsUpToCapacity
  <1>1. Init => ClientInv
    <2> SUFFICES ASSUME Init PROVE ClientInv
      OBVIOUS
    <2>1. /\ inserted = <<>> /\ frontier = [i \in Levels |-> zeros[i]]
          /\ root = zeros[Depth] /\ Len(inserted) = 0
      BY DEF Init
    <2>2. BuildTree(inserted) = [leaves |-> inserted, filled |-> frontier,
                                 root |-> root, full |-> FALSE]
      BY <2>1, BuildTreeRecursion DEF NewTree
    <2>3. ~(Len(inserted) > Capacity)
      BY <2>1, CapacityType
    <2> QED
      BY <2>2, <2>3 DEF ClientInv, Mirrors
  <1>2. LogInv /\ ClientInv /\ [Next]_merkleVars => ClientInv'
    <2> SUFFICES ASSUME LogInv, ClientInv, [Next]_merkleVars PROVE ClientInv'
      OBVIOUS
    <2>1. ASSUME NEW leaf \in Leaf, Insert(leaf) PROVE ClientInv'
      <3> DEFINE node == Walk(frontier, Len(inserted), leaf)
      <3>1. inserted \in Seq(Leaf) /\ nextIndex = Len(inserted)
        BY DEF LogInv
      <3>2. /\ frontier' = Refill(frontier, Len(inserted), node)
            /\ root' = node[Depth]
            /\ inserted' = Append(inserted, leaf)
        BY <2>1, <3>1 DEF Insert
      <3>3. BuildTree(inserted') = ClientInsert(BuildTree(inserted), leaf)
        BY <3>1, <3>2, BuildTreeAppend
      <3>4. Mirrors(ClientInsert(BuildTree(inserted), leaf), Append(inserted, leaf),
                    Refill(frontier, Len(inserted), node), node[Depth])
        BY <3>1, MirrorsInsert DEF ClientInv
      <3> QED
        BY <3>2, <3>3, <3>4 DEF ClientInv
    <2>2. CASE UNCHANGED merkleVars
      BY <2>2 DEF merkleVars, ClientInv
    <2> QED
      BY <2>1, <2>2 DEF Next
  <1>3. LogInv /\ ClientInv => ClientMirrorsUpToCapacity
    BY DEF LogInv, ClientInv, Mirrors, ClientMirrorsUpToCapacity
  <1> QED
    BY <1>1, <1>2, <1>3, TreeInvariants, PTL DEF Spec

=============================================================================

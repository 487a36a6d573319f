----------------------------- MODULE CartridgeProofs -----------------------------
(***************************************************************************)
(* Proofs about the cartridge header: that the checksum which              *)
(* write_complement arranges is the one that throw_if_complement_wrong and *)
(* the BIOS expect, for every header and every byte that may be set; and   *)
(* that the packers' layouts meet their own checks, for whatever code.     *)
(***************************************************************************)
EXTENDS CartridgeAssembler, Numbers, SequenceTheorems, TLAPS

(* What a loop over the area adds for byte k when it leaves out byte v.    *)
Term(v, k) == IF k = v THEN 0 ELSE area[k]

(* The first loop's sums follow from each other, up to where it is.        *)
Recurrence(n) ==
  /\ partial[0] = InitialSum
  /\ \A k \in Index : k < n => partial[k + 1] = (partial[k] + Term(variable, k)) % ByteSize

(* The second loop's sum differs from the first's by the byte that was set *)
(* and by the complement byte, once each has been passed.                  *)
Offset ==
  (IF variable < i THEN area[variable] ELSE 0)
    - (IF ComplementIndex < i THEN area[ComplementIndex] ELSE 0)

CInv ==
  /\ ChecksumTypeOK
  /\ pc = "write" => Recurrence(i) /\ partial[i] = sum
  /\ pc # "write" => /\ Recurrence(AreaSize)
                     /\ area[variable] = (-partial[AreaSize]) % ByteSize
  /\ pc = "check" => sum = (partial[i] + Offset) % ByteSize
  /\ pc # "thrown"

-----------------------------------------------------------------------------
(* Residues, with the modulus of a byte.                                   *)
LEMMA Residue ==
  ASSUME NEW n \in Int
  PROVE  n % ByteSize \in ByteRange
  BY DEF ByteSize, ByteRange

LEMMA ByteIsInteger ==
  \A b \in ByteRange : b \in Int
  BY DEF ByteSize, ByteRange

LEMMA ComplementMatches ==
  ASSUME NEW p \in ByteRange, NEW c \in ByteRange, NEW v \in ByteRange,
         v = (-p) % ByteSize
  PROVE  (-((p + v - c) % ByteSize)) % ByteSize = c
  BY DEF ByteSize, ByteRange

LEMMA ChecksumInit ==
  ASSUME area \in [Index -> ByteRange], variable \in VariableIndexes, pc = "write",
         i = 0, sum = InitialSum, partial = [k \in 0..AreaSize |-> InitialSum]
  PROVE  CInv
<1> USE ChecksumAssumption
<1>1. partial \in [0..AreaSize -> ByteRange] /\ partial[0] = InitialSum
  BY DEF ByteRange, ByteSize, InitialSum
<1>2. Recurrence(i)
  BY <1>1 DEF Recurrence, Index
<1> QED
  BY <1>1, <1>2 DEF CInv, ChecksumTypeOK, ByteRange, ByteSize, InitialSum

LEMMA ChecksumStep ==
  CInv /\ [Next]_checksumVars => CInv'
<1> SUFFICES ASSUME CInv, [Next]_checksumVars
             PROVE  CInv'
  OBVIOUS
<1> USE ChecksumAssumption
<1>0. /\ area \in [Index -> ByteRange]
      /\ variable \in Index
      /\ ComplementIndex \in Index
      /\ partial \in [0..AreaSize -> ByteRange]
      /\ AreaSize \in Nat
  BY DEF CInv, ChecksumTypeOK, Index
<1>1. CASE AddByte /\ pc = "write"
  <2>1. i \in Index /\ i + 1 \in 0..AreaSize /\ sum \in ByteRange
    BY <1>0, <1>1 DEF AddByte, CInv, ChecksumTypeOK, Index
  <2>2. /\ sum' = (partial[i] + Term(variable, i)) % ByteSize
        /\ partial' = [partial EXCEPT ![i + 1] = sum']
        /\ i' = i + 1
        /\ UNCHANGED <<pc, area, variable>>
    BY <1>1 DEF AddByte, CInv, Skipped, Term
  <2>3. sum' \in ByteRange
    <3>1. partial[i] \in Int /\ area[i] \in Int
      BY <1>0, <2>1, ByteIsInteger DEF Index
    <3>2. partial[i] + Term(variable, i) \in Int
      BY <3>1 DEF Term
    <3> QED BY <2>2, <3>2, Residue
  <2>4. Recurrence(i)'
    <3>1. \A k \in Index : k < i =>
            partial'[k + 1] = (partial'[k] + Term(variable, k)) % ByteSize
      BY <1>0, <1>1, <2>1, <2>2 DEF CInv, Recurrence, Index
    <3>2. partial'[i + 1] = (partial'[i] + Term(variable, i)) % ByteSize
      BY <1>0, <2>1, <2>2 DEF Index
    <3>3. partial'[0] = InitialSum
      BY <1>0, <1>1, <2>1, <2>2 DEF CInv, Recurrence, Index
    <3>4. ASSUME NEW k \in Index, k < i + 1
          PROVE  partial'[k + 1] = (partial'[k] + Term(variable, k)) % ByteSize
      BY <2>1, <3>1, <3>2, <3>4 DEF Index
    <3>5. \A k \in Index : Term(variable, k)' = Term(variable, k)
      BY <2>2 DEF Term
    <3> QED BY <2>2, <3>3, <3>4, <3>5 DEF Recurrence, Term
  <2>5. partial'[i + 1] = sum'
    BY <1>0, <2>1, <2>2
  <2> QED
    BY <1>0, <1>1, <2>1, <2>2, <2>3, <2>4, <2>5 DEF CInv, ChecksumTypeOK, Recurrence, Term
<1>2. CASE AddByte /\ pc = "check"
  <2>1. i \in Index /\ i + 1 \in 0..AreaSize /\ sum \in ByteRange
    BY <1>0, <1>2 DEF AddByte, CInv, ChecksumTypeOK, Index
  <2>2. /\ sum' = (sum + Term(ComplementIndex, i)) % ByteSize
        /\ i' = i + 1
        /\ UNCHANGED <<pc, area, variable, partial>>
    BY <1>2 DEF AddByte, Skipped, Term
  <2>3. sum' \in ByteRange
    <3>1. sum \in Int /\ area[i] \in Int
      BY <1>0, <2>1, ByteIsInteger
    <3>2. sum + Term(ComplementIndex, i) \in Int
      BY <3>1 DEF Term
    <3> QED BY <2>2, <3>2, Residue
  <2>4. sum' = (partial[i + 1] + Offset') % ByteSize
    <3> DEFINE v == IF i = variable THEN area[variable] ELSE 0
               c == IF i = ComplementIndex THEN area[ComplementIndex] ELSE 0
    <3>1. Offset' = Offset + v - c
      <4>1. /\ i \in Int /\ variable \in Int /\ ComplementIndex \in Int
            /\ area[variable] \in Int /\ area[ComplementIndex] \in Int
        <5>1. area[variable] \in ByteRange /\ area[ComplementIndex] \in ByteRange
          BY <1>0
        <5> QED BY <1>0, <2>1, <5>1, ByteIsInteger DEF Index
      <4>2. Offset' = (IF variable < i + 1 THEN area[variable] ELSE 0)
                        - (IF ComplementIndex < i + 1 THEN area[ComplementIndex] ELSE 0)
        BY <2>2 DEF Offset
      <4> QED BY <4>1, <4>2, SMT DEF Offset
    <3>2. Term(variable, i) + v = area[i] /\ Term(ComplementIndex, i) + c = area[i]
      BY <1>0, <2>1 DEF Term, ByteRange
    <3>3. /\ partial[i] \in Int /\ Offset \in Int /\ v \in Int /\ c \in Int
          /\ Term(variable, i) \in Int /\ Term(ComplementIndex, i) \in Int
      BY <1>0, <2>1 DEF Offset, Term, ByteRange, Index
    <3>4. partial[i + 1] = (partial[i] + Term(variable, i)) % ByteSize
      BY <1>2, <2>1 DEF CInv, Recurrence, Index
    <3>5. sum = (partial[i] + Offset) % ByteSize
      BY <1>2 DEF CInv
    <3> HIDE DEF v, c
    <3> QED BY <2>2, <3>1, <3>2, <3>3, <3>4, <3>5 DEF ByteSize
  <2> QED
    BY <1>0, <1>2, <2>1, <2>2, <2>3, <2>4
    DEF CInv, ChecksumTypeOK, Recurrence, Term
<1>3. CASE WriteComplement
  <2>1. /\ Complement \in ByteRange
        /\ Complement = (-partial[AreaSize]) % ByteSize
    <3>1. sum = partial[AreaSize] /\ -sum \in Int
      BY <1>0, <1>3 DEF WriteComplement, CInv, ChecksumTypeOK, ByteRange, ByteSize
    <3> QED BY <3>1, Residue DEF Complement
  <2>2. area' \in [Index -> ByteRange] /\ area'[variable] = Complement
    BY <1>0, <1>3, <2>1 DEF WriteComplement
  <2>3. Recurrence(AreaSize)'
    BY <1>0, <1>3 DEF WriteComplement, CInv, Recurrence, Term
  <2>4. (partial'[0] + Offset') % ByteSize = InitialSum
    BY <1>0, <1>3, <2>3 DEF WriteComplement, Recurrence, Offset, InitialSum, ByteSize, Index
  <2>5. ChecksumTypeOK'
    <3>1. 0 \in 0..AreaSize /\ InitialSum \in ByteRange
      BY <1>0 DEF ByteRange, ByteSize, InitialSum
    <3>2. /\ pc' = "check" /\ sum' = InitialSum /\ i' = 0
          /\ partial' = partial /\ variable' = variable
      BY <1>3 DEF WriteComplement
    <3> QED BY <1>0, <2>2, <3>1, <3>2 DEF CInv, ChecksumTypeOK
  <2>6. /\ pc' = "check" /\ sum' = InitialSum /\ i' = 0
        /\ partial' = partial /\ variable' = variable
    BY <1>3 DEF WriteComplement
  <2> QED
    BY <2>1, <2>2, <2>3, <2>4, <2>5, <2>6 DEF CInv
<1>4. CASE ThrowIfComplementWrong
  <2>1. sum = (partial[AreaSize] + area[variable] - area[ComplementIndex]) % ByteSize
    BY <1>0, <1>4 DEF ThrowIfComplementWrong, CInv, Offset, Index, ByteRange
  <2>2. area[ComplementIndex] = Complement
    BY <1>0, <1>4, <2>1, ComplementMatches DEF ThrowIfComplementWrong, CInv, Complement
  <2> QED
    BY <1>4, <2>2
    DEF ThrowIfComplementWrong, CInv, ChecksumTypeOK, Recurrence, Term
<1>5. CASE UNCHANGED checksumVars
  BY <1>5 DEF checksumVars, CInv, ChecksumTypeOK, Recurrence, Term, Offset
<1> QED
  BY <1>1, <1>2, <1>3, <1>4, <1>5 DEF Next, AddByte

(* The sum of the bytes adds them one by one.                              *)
LEMMA TotalAdds ==
  ASSUME area \in [Index -> ByteRange]
  PROVE  /\ Total \in [0..AreaSize -> Int]
         /\ Total[0] = 0
         /\ \A n \in Index : Total[n + 1] = Total[n] + area[n]
<1> USE ChecksumAssumption
<1> DEFINE Def(g) == [n \in 0..AreaSize |-> IF n = 0 THEN 0 ELSE g[n - 1] + area[n - 1]]
<1> DEFINE add == [p \in Nat \X Int |-> p[2] + (IF p[1] \in Index THEN area[p[1]] ELSE 0)]
<1>1. \A n \in Index : area[n] \in Int
  BY ByteIsInteger
<1>2. \E g : IsRecursion(g, Int, 0, add)
  <2>1. ASSUME NEW p \in Nat \X Int
        PROVE  p[2] + (IF p[1] \in Index THEN area[p[1]] ELSE 0) \in Int
    <3>1. p[2] \in Int /\ (IF p[1] \in Index THEN area[p[1]] ELSE 0) \in Int
      BY <1>1
    <3> QED BY <3>1
  <2>2. add \in [Nat \X Int -> Int] /\ 0 \in Int
    BY <2>1
  <2> HIDE DEF add
  <2> QED BY <2>2, PrimitiveRecursion
<1>3. PICK f : /\ f \in [Nat -> Int] /\ f[0] = 0
               /\ \A n \in Nat : f[n + 1] = f[n] + (IF n \in Index THEN area[n] ELSE 0)
  <2>1. PICK f : /\ f \in [Nat -> Int] /\ f[0] = 0
                 /\ \A n \in Nat : f[n + 1] = add[<<n, f[n]>>]
    <3> HIDE DEF add
    <3> QED BY <1>2 DEF IsRecursion
  <2>2. ASSUME NEW n \in Nat
        PROVE  add[<<n, f[n]>>] = f[n] + (IF n \in Index THEN area[n] ELSE 0)
    <3>1. <<n, f[n]>> \in Nat \X Int
      BY <2>1
    <3> QED BY <3>1
  <2> HIDE DEF add
  <2> QED BY <2>1, <2>2
<1> DEFINE g == [n \in 0..AreaSize |-> f[n]]
<1>4. g = Def(g)
  <2> SUFFICES ASSUME NEW n \in 0..AreaSize
               PROVE  f[n] = IF n = 0 THEN 0 ELSE g[n - 1] + area[n - 1]
    OBVIOUS
  <2>1. CASE n = 0
    BY <1>3, <2>1
  <2>2. CASE n # 0
    <3>1. n - 1 \in Nat /\ n - 1 \in 0..AreaSize /\ n - 1 \in Index /\ (n - 1) + 1 = n
      BY <2>2 DEF Index
    <3>2. f[(n - 1) + 1] = f[n - 1] + area[n - 1]
      BY <1>3, <3>1
    <3> QED BY <2>2, <3>1, <3>2
  <2> QED BY <2>1, <2>2
<1>5. Total = Def(Total)
  <2> HIDE DEF Def
  <2>1. \E h : h = Def(h)
    BY <1>4
  <2>2. Total = CHOOSE h : h = Def(h)
    BY DEF Total, Def
  <2> QED BY <2>1, <2>2
<1>6. Total[0] = 0
  <2> 0 \in 0..AreaSize
    OBVIOUS
  <2> QED BY <1>5
<1>7. ASSUME NEW n \in Index PROVE Total[n + 1] = Total[n] + area[n]
  <2>1. n + 1 \in 0..AreaSize /\ n + 1 # 0 /\ (n + 1) - 1 = n
    BY DEF Index
  <2> HIDE DEF Def
  <2>2. Total[n + 1] = Def(Total)[n + 1]
    BY <1>5
  <2> QED BY <2>1, <2>2 DEF Def
<1>8. \A n \in 0..AreaSize : Total[n] \in Int
  <2> DEFINE T == {n \in Nat : n \in 0..AreaSize => Total[n] \in Int}
  <2>1. 0 \in T
    BY <1>6
  <2>2. ASSUME NEW n \in Nat, n \in T PROVE n + 1 \in T
    <3>1. n + 1 \in 0..AreaSize => n \in Index /\ n \in 0..AreaSize
      BY DEF Index
    <3> QED BY <1>1, <1>7, <2>2, <3>1
  <2> HIDE DEF T
  <2>3. Nat \subseteq T
    BY <2>1, <2>2, SetInduction
  <2> QED BY <2>3 DEF T
<1>9. Total = [n \in 0..AreaSize |-> Total[n]]
  BY <1>5
<1> QED BY <1>6, <1>7, <1>8, <1>9

(* The first loop's sums are those of the area, less the byte left out.    *)
LEMMA PartialSums ==
  ASSUME area \in [Index -> ByteRange], variable \in Index,
         partial \in [0..AreaSize -> ByteRange], Recurrence(AreaSize)
  PROVE  partial[AreaSize] = (InitialSum + Total[AreaSize] - area[variable]) % ByteSize
<1> USE ChecksumAssumption
<1> DEFINE Left(n) == IF variable < n THEN area[variable] ELSE 0
<1>1. area[variable] \in Int /\ \A n \in Index : area[n] \in Int
  BY ByteIsInteger
<1> DEFINE T == {n \in Nat : n <= AreaSize =>
                   partial[n] = (InitialSum + Total[n] - Left(n)) % ByteSize}
<1>2. 0 \in T
  BY TotalAdds DEF Recurrence, InitialSum, ByteSize, Index
<1>3. ASSUME NEW n \in Nat, n \in T PROVE n + 1 \in T
  <2> SUFFICES ASSUME n + 1 <= AreaSize
               PROVE  partial[n + 1] = (InitialSum + Total[n + 1] - Left(n + 1)) % ByteSize
    OBVIOUS
  <2>1. n \in Index /\ n \in 0..AreaSize /\ n + 1 \in 0..AreaSize /\ variable \in Int
    BY DEF Index
  <2>2. partial[n] = (InitialSum + Total[n] - Left(n)) % ByteSize
    BY <1>3
  <2>3. partial[n + 1] = (partial[n] + Term(variable, n)) % ByteSize
    BY <2>1 DEF Recurrence
  <2>4. Total[n] \in Int /\ Total[n + 1] = Total[n] + area[n] /\ area[n] \in Int
    BY <1>1, <2>1, TotalAdds
  <2>5. Left(n) \in Int /\ Term(variable, n) \in Int
    BY <1>1, <2>4 DEF Term
  <2>6. Left(n + 1) = Left(n) + area[n] - Term(variable, n)
    BY <1>1, <2>1, <2>4 DEF Term
  <2> HIDE DEF Left
  <2> QED BY ONLY <2>2, <2>3, <2>4, <2>5, <2>6 DEF InitialSum, ByteSize
<1> HIDE DEF T
<1>4. Nat \subseteq T
  BY <1>2, <1>3, SetInduction
<1> QED BY <1>4 DEF T, Index

LEMMA ComplementAddsUp ==
  ASSUME NEW n \in Int, NEW b \in Int,
         b = (-((InitialSum + n - b) % ByteSize)) % ByteSize
  PROVE  (InitialSum + n) % ByteSize = 0
  BY DEF InitialSum, ByteSize

LEMMA ChecksumBoots ==
  CInv => BiosAccepts
<1> SUFFICES ASSUME CInv, pc = "ok" PROVE (InitialSum + Total[AreaSize]) % ByteSize = 0
  BY DEF BiosAccepts
<1> USE ChecksumAssumption
<1>1. /\ area \in [Index -> ByteRange] /\ variable \in Index
      /\ partial \in [0..AreaSize -> ByteRange] /\ Recurrence(AreaSize)
      /\ area[variable] = (-partial[AreaSize]) % ByteSize
  BY DEF CInv, ChecksumTypeOK, Index
<1>2. area[variable] \in Int /\ Total[AreaSize] \in Int
  BY <1>1, ByteIsInteger, TotalAdds
<1> QED BY <1>1, <1>2, PartialSums, ComplementAddsUp

-----------------------------------------------------------------------------
(* The sums of either loop, for every header, in every reachable state.    *)
THEOREM ChecksumInvariance == Spec => []CInv
<1>1. Init => CInv
  <2> SUFFICES ASSUME Init PROVE CInv
    OBVIOUS
  <2>1. area \in [Index -> ByteRange]
    BY ChecksumAssumption DEF Init, ByteRange
  <2> QED BY <2>1, ChecksumInit DEF Init
<1> QED BY <1>1, ChecksumStep, PTL DEF Spec

(* For every header, the sums and the byte that is set stay bytes.         *)
THEOREM ChecksumTypeCorrect == Spec => []ChecksumTypeOK
<1>1. CInv => ChecksumTypeOK
  BY DEF CInv
<1> QED BY <1>1, ChecksumInvariance, PTL

(* For every header, and whichever of its bytes is set to make it come     *)
(* out, the complement check does not throw.                               *)
THEOREM ComplementCheckPasses == Spec => []NeverThrown
<1>1. CInv => NeverThrown
  BY DEF CInv, NeverThrown
<1> QED BY <1>1, ChecksumInvariance, PTL

(* And what passes the check boots.                                        *)
THEOREM CheckedHeaderBoots == Spec => []BiosAccepts
<1> QED BY ChecksumBoots, ChecksumInvariance, PTL

-----------------------------------------------------------------------------
(* The layouts.                                                            *)
Roles == {"field", "fixed", "complement", "code", "filler", "literal", "operand"}

ItemSet == [role : Roles, size : Nat, at : SUBSET Nat, values : SUBSET ByteRange]

Harmless == {"complement", "operand", "filler"}

(* An item that is where it may be, and that is the fixed byte or harmless *)
(* if it covers the fixed byte or byte v of the area.                      *)
Fits(item, start, v) ==
  /\ item \in ItemSet
  /\ start \in item.at
  /\ start <= OfsFixedByte /\ OfsFixedByte < start + item.size => item.values = {FixedByte}
  /\ start <= OfsGameTitle + v /\ OfsGameTitle + v < start + item.size => item.role \in Harmless

(* Items that follow each other from one offset to another.                *)
Runs(s, from, to, v) ==
  /\ s \in Seq(ItemSet)
  /\ \E starts \in [1..(Len(s) + 1) -> Nat] :
       /\ starts[1] = from
       /\ starts[Len(s) + 1] = to
       /\ \A k \in 1..Len(s) :
            Fits(s[k], starts[k], v) /\ starts[k + 1] = starts[k] + s[k].size

(* What is left fits, and what has been emitted leaves the checks content. *)
LayoutInv ==
  /\ items # << >> => pc = "write" /\ i = 0
  /\ \E to \in Nat : Runs(items, lc, to, variable) /\ to >= HeaderSize /\ to % 4 = 0
  /\ lc \in Nat
  /\ roles \in Seq(Roles) /\ Len(roles) = lc
  /\ variable # OfsFixedByte - OfsGameTitle
  /\ OfsFixedByte < lc => area[OfsFixedByte - OfsGameTitle] = FixedByte
  /\ OfsGameTitle + variable < lc => roles[OfsGameTitle + variable + 1] \in Harmless

AInv == CInv /\ LayoutInv

LEMMA RunsNothing ==
  ASSUME NEW n \in Nat, NEW v
  PROVE  Runs(<< >>, n, n, v)
<1> DEFINE starts == [k \in 1..1 |-> n]
<1>1. starts \in [1..(Len(<< >>) + 1) -> Nat] /\ starts[1] = n
  OBVIOUS
<1>2. << >> \in Seq(ItemSet) /\ Len(<< >>) = 0
  OBVIOUS
<1> HIDE DEF starts
<1> QED BY <1>1, <1>2 DEF Runs

LEMMA RunsOne ==
  ASSUME NEW v, NEW n \in Nat, NEW item, Fits(item, n, v)
  PROVE  Runs(<<item>>, n, n + item.size, v)
<1> DEFINE starts == [k \in 1..2 |-> IF k = 1 THEN n ELSE n + item.size]
<1>1. item \in ItemSet /\ item.size \in Nat
  BY DEF Fits, ItemSet
<1>2. starts \in [1..(Len(<<item>>) + 1) -> Nat] /\ starts[1] = n /\ starts[2] = n + item.size
  BY <1>1
<1>3. <<item>> \in Seq(ItemSet) /\ Len(<<item>>) = 1 /\ <<item>>[1] = item
  BY <1>1
<1>4. \A k \in 1..Len(<<item>>) :
        /\ Fits(<<item>>[k], starts[k], v)
        /\ starts[k + 1] = starts[k] + <<item>>[k].size
  <2> SUFFICES Fits(item, starts[1], v) /\ starts[2] = starts[1] + item.size
    BY <1>3
  <2> QED BY <1>2
<1> HIDE DEF starts
<1> QED BY <1>2, <1>3, <1>4 DEF Runs

LEMMA RunsOn ==
  ASSUME NEW v, NEW s, NEW t, NEW a, NEW b, NEW c, Runs(s, a, b, v), Runs(t, b, c, v)
  PROVE  Runs(s \o t, a, c, v)
<1>1. /\ s \in Seq(ItemSet) /\ t \in Seq(ItemSet)
      /\ Len(s) \in Nat /\ Len(t) \in Nat
  BY DEF Runs
<1>2. PICK p \in [1..(Len(s) + 1) -> Nat] :
        /\ p[1] = a /\ p[Len(s) + 1] = b
        /\ \A k \in 1..Len(s) : Fits(s[k], p[k], v) /\ p[k + 1] = p[k] + s[k].size
  BY DEF Runs
<1>3. PICK q \in [1..(Len(t) + 1) -> Nat] :
        /\ q[1] = b /\ q[Len(t) + 1] = c
        /\ \A k \in 1..Len(t) : Fits(t[k], q[k], v) /\ q[k + 1] = q[k] + t[k].size
  BY DEF Runs
<1> DEFINE u == s \o t
           starts == [k \in 1..(Len(s) + Len(t) + 1) |-> IF k <= Len(s) THEN p[k] ELSE q[k - Len(s)]]
<1>4. /\ u \in Seq(ItemSet) /\ Len(u) = Len(s) + Len(t)
      /\ \A k \in 1..Len(u) : u[k] = IF k <= Len(s) THEN s[k] ELSE t[k - Len(s)]
  BY <1>1, ConcatProperties
<1>5. starts \in [1..(Len(u) + 1) -> Nat]
  <2>1. ASSUME NEW k \in 1..(Len(s) + Len(t) + 1)
        PROVE  (IF k <= Len(s) THEN p[k] ELSE q[k - Len(s)]) \in Nat
    <3>1. CASE k <= Len(s)
      <4>1. k \in 1..(Len(s) + 1)
        BY <1>1, <3>1
      <4> QED BY <1>2, <3>1, <4>1
    <3>2. CASE ~(k <= Len(s))
      <4>1. k - Len(s) \in 1..(Len(t) + 1)
        BY <1>1, <3>2
      <4> QED BY <1>3, <3>2, <4>1
    <3> QED BY <3>1, <3>2
  <2> QED BY <1>4, <2>1
<1>6. \A k \in 1..(Len(s) + 1) : starts[k] = p[k]
  BY <1>1, <1>2, <1>3
<1>7. \A k \in 1..(Len(t) + 1) : starts[k + Len(s)] = q[k]
  BY <1>1, <1>2, <1>3
<1>8. starts[1] = a /\ starts[Len(u) + 1] = c
  <2>1. 1 \in 1..(Len(s) + 1) /\ Len(t) + 1 \in 1..(Len(t) + 1)
        /\ (Len(t) + 1) + Len(s) = Len(s) + Len(t) + 1
    BY <1>1
  <2> HIDE DEF starts, u
  <2> QED BY <1>2, <1>3, <1>4, <1>6, <1>7, <2>1
<1> HIDE DEF starts, u
<1>9. ASSUME NEW k \in 1..Len(u)
      PROVE  Fits(u[k], starts[k], v) /\ starts[k + 1] = starts[k] + u[k].size
  <2>1. CASE k <= Len(s)
    <3>1. k \in 1..Len(s) /\ k \in 1..(Len(s) + 1) /\ k + 1 \in 1..(Len(s) + 1)
      BY <1>1, <2>1
    <3>2. starts[k] = p[k] /\ starts[k + 1] = p[k + 1] /\ u[k] = s[k]
      BY <1>4, <1>6, <2>1, <3>1
    <3> QED BY <1>2, <3>1, <3>2
  <2>2. CASE ~(k <= Len(s))
    <3> DEFINE j == k - Len(s)
    <3>1. j \in 1..Len(t) /\ j \in 1..(Len(t) + 1) /\ j + 1 \in 1..(Len(t) + 1)
          /\ k = j + Len(s) /\ k + 1 = (j + 1) + Len(s)
      BY <1>1, <1>4, <2>2
    <3>2. u[k] = t[j]
      BY <1>4, <2>2
    <3> HIDE DEF j
    <3>3. starts[k] = q[j] /\ starts[k + 1] = q[j + 1]
      BY <1>7, <3>1
    <3> QED BY <1>3, <3>1, <3>2, <3>3
  <2> QED BY <2>1, <2>2
<1> QED BY <1>4, <1>5, <1>8, <1>9 DEF Runs, u

LEMMA RunsHead ==
  ASSUME NEW v, NEW s, NEW a, NEW c, s # << >>, Runs(s, a, c, v)
  PROVE  Fits(Head(s), a, v) /\ Runs(Tail(s), a + Head(s).size, c, v)
<1>1. s \in Seq(ItemSet) /\ Len(s) \in Nat \ {0} /\ Head(s) = s[1]
  BY DEF Runs
<1>2. PICK p \in [1..(Len(s) + 1) -> Nat] :
        /\ p[1] = a /\ p[Len(s) + 1] = c
        /\ \A k \in 1..Len(s) : Fits(s[k], p[k], v) /\ p[k + 1] = p[k] + s[k].size
  BY DEF Runs
<1>3. Fits(s[1], a, v) /\ p[2] = a + s[1].size
  BY <1>1, <1>2
<1> DEFINE t == Tail(s)
           starts == [k \in 1..Len(s) |-> p[k + 1]]
<1>4. /\ t \in Seq(ItemSet) /\ Len(t) = Len(s) - 1
      /\ \A k \in 1..Len(t) : t[k] = s[k + 1]
  BY <1>1, HeadTailProperties
<1>5. starts \in [1..(Len(t) + 1) -> Nat] /\ starts[1] = p[2] /\ starts[Len(t) + 1] = c
  BY <1>1, <1>2, <1>4
<1>6. ASSUME NEW k \in 1..Len(t)
      PROVE  Fits(t[k], starts[k], v) /\ starts[k + 1] = starts[k] + t[k].size
  <2>1. k \in 1..Len(s) /\ k + 1 \in 1..Len(s)
    BY <1>1, <1>4
  <2>2. starts[k] = p[k + 1] /\ starts[k + 1] = p[(k + 1) + 1] /\ t[k] = s[k + 1]
    BY <1>4, <2>1
  <2> HIDE DEF t, starts
  <2> QED BY <1>2, <2>1, <2>2
<1> HIDE DEF t, starts
<1> QED BY <1>1, <1>3, <1>4, <1>5, <1>6 DEF Runs, t

LEMMA ItemTyped ==
  ASSUME NEW role \in Roles, NEW size \in Nat, NEW at \in SUBSET Nat,
         NEW values \in SUBSET ByteRange
  PROVE  /\ Item(role, size, at, values) \in ItemSet
         /\ Item(role, size, at, values).role = role
         /\ Item(role, size, at, values).size = size
         /\ Item(role, size, at, values).at = at
         /\ Item(role, size, at, values).values = values
  BY DEF Item, ItemSet

LEMMA PairConcat ==
  ASSUME NEW a, NEW b
  PROVE  <<a, b>> = <<a>> \o <<b>>
<1>1. <<a>> \in Seq({a, b}) /\ <<b>> \in Seq({a, b}) /\ Len(<<a>>) = 1 /\ Len(<<b>>) = 1
  OBVIOUS
<1>2. /\ <<a>> \o <<b>> \in Seq({a, b}) /\ Len(<<a>> \o <<b>>) = 2
      /\ (<<a>> \o <<b>>)[1] = a /\ (<<a>> \o <<b>>)[2] = b
  BY <1>1, ConcatProperties
<1>3. <<a, b>> \in Seq({a, b}) /\ Len(<<a, b>>) = 2 /\ <<a, b>>[1] = a /\ <<a, b>>[2] = b
  OBVIOUS
<1> DEFINE u == <<a>> \o <<b>>
           w == <<a, b>>
<1>4. \A k \in 1..2 : u[k] = w[k]
  BY <1>2, <1>3
<1> HIDE DEF u, w
<1> QED BY <1>2, <1>3, <1>4, SeqEqual DEF u, w

(* Code of so many half words, where it neither is the fixed byte nor byte *)
(* v of the area.                                                          *)
LEMMA CodeFits ==
  ASSUME NEW v \in Nat, NEW h \in Nat, NEW at \in SUBSET Nat, NEW n \in Nat, n \in at,
         n > OfsFixedByte \/ n + 2 * h <= OfsFixedByte,
         n > OfsGameTitle + v \/ n + 2 * h <= OfsGameTitle + v
  PROVE  Runs(<<Code(h, at)>>, n, n + 2 * h, v)
<1>1. HeaderBytes \in SUBSET ByteRange
  BY ChecksumAssumption DEF ByteRange
<1>2. Code(h, at) \in ItemSet /\ Code(h, at).size = 2 * h /\ Code(h, at).at = at
  <2>1. 2 * h \in Nat /\ "code" \in Roles
    BY DEF Roles
  <2> QED BY <1>1, <2>1, ItemTyped DEF Code
<1>3. Fits(Code(h, at), n, v)
  BY <1>2 DEF Fits, OfsFixedByte, OfsGameTitle
<1> QED BY <1>2, <1>3, RunsOne

LEMMA LogoRuns ==
  ASSUME NEW v \in Nat
  PROVE  Runs(EmitNintendoLogo, 0, OfsGameTitle, v)
<1> DEFINE code == Code(2, {0})
           logo == Item("field", 156, {4}, {0})
<1>1. Runs(<<code>>, 0, 4, v)
  <2>1. Runs(<<Code(2, {0})>>, 0, 0 + 2 * 2, v)
    <3>1. {0} \in SUBSET Nat /\ 0 \in {0} /\ 0 + 2 * 2 <= OfsFixedByte
          /\ 0 + 2 * 2 <= OfsGameTitle + v
      BY DEF OfsFixedByte, OfsGameTitle
    <3> HIDE DEF Code
    <3> QED BY <3>1, CodeFits
  <2> QED BY <2>1
<1>2. Runs(<<logo>>, 4, 160, v)
  <2>1. logo \in ItemSet /\ logo.size = 156
    <3>1. {4} \in SUBSET Nat /\ {0} \in SUBSET ByteRange /\ "field" \in Roles /\ 156 \in Nat
      BY DEF Roles, ByteRange, ByteSize
    <3> QED BY <3>1, ItemTyped
  <2>2. Fits(logo, 4, v)
    BY <2>1 DEF Fits, OfsFixedByte, OfsGameTitle, Item
  <2> HIDE DEF logo
  <2>3. Runs(<<logo>>, 4, 4 + logo.size, v)
    BY <2>2, RunsOne
  <2> QED BY <2>1, <2>3
<1> HIDE DEF code, logo
<1>3. Runs(<<code>> \o <<logo>>, 0, 160, v)
  BY <1>1, <1>2, RunsOn
<1>4. EmitNintendoLogo = <<code>> \o <<logo>>
  <2>1. EmitNintendoLogo = <<code, logo>>
    BY DEF EmitNintendoLogo, code, logo
  <2> QED BY <2>1, PairConcat
<1> QED BY <1>3, <1>4 DEF OfsGameTitle

(* The header's fields, of which the last but one is the complement.       *)
LEMMA HeaderRuns ==
  Runs(EmitRemainingHeader, OfsGameTitle, HeaderSize, OfsComplement - OfsGameTitle)
<1> DEFINE v == OfsComplement - OfsGameTitle
           s == EmitRemainingHeader
           starts == <<160, 178, 179, 180, 188, 189, 190, 192>>
<1> USE DEF OfsGameTitle, OfsFixedByte, OfsDeviceType, OfsGameVersion, OfsComplement,
            OfsReserved2, HeaderSize
<1>1. Len(s) = 7
  BY DEF EmitRemainingHeader
<1>2. starts \in [1..8 -> Nat] /\ starts[1] = 160 /\ starts[8] = 192
  OBVIOUS
<1>3. /\ \A size \in Nat, offset \in Nat : Field(size, offset) \in ItemSet
      /\ Item("fixed", 1, {OfsFixedByte}, {FixedByte}) \in ItemSet
      /\ Item("complement", 1, {OfsComplement}, {0}) \in ItemSet
  <2>1. {0} \in SUBSET ByteRange /\ {FixedByte} \in SUBSET ByteRange
    BY DEF ByteRange, ByteSize, FixedByte
  <2>2. \A offset \in Nat : {offset} \in SUBSET Nat
    OBVIOUS
  <2>3. OfsFixedByte \in Nat /\ OfsComplement \in Nat /\ 1 \in Nat
        /\ "field" \in Roles /\ "fixed" \in Roles /\ "complement" \in Roles
    BY DEF Roles
  <2> QED BY ONLY <2>1, <2>2, <2>3, ItemTyped DEF Field
<1>4. ASSUME NEW k \in 1..7
      PROVE  /\ s[k] \in ItemSet
             /\ Fits(s[k], starts[k], v)
             /\ starts[k + 1] = starts[k] + s[k].size
  <2>1. CASE k = 1
    BY <1>3, <2>1 DEF EmitRemainingHeader, Fits, Field, Item
  <2>2. CASE k = 2
    BY <1>3, <2>2 DEF EmitRemainingHeader, Fits, Field, Item
  <2>3. CASE k = 3
    BY <1>3, <2>3 DEF EmitRemainingHeader, Fits, Field, Item
  <2>4. CASE k = 4
    BY <1>3, <2>4 DEF EmitRemainingHeader, Fits, Field, Item
  <2>5. CASE k = 5
    BY <1>3, <2>5 DEF EmitRemainingHeader, Fits, Field, Item
  <2>6. CASE k = 6
    BY <1>3, <2>6 DEF EmitRemainingHeader, Fits, Field, Item, Harmless
  <2>7. CASE k = 7
    BY <1>3, <2>7 DEF EmitRemainingHeader, Fits, Field, Item
  <2> QED BY <2>1, <2>2, <2>3, <2>4, <2>5, <2>6, <2>7
<1>5. s \in Seq(ItemSet)
  <2>1. s = [k \in 1..7 |-> s[k]]
    BY DEF EmitRemainingHeader
  <2> HIDE DEF s
  <2> QED BY <1>4, <2>1
<1>6. /\ starts \in [1..(Len(s) + 1) -> Nat]
      /\ starts[1] = OfsGameTitle /\ starts[Len(s) + 1] = HeaderSize
  BY ONLY <1>1, <1>2 DEF OfsGameTitle, HeaderSize
<1>7. \A k \in 1..Len(s) :
        Fits(s[k], starts[k], v) /\ starts[k + 1] = starts[k] + s[k].size
  BY ONLY <1>1, <1>4
<1> HIDE DEF s, starts, v
<1>8. Runs(s, OfsGameTitle, HeaderSize, v)
  BY ONLY <1>5, <1>6, <1>7 DEF Runs
<1> QED BY ONLY <1>8 DEF s, v

(* An instruction that is there for its first byte, the fixed one or the   *)
(* one that is set.                                                        *)
LEMMA StubRuns ==
  ASSUME NEW v \in Nat, NEW role \in Roles, NEW value \in ByteRange, NEW n \in Nat,
         n + 1 # OfsFixedByte, n + 1 # OfsGameTitle + v,
         n = OfsFixedByte => value = FixedByte,
         n = OfsGameTitle + v => role \in Harmless
  PROVE  Runs(Stub(role, value, n), n, n + 2, v)
<1> DEFINE first == Item(role, 1, {n}, {value})
           second == Item("code", 1, {n + 1}, HeaderBytes)
<1>1. HeaderBytes \in SUBSET ByteRange
  BY ChecksumAssumption DEF ByteRange
<1>2. first \in ItemSet /\ first.size = 1 /\ second \in ItemSet /\ second.size = 1
  <2>1. /\ {n} \in SUBSET Nat /\ {value} \in SUBSET ByteRange /\ {n + 1} \in SUBSET Nat
        /\ 1 \in Nat /\ "code" \in Roles
    BY DEF Roles
  <2> QED BY <1>1, <2>1, ItemTyped
<1>3. Fits(first, n, v) /\ Fits(second, n + 1, v)
  BY <1>2 DEF Fits, OfsFixedByte, OfsGameTitle, Item
<1> HIDE DEF first, second
<1>4. Runs(<<first>>, n, n + 1, v)
  BY <1>2, <1>3, RunsOne
<1>5. Runs(<<second>>, n + 1, n + 2, v)
  <2>1. Runs(<<second>>, n + 1, (n + 1) + 1, v)
    BY <1>2, <1>3, RunsOne
  <2> QED BY <2>1
<1>6. Stub(role, value, n) = <<first>> \o <<second>>
  <2>1. Stub(role, value, n) = <<first, second>>
    BY DEF Stub, first, second
  <2> QED BY <2>1, PairConcat
<1> QED BY <1>4, <1>5, <1>6, RunsOn

LEMMA RunsPair ==
  ASSUME NEW v, NEW a, NEW b, NEW m, NEW n, NEW k, Runs(<<a>>, m, n, v), Runs(<<b>>, n, k, v)
  PROVE  Runs(<<a, b>>, m, k, v)
<1>1. Runs(<<a>> \o <<b>>, m, k, v)
  BY RunsOn
<1> QED BY ONLY <1>1, PairConcat

LEMMA Places ==
  /\ Aligned \in SUBSET Nat /\ Anywhere \in SUBSET Nat
  /\ \A n \in 0..(2 * HeaderSize) : n \in Anywhere
  /\ \A n \in 0..(2 * HeaderSize) : n % 4 = 0 => n \in Aligned
  BY DEF Aligned, Anywhere, HeaderSize

LEMMA LiteralsRun ==
  ASSUME NEW v \in Nat, NEW n \in Nat, NEW size \in Nat, n \in Aligned,
         n > OfsFixedByte, n > OfsGameTitle + v
  PROVE  Runs(<<Item("literal", size, Aligned, HeaderBytes)>>, n, n + size, v)
<1> DEFINE literal == Item("literal", size, Aligned, HeaderBytes)
<1>1. HeaderBytes \in SUBSET ByteRange /\ Aligned \in SUBSET Nat /\ "literal" \in Roles
  BY ChecksumAssumption, Places DEF ByteRange, Roles
<1>2. literal \in ItemSet /\ literal.size = size /\ literal.at = Aligned
  BY <1>1, ItemTyped
<1> HIDE DEF literal
<1>3. Fits(literal, n, v)
  BY <1>2 DEF Fits, OfsFixedByte, OfsGameTitle
<1>4. Runs(<<literal>>, n, n + literal.size, v)
  BY <1>3, RunsOne
<1> QED BY <1>2, <1>4 DEF literal

(* The LZSS packer, with the depacker behind the header.                   *)
LEMMA LzssPlain ==
  ASSUME ~codeInHeader, NEW literals \in 2..4
  PROVE  Runs(LzssItems(literals), 0, 216 + 4 * literals, OfsComplement - OfsGameTitle)
<1> USE DEF OfsGameTitle, OfsFixedByte, OfsGameVersion, OfsComplement, HeaderSize
<1> DEFINE v == 29
<1>1. Runs(EmitNintendoLogo, 0, 160, v)
  BY LogoRuns
<1>2. Runs(EmitRemainingHeader, 160, 192, v)
  <2>1. OfsComplement - OfsGameTitle = 29
    OBVIOUS
  <2> QED BY <2>1, HeaderRuns
<1>3. Runs(<<Code(9, Aligned)>>, 192, 210, v)
  <2>1. 192 \in Aligned /\ Aligned \in SUBSET Nat
    BY Places
  <2>2. Runs(<<Code(9, Aligned)>>, 192, 192 + 2 * 9, v)
    BY <2>1, CodeFits
  <2> QED BY <2>2
<1>4. Runs(<< >>, 210, 210, v) /\ Runs(<< >>, 216, 216, v)
  BY RunsNothing
<1>5. Runs(<<Code(3, Anywhere)>>, 210, 216, v)
  <2>1. 210 \in Anywhere /\ Anywhere \in SUBSET Nat
    BY Places
  <2>2. Runs(<<Code(3, Anywhere)>>, 210, 210 + 2 * 3, v)
    BY <2>1, CodeFits
  <2> QED BY <2>2
<1>6. Runs(<<Item("literal", 4 * literals, Aligned, HeaderBytes)>>, 216, 216 + 4 * literals, v)
  <2>1. 216 \in Aligned /\ 4 * literals \in Nat
    BY Places
  <2> QED BY <2>1, LiteralsRun
<1>7. LzssItems(literals) =
        EmitNintendoLogo \o EmitRemainingHeader \o <<Code(9, Aligned)>> \o << >>
          \o <<Code(3, Anywhere)>> \o << >>
          \o <<Item("literal", 4 * literals, Aligned, HeaderBytes)>>
  BY DEF LzssItems
<1>8. Runs(EmitNintendoLogo \o EmitRemainingHeader \o <<Code(9, Aligned)>>, 0, 210, v)
  BY ONLY <1>1, <1>2, <1>3, RunsOn
<1>9. Runs(EmitNintendoLogo \o EmitRemainingHeader \o <<Code(9, Aligned)>> \o << >>, 0, 210, v)
  BY ONLY <1>4, <1>8, RunsOn
<1>10. Runs(EmitNintendoLogo \o EmitRemainingHeader \o <<Code(9, Aligned)>> \o << >>
             \o <<Code(3, Anywhere)>>, 0, 216, v)
  BY ONLY <1>5, <1>9, RunsOn
<1>11. Runs(EmitNintendoLogo \o EmitRemainingHeader \o <<Code(9, Aligned)>> \o << >>
             \o <<Code(3, Anywhere)>> \o << >>, 0, 216, v)
  BY ONLY <1>4, <1>10, RunsOn
<1>12. Runs(EmitNintendoLogo \o EmitRemainingHeader \o <<Code(9, Aligned)>> \o << >>
             \o <<Code(3, Anywhere)>> \o << >>
             \o <<Item("literal", 4 * literals, Aligned, HeaderBytes)>>,
            0, 216 + 4 * literals, v)
  BY ONLY <1>6, <1>11, RunsOn
<1>13. OfsComplement - OfsGameTitle = v
  OBVIOUS
<1> QED BY ONLY <1>7, <1>12, <1>13

(* With the depacker in the header: filler takes the place of the game     *)
(* version, and of the byte before it.                                     *)
LEMMA LzssInHeader ==
  ASSUME codeInHeader, NEW literals \in 2..4
  PROVE  Runs(LzssItems(literals), 0, 188 + 4 * literals, OfsGameVersion - 2 - OfsGameTitle)
<1> USE DEF OfsGameTitle, OfsFixedByte, OfsGameVersion, OfsComplement, HeaderSize
<1> DEFINE v == 26
           filler == Item("filler", 2, {OfsGameVersion - 2}, {255})
<1>1. Runs(EmitNintendoLogo, 0, 160, v)
  BY LogoRuns
<1>2. Runs(<<Code(9, Aligned)>>, 160, 178, v)
  <2>1. 160 \in Aligned /\ Aligned \in SUBSET Nat
    BY Places
  <2>2. Runs(<<Code(9, Aligned)>>, 160, 160 + 2 * 9, v)
    BY <2>1, CodeFits
  <2> QED BY <2>2
<1>3. Runs(Stub("fixed", FixedByte, OfsFixedByte), 178, 180, v)
  <2>1. "fixed" \in Roles /\ FixedByte \in ByteRange
    BY DEF Roles, FixedByte, ByteRange, ByteSize
  <2>2. Runs(Stub("fixed", FixedByte, 178), 178, 178 + 2, v)
    BY <2>1, StubRuns
  <2> QED BY <2>2
<1>4. Runs(<<Code(3, Anywhere)>>, 180, 186, v)
  <2>1. 180 \in Anywhere /\ Anywhere \in SUBSET Nat
    BY Places
  <2>2. Runs(<<Code(3, Anywhere)>>, 180, 180 + 2 * 3, v)
    BY <2>1, CodeFits
  <2> QED BY <2>2
<1>5. Runs(<<filler>>, 186, 188, v)
  <2>1. /\ {OfsGameVersion - 2} \in SUBSET Nat /\ {255} \in SUBSET ByteRange
        /\ "filler" \in Roles
    BY DEF ByteRange, ByteSize, Roles
  <2>2. /\ filler \in ItemSet /\ filler.role = "filler"
        /\ filler.size = 2 /\ filler.at = {186}
    BY <2>1, ItemTyped
  <2> HIDE DEF filler
  <2>3. Fits(filler, 186, v)
    BY <2>2 DEF Fits, Harmless
  <2>4. Runs(<<filler>>, 186, 186 + filler.size, v)
    BY <2>3, RunsOne
  <2> QED BY <2>2, <2>4
<1>6. Runs(<<Code(0, {OfsGameVersion})>>, 188, 188, v)
  <2>1. {188} \in SUBSET Nat /\ 188 \in {188}
    OBVIOUS
  <2>2. Runs(<<Code(0, {188})>>, 188, 188 + 2 * 0, v)
    BY <2>1, CodeFits
  <2> QED BY <2>2
<1>7. Runs(<<Item("literal", 4 * literals, Aligned, HeaderBytes)>>, 188, 188 + 4 * literals, v)
  <2>1. 188 \in Aligned /\ 4 * literals \in Nat
    BY Places
  <2> QED BY <2>1, LiteralsRun
<1>8. LzssItems(literals) =
        EmitNintendoLogo \o << >> \o <<Code(9, Aligned)>>
          \o Stub("fixed", FixedByte, OfsFixedByte)
          \o <<Code(3, Anywhere)>>
          \o <<filler, Code(0, {OfsGameVersion})>>
          \o <<Item("literal", 4 * literals, Aligned, HeaderBytes)>>
  BY DEF LzssItems
<1>9. Runs(EmitNintendoLogo \o << >> \o <<Code(9, Aligned)>>, 0, 178, v)
  <2>1. Runs(<< >>, 160, 160, v)
    BY RunsNothing
  <2> QED BY ONLY <1>1, <1>2, <2>1, RunsOn
<1>10. Runs(EmitNintendoLogo \o << >> \o <<Code(9, Aligned)>>
             \o Stub("fixed", FixedByte, OfsFixedByte), 0, 180, v)
  BY ONLY <1>3, <1>9, RunsOn
<1>11. Runs(EmitNintendoLogo \o << >> \o <<Code(9, Aligned)>>
             \o Stub("fixed", FixedByte, OfsFixedByte)
             \o <<Code(3, Anywhere)>>, 0, 186, v)
  BY ONLY <1>4, <1>10, RunsOn
<1>12. Runs(<<filler, Code(0, {OfsGameVersion})>>, 186, 188, v)
  BY ONLY <1>5, <1>6, RunsPair
<1>13. Runs(EmitNintendoLogo \o << >> \o <<Code(9, Aligned)>>
             \o Stub("fixed", FixedByte, OfsFixedByte)
             \o <<Code(3, Anywhere)>>
             \o <<filler, Code(0, {OfsGameVersion})>>, 0, 188, v)
  BY ONLY <1>11, <1>12, RunsOn
<1>14. OfsGameVersion - 2 - OfsGameTitle = v
  OBVIOUS
<1> QED BY ONLY <1>7, <1>8, <1>13, <1>14, RunsOn

(* The Shrinkler packer, with the depacker behind the header.              *)
LEMMA ShrinklerPlain ==
  ASSUME ~codeInHeader
  PROVE  Runs(ShrinklerItems, 0, 260, OfsComplement - OfsGameTitle)
<1> USE DEF OfsGameTitle, OfsFixedByte, OfsGameVersion, OfsComplement, HeaderSize
<1> DEFINE v == 29
           even == {n \in Anywhere : n % 2 = 0}
<1>1. Runs(EmitNintendoLogo, 0, 160, v)
  BY LogoRuns
<1>2. Runs(EmitRemainingHeader, 160, 192, v)
  <2>1. OfsComplement - OfsGameTitle = 29
    OBVIOUS
  <2> QED BY <2>1, HeaderRuns
<1>3. Runs(<<Code(9, even)>>, 192, 210, v)
  <2>1. 192 \in even /\ even \in SUBSET Nat
    <3>1. 192 \in Anywhere /\ 192 % 2 = 0 /\ Anywhere \in SUBSET Nat
      BY Places
    <3> QED BY <3>1
  <2> HIDE DEF even
  <2>2. Runs(<<Code(9, even)>>, 192, 192 + 2 * 9, v)
    BY <2>1, CodeFits
  <2> QED BY <2>2
<1>4. Runs(<< >>, 210, 210, v) /\ Runs(<< >>, 218, 218, v)
  BY RunsNothing
<1>5. Runs(<<Code(4, Anywhere)>>, 210, 218, v)
  <2>1. 210 \in Anywhere /\ Anywhere \in SUBSET Nat
    BY Places
  <2>2. Runs(<<Code(4, Anywhere)>>, 210, 210 + 2 * 4, v)
    BY <2>1, CodeFits
  <2> QED BY <2>2
<1>6. Runs(<<Code(21, Anywhere)>>, 218, 260, v)
  <2>1. 218 \in Anywhere /\ Anywhere \in SUBSET Nat
    BY Places
  <2>2. Runs(<<Code(21, Anywhere)>>, 218, 218 + 2 * 21, v)
    BY <2>1, CodeFits
  <2> QED BY <2>2
<1>7. Runs(<<Code(0, Aligned)>>, 260, 260, v)
  <2>1. 260 \in Aligned /\ Aligned \in SUBSET Nat
    BY Places
  <2>2. Runs(<<Code(0, Aligned)>>, 260, 260 + 2 * 0, v)
    BY <2>1, CodeFits
  <2> QED BY <2>2
<1>8. ShrinklerItems =
        EmitNintendoLogo \o EmitRemainingHeader \o <<Code(9, even)>> \o << >>
          \o <<Code(4, Anywhere)>> \o << >> \o <<Code(21, Anywhere), Code(0, Aligned)>>
  BY DEF ShrinklerItems
<1> HIDE DEF even
<1>9. Runs(EmitNintendoLogo \o EmitRemainingHeader \o <<Code(9, even)>>, 0, 210, v)
  BY ONLY <1>1, <1>2, <1>3, RunsOn
<1>10. Runs(EmitNintendoLogo \o EmitRemainingHeader \o <<Code(9, even)>> \o << >>, 0, 210, v)
  BY ONLY <1>4, <1>9, RunsOn
<1>11. Runs(EmitNintendoLogo \o EmitRemainingHeader \o <<Code(9, even)>> \o << >>
              \o <<Code(4, Anywhere)>>, 0, 218, v)
  BY ONLY <1>5, <1>10, RunsOn
<1>12. Runs(EmitNintendoLogo \o EmitRemainingHeader \o <<Code(9, even)>> \o << >>
              \o <<Code(4, Anywhere)>> \o << >>, 0, 218, v)
  BY ONLY <1>4, <1>11, RunsOn
<1>13. Runs(<<Code(21, Anywhere), Code(0, Aligned)>>, 218, 260, v)
  BY ONLY <1>6, <1>7, RunsPair
<1>14. OfsComplement - OfsGameTitle = v
  OBVIOUS
<1> DEFINE front == EmitNintendoLogo \o EmitRemainingHeader \o <<Code(9, even)>> \o << >>
                      \o <<Code(4, Anywhere)>> \o << >>
           behind == <<Code(21, Anywhere), Code(0, Aligned)>>
<1>15. ShrinklerItems = front \o behind
  BY <1>8
<1>16. Runs(front, 0, 218, v) /\ Runs(behind, 218, 260, v)
  BY <1>12, <1>13
<1> HIDE DEF front, behind
<1>17. Runs(front \o behind, 0, 260, v)
  BY ONLY <1>16, RunsOn
<1> QED BY ONLY <1>14, <1>15, <1>17

(* With the depacker in the header: an instruction's operand takes the     *)
(* place of the game version.                                              *)
LEMMA ShrinklerInHeader ==
  ASSUME codeInHeader
  PROVE  Runs(ShrinklerItems, 0, 232, OfsGameVersion - OfsGameTitle)
<1> USE DEF OfsGameTitle, OfsFixedByte, OfsGameVersion, OfsComplement, HeaderSize
<1> DEFINE v == 28
           even == {n \in Anywhere : n % 2 = 0}
<1>1. Runs(EmitNintendoLogo, 0, 160, v)
  BY LogoRuns
<1>2. Runs(<<Code(9, even)>>, 160, 178, v)
  <2>1. 160 \in even /\ even \in SUBSET Nat
    <3>1. 160 \in Anywhere /\ 160 % 2 = 0 /\ Anywhere \in SUBSET Nat
      BY Places
    <3> QED BY <3>1
  <2> HIDE DEF even
  <2>2. Runs(<<Code(9, even)>>, 160, 160 + 2 * 9, v)
    BY <2>1, CodeFits
  <2> QED BY <2>2
<1>3. Runs(Stub("fixed", FixedByte, OfsFixedByte), 178, 180, v)
  <2>1. "fixed" \in Roles /\ FixedByte \in ByteRange
    BY DEF Roles, FixedByte, ByteRange, ByteSize
  <2>2. Runs(Stub("fixed", FixedByte, 178), 178, 178 + 2, v)
    BY <2>1, StubRuns
  <2> QED BY <2>2
<1>4. Runs(<<Code(4, Anywhere)>>, 180, 188, v)
  <2>1. 180 \in Anywhere /\ Anywhere \in SUBSET Nat
    BY Places
  <2>2. Runs(<<Code(4, Anywhere)>>, 180, 180 + 2 * 4, v)
    BY <2>1, CodeFits
  <2> QED BY <2>2
<1>5. Runs(Stub("operand", 119, OfsGameVersion), 188, 190, v)
  <2>1. "operand" \in Roles /\ 119 \in ByteRange /\ "operand" \in Harmless
    BY DEF Roles, ByteRange, ByteSize, Harmless
  <2>2. Runs(Stub("operand", 119, 188), 188, 188 + 2, v)
    BY <2>1, StubRuns
  <2> QED BY <2>2
<1>6. Runs(<<Code(21, Anywhere)>>, 190, 232, v)
  <2>1. 190 \in Anywhere /\ Anywhere \in SUBSET Nat
    BY Places
  <2>2. Runs(<<Code(21, Anywhere)>>, 190, 190 + 2 * 21, v)
    BY <2>1, CodeFits
  <2> QED BY <2>2
<1>7. Runs(<<Code(0, Aligned)>>, 232, 232, v)
  <2>1. 232 \in Aligned /\ Aligned \in SUBSET Nat
    BY Places
  <2>2. Runs(<<Code(0, Aligned)>>, 232, 232 + 2 * 0, v)
    BY <2>1, CodeFits
  <2> QED BY <2>2
<1>8. ShrinklerItems =
        EmitNintendoLogo \o << >> \o <<Code(9, even)>>
          \o Stub("fixed", FixedByte, OfsFixedByte) \o <<Code(4, Anywhere)>>
          \o Stub("operand", 119, OfsGameVersion)
          \o <<Code(21, Anywhere), Code(0, Aligned)>>
  BY DEF ShrinklerItems
<1> HIDE DEF even
<1>9. Runs(EmitNintendoLogo \o << >> \o <<Code(9, even)>>, 0, 178, v)
  <2>1. Runs(<< >>, 160, 160, v)
    BY RunsNothing
  <2> QED BY ONLY <1>1, <1>2, <2>1, RunsOn
<1>10. Runs(EmitNintendoLogo \o << >> \o <<Code(9, even)>>
              \o Stub("fixed", FixedByte, OfsFixedByte), 0, 180, v)
  BY ONLY <1>3, <1>9, RunsOn
<1>11. Runs(EmitNintendoLogo \o << >> \o <<Code(9, even)>>
              \o Stub("fixed", FixedByte, OfsFixedByte) \o <<Code(4, Anywhere)>>, 0, 188, v)
  BY ONLY <1>4, <1>10, RunsOn
<1>12. Runs(EmitNintendoLogo \o << >> \o <<Code(9, even)>>
              \o Stub("fixed", FixedByte, OfsFixedByte) \o <<Code(4, Anywhere)>>
              \o Stub("operand", 119, OfsGameVersion), 0, 190, v)
  BY ONLY <1>5, <1>11, RunsOn
<1>13. Runs(<<Code(21, Anywhere), Code(0, Aligned)>>, 190, 232, v)
  BY ONLY <1>6, <1>7, RunsPair
<1>14. OfsGameVersion - OfsGameTitle = v
  OBVIOUS
<1> DEFINE front == EmitNintendoLogo \o << >> \o <<Code(9, even)>>
                      \o Stub("fixed", FixedByte, OfsFixedByte) \o <<Code(4, Anywhere)>>
                      \o Stub("operand", 119, OfsGameVersion)
           behind == <<Code(21, Anywhere), Code(0, Aligned)>>
<1>15. ShrinklerItems = front \o behind
  BY <1>8
<1>16. Runs(front, 0, 190, v) /\ Runs(behind, 190, 232, v)
  BY <1>12, <1>13
<1> HIDE DEF front, behind
<1>17. Runs(front \o behind, 0, 232, v)
  BY ONLY <1>16, RunsOn
<1> QED BY ONLY <1>14, <1>15, <1>17

LEMMA RunsEnd ==
  ASSUME NEW v, NEW a, NEW b, Runs(<< >>, a, b, v)
  PROVE  a = b
<1>1. Len(<< >>) + 1 = 1
  OBVIOUS
<1> QED BY <1>1 DEF Runs

LEMMA LayoutFits ==
  ASSUME AssemblerInit
  PROVE  /\ \E to \in Nat : Runs(items, 0, to, variable) /\ to >= HeaderSize /\ to % 4 = 0
         /\ variable \in VariableIndexes
         /\ variable # OfsFixedByte - OfsGameTitle
<1>1. variable = VariableOffset - OfsGameTitle
  BY DEF AssemblerInit
<1>2. CASE packer = "lzss"
  <2>1. PICK literals \in 2..4 : items = LzssItems(literals)
    BY <1>2 DEF AssemblerInit
  <2>2. CASE ~codeInHeader
    <3>1. variable = OfsComplement - OfsGameTitle
      BY <1>1, <2>2 DEF VariableOffset
    <3>2. Runs(items, 0, 216 + 4 * literals, variable)
      BY <2>1, <2>2, <3>1, LzssPlain
    <3>3. /\ 216 + 4 * literals \in Nat /\ 216 + 4 * literals >= HeaderSize
          /\ (216 + 4 * literals) % 4 = 0
      BY DEF HeaderSize
    <3>4. variable \in VariableIndexes /\ variable # OfsFixedByte - OfsGameTitle
      BY <3>1, LayoutAssumption DEF OfsComplement, OfsGameTitle, OfsFixedByte
    <3> QED BY <3>2, <3>3, <3>4
  <2>3. CASE codeInHeader
    <3>1. variable = OfsGameVersion - 2 - OfsGameTitle
      BY <1>1, <1>2, <2>3 DEF VariableOffset
    <3>2. Runs(items, 0, 188 + 4 * literals, variable)
      BY <2>1, <2>3, <3>1, LzssInHeader
    <3>3. /\ 188 + 4 * literals \in Nat /\ 188 + 4 * literals >= HeaderSize
          /\ (188 + 4 * literals) % 4 = 0
      BY DEF HeaderSize
    <3>4. variable \in VariableIndexes /\ variable # OfsFixedByte - OfsGameTitle
      BY <3>1, LayoutAssumption DEF OfsGameVersion, OfsGameTitle, OfsFixedByte
    <3> QED BY <3>2, <3>3, <3>4
  <2> QED BY <2>2, <2>3
<1>3. CASE packer = "shrinkler"
  <2>1. items = ShrinklerItems
    BY <1>3 DEF AssemblerInit
  <2>2. CASE ~codeInHeader
    <3>1. variable = OfsComplement - OfsGameTitle
      BY <1>1, <2>2 DEF VariableOffset
    <3>2. Runs(items, 0, 260, variable) /\ 260 >= HeaderSize /\ 260 % 4 = 0
      BY <2>1, <2>2, <3>1, ShrinklerPlain DEF HeaderSize
    <3>3. variable \in VariableIndexes /\ variable # OfsFixedByte - OfsGameTitle
      BY <3>1, LayoutAssumption DEF OfsComplement, OfsGameTitle, OfsFixedByte
    <3> QED BY <3>2, <3>3
  <2>3. CASE codeInHeader
    <3>1. variable = OfsGameVersion - OfsGameTitle
      BY <1>1, <1>3, <2>3 DEF VariableOffset
    <3>2. Runs(items, 0, 232, variable) /\ 232 >= HeaderSize /\ 232 % 4 = 0
      BY <2>1, <2>3, <3>1, ShrinklerInHeader DEF HeaderSize
    <3>3. variable \in VariableIndexes /\ variable # OfsFixedByte - OfsGameTitle
      BY <3>1, LayoutAssumption DEF OfsGameVersion, OfsGameTitle, OfsFixedByte
    <3> QED BY <3>2, <3>3
  <2> QED BY <2>2, <2>3
<1> QED BY <1>2, <1>3 DEF AssemblerInit

LEMMA AssemblerStarts ==
  AssemblerInit => AInv
<1> SUFFICES ASSUME AssemblerInit PROVE AInv
  OBVIOUS
<1>1. variable \in VariableIndexes /\ variable \in Nat
  <2>1. variable \in VariableIndexes
    BY LayoutFits
  <2> QED BY ONLY <2>1, ChecksumAssumption
<1>2. area \in [Index -> ByteRange]
  BY DEF AssemblerInit, ByteRange, ByteSize
<1>3. CInv
  BY <1>1, <1>2, ChecksumInit DEF AssemblerInit
<1>4. LayoutInv
  <2>1. lc = 0 /\ roles = << >> /\ pc = "write" /\ i = 0
    BY DEF AssemblerInit
  <2>2. /\ ~(OfsFixedByte < lc) /\ ~(OfsGameTitle + variable < lc)
    BY <1>1, <2>1 DEF OfsFixedByte, OfsGameTitle
  <2>3. roles \in Seq(Roles) /\ Len(roles) = lc
    BY <2>1
  <2> QED BY <2>1, <2>2, <2>3, LayoutFits DEF LayoutInv
<1> QED BY <1>3, <1>4 DEF AInv

LEMMA EmitKeeps ==
  ASSUME AInv, Emit
  PROVE  AInv'
<1> USE ChecksumAssumption
<1> DEFINE item == Head(items)
<1>1. PICK to \in Nat : Runs(items, lc, to, variable) /\ to >= HeaderSize /\ to % 4 = 0
  <2>1. LayoutInv
    BY DEF AInv
  <2> QED BY ONLY <2>1 DEF LayoutInv
<1>2. Fits(item, lc, variable) /\ Runs(Tail(items), lc + item.size, to, variable)
  <2>1. items # << >>
    BY DEF Emit
  <2> QED BY ONLY <1>1, <2>1, RunsHead
<1>3. /\ item \in ItemSet /\ item.size \in Nat /\ item.role \in Roles
      /\ item.values \subseteq ByteRange
  BY <1>2 DEF Fits, ItemSet
<1>4. EmitHead
  BY <1>2 DEF Emit, Misplaced, Fits
<1>5. PICK value \in item.values :
        area' = [k \in Index |-> IF OfsGameTitle + k \in lc..(lc + item.size - 1)
                                   THEN value ELSE area[k]]
  BY <1>4 DEF EmitHead
<1>6. /\ roles' = roles \o [k \in 1..item.size |-> item.role]
      /\ lc' = lc + item.size /\ items' = Tail(items)
      /\ UNCHANGED <<packer, codeInHeader, pc, variable, i, sum, partial>>
  BY <1>4 DEF EmitHead
<1> HIDE DEF item
<1>7. /\ area \in [Index -> ByteRange] /\ variable \in Index
      /\ lc \in Nat /\ roles \in Seq(Roles) /\ Len(roles) = lc
      /\ pc = "write" /\ i = 0
      /\ variable # OfsFixedByte - OfsGameTitle
      /\ OfsFixedByte < lc => area[OfsFixedByte - OfsGameTitle] = FixedByte
      /\ OfsGameTitle + variable < lc => roles[OfsGameTitle + variable + 1] \in Harmless
  BY DEF AInv, CInv, ChecksumTypeOK, LayoutInv, Emit, Index
<1>8. CInv'
  <2>1. area' \in [Index -> ByteRange]
    <3>1. \A k \in Index : (IF OfsGameTitle + k \in lc..(lc + item.size - 1)
                              THEN value ELSE area[k]) \in ByteRange
      BY <1>3, <1>5, <1>7
    <3> QED BY <1>5, <3>1
  <2>2. Recurrence(i) /\ partial[i] = sum /\ ChecksumTypeOK
    BY <1>7 DEF AInv, CInv
  <2>3. ChecksumTypeOK'
    BY <1>6, <2>1, <2>2 DEF ChecksumTypeOK
  <2>4. Recurrence(i)'
    BY <1>6, <1>7, <2>2 DEF Recurrence, Index
  <2> QED BY <1>6, <1>7, <2>2, <2>3, <2>4 DEF CInv
<1> DEFINE more == [k \in 1..item.size |-> item.role]
<1>9. more \in Seq(Roles) /\ Len(more) = item.size /\ \A k \in 1..item.size : more[k] = item.role
  BY <1>3
<1> HIDE DEF more
<1>10. /\ roles' \in Seq(Roles) /\ Len(roles') = lc'
       /\ \A k \in 1..lc : roles'[k] = roles[k]
       /\ \A k \in (lc + 1)..(lc + item.size) : roles'[k] = item.role
  <2>1. roles' = roles \o more
    BY <1>6 DEF more
  <2>2. /\ roles \o more \in Seq(Roles) /\ Len(roles \o more) = Len(roles) + Len(more)
        /\ \A k \in 1..(Len(roles) + Len(more)) :
             (roles \o more)[k] = IF k <= Len(roles) THEN roles[k] ELSE more[k - Len(roles)]
    BY ONLY <1>7, <1>9, ConcatProperties
  <2>3. lc' = lc + item.size /\ lc \in Nat /\ item.size \in Nat /\ Len(roles) = lc
        /\ Len(more) = item.size
    BY <1>3, <1>6, <1>7, <1>9
  <2>4. roles' \in Seq(Roles) /\ Len(roles') = lc'
    BY ONLY <2>1, <2>2, <2>3
  <2>5. \A k \in 1..lc : roles'[k] = roles[k]
    BY ONLY <2>1, <2>2, <2>3
  <2>6. ASSUME NEW k \in (lc + 1)..(lc + item.size) PROVE roles'[k] = item.role
    <3>1. k - lc \in 1..item.size /\ k \in 1..(lc + item.size) /\ ~(k <= lc)
      BY ONLY <2>3, k \in (lc + 1)..(lc + item.size)
    <3>2. roles'[k] = more[k - lc]
      BY ONLY <2>1, <2>2, <2>3, <3>1
    <3> QED BY ONLY <1>9, <3>1, <3>2
  <2> QED BY <2>4, <2>5, <2>6
<1>11. OfsGameTitle + variable < lc' => roles'[OfsGameTitle + variable + 1] \in Harmless
  <2>1. variable \in Nat /\ OfsGameTitle \in Nat
    BY <1>7 DEF Index, OfsGameTitle
  <2>2. CASE OfsGameTitle + variable < lc
    <3>1. OfsGameTitle + variable + 1 \in 1..lc
      BY <1>7, <2>1, <2>2
    <3> QED BY <1>7, <1>10, <2>2, <3>1
  <2>3. CASE lc <= OfsGameTitle + variable /\ OfsGameTitle + variable < lc + item.size
    <3>1. OfsGameTitle + variable + 1 \in (lc + 1)..(lc + item.size)
      BY <1>3, <1>7, <2>1, <2>3
    <3>2. item.role \in Harmless
      BY <1>2, <2>3 DEF Fits
    <3> QED BY <1>10, <3>1, <3>2
  <2>4. lc \in Nat /\ lc' = lc + item.size /\ OfsGameTitle + variable \in Nat
    BY <1>6, <1>7, <2>1
  <2>5. ASSUME NEW p \in Nat, NEW n \in Nat, NEW m \in Nat
        PROVE  p < n \/ (n <= p /\ p < n + m) \/ ~(p < n + m)
    OBVIOUS
  <2>6. \/ ~(OfsGameTitle + variable < lc')
        \/ OfsGameTitle + variable < lc
        \/ lc <= OfsGameTitle + variable /\ OfsGameTitle + variable < lc + item.size
    BY ONLY <1>3, <2>4, <2>5
  <2> QED BY <2>2, <2>3, <2>6
<1>12. OfsFixedByte < lc' => area'[OfsFixedByte - OfsGameTitle] = FixedByte
  <2> DEFINE k == OfsFixedByte - OfsGameTitle
  <2>1. k \in Index /\ OfsGameTitle + k = OfsFixedByte /\ OfsFixedByte \in Nat
    BY LayoutAssumption DEF Index, OfsFixedByte, OfsGameTitle, OfsComplement
  <2> HIDE DEF k
  <2>2. area'[k] = IF OfsFixedByte \in lc..(lc + item.size - 1) THEN value ELSE area[k]
    BY <1>5, <2>1
  <2>3. lc <= OfsFixedByte /\ OfsFixedByte < lc + item.size => value = FixedByte
    BY <1>2, <1>5 DEF Fits
  <2>4. lc < OfsFixedByte + 1 \/ area[k] = FixedByte
    BY <1>7, <2>1 DEF k
  <2>5. OfsFixedByte < lc' => area'[k] = FixedByte
    <3>1. lc \in Nat /\ lc' = lc + item.size
      BY <1>6, <1>7
    <3>2. CASE OfsFixedByte < lc
      BY <1>3, <2>1, <2>2, <2>4, <3>1, <3>2
    <3>3. CASE lc <= OfsFixedByte /\ OfsFixedByte < lc + item.size
      BY <1>3, <2>1, <2>2, <2>3, <3>1, <3>3
    <3> QED BY ONLY <1>3, <2>1, <3>1, <3>2, <3>3
  <2> QED BY <2>5 DEF k
<1>13. items' # << >> => pc' = "write" /\ i' = 0
  BY <1>6, <1>7
<1>14. \E n \in Nat : Runs(items', lc', n, variable') /\ n >= HeaderSize /\ n % 4 = 0
  BY <1>1, <1>2, <1>6
<1>15. lc' \in Nat /\ variable' # OfsFixedByte - OfsGameTitle
  BY <1>3, <1>6, <1>7
<1>16. LayoutInv'
  BY <1>6, <1>10, <1>11, <1>12, <1>13, <1>14, <1>15 DEF LayoutInv
<1> QED BY <1>8, <1>16 DEF AInv

(* When nothing is left to emit, the header is whole.                      *)
LEMMA Assembled ==
  ASSUME AInv, items = << >>
  PROVE  /\ lc >= HeaderSize /\ lc % 4 = 0
         /\ area[OfsFixedByte - OfsGameTitle] = FixedByte
         /\ roles[OfsGameTitle + variable + 1] \in Harmless
<1>1. PICK to \in Nat : Runs(<< >>, lc, to, variable) /\ to >= HeaderSize /\ to % 4 = 0
  BY DEF AInv, LayoutInv
<1>2. lc = to
  BY <1>1, RunsEnd
<1>3. variable \in 0..29
  BY ChecksumAssumption, LayoutAssumption
  DEF AInv, CInv, ChecksumTypeOK, OfsComplement, OfsGameTitle
<1>4. OfsFixedByte < lc /\ OfsGameTitle + variable < lc
  BY <1>1, <1>2, <1>3 DEF OfsFixedByte, OfsGameTitle, HeaderSize
<1> QED BY <1>1, <1>2, <1>4 DEF AInv, LayoutInv

LEMMA ChecksumKeeps ==
  ASSUME AInv, Checksum
  PROVE  AInv'
<1>1. items = << >>
  BY DEF Checksum
<1>2. Next /\ UNCHANGED layoutVars
  BY <1>1, Assembled DEF Checksum, FixedByteWrong
<1>3. CInv'
  BY <1>2, ChecksumStep DEF AInv
<1>4. variable' = variable
  BY <1>2 DEF Next, AddByte, WriteComplement, ThrowIfComplementWrong
<1>5. area'[OfsFixedByte - OfsGameTitle] = area[OfsFixedByte - OfsGameTitle]
  <2>1. CASE UNCHANGED area
    BY <2>1
  <2>2. CASE WriteComplement
    <3>1. area \in [Index -> ByteRange] /\ variable # OfsFixedByte - OfsGameTitle
      BY DEF AInv, CInv, ChecksumTypeOK, LayoutInv
    <3>2. OfsFixedByte - OfsGameTitle \in Index
      BY LayoutAssumption DEF Index, OfsFixedByte, OfsGameTitle, OfsComplement
    <3> QED BY <2>2, <3>1, <3>2 DEF WriteComplement
  <2> QED BY <1>2, <2>1, <2>2 DEF Next, AddByte, ThrowIfComplementWrong
<1>6. LayoutInv'
  BY <1>1, <1>2, <1>4, <1>5 DEF layoutVars, AInv, LayoutInv
<1> QED BY <1>3, <1>6 DEF AInv

LEMMA AssemblerPreserves ==
  AInv /\ [AssemblerNext]_<<checksumVars, layoutVars>> => AInv'
<1> SUFFICES ASSUME AInv, [AssemblerNext]_<<checksumVars, layoutVars>> PROVE AInv'
  OBVIOUS
<1>1. CASE UNCHANGED <<checksumVars, layoutVars>>
  <2>1. CInv'
    BY <1>1, ChecksumStep DEF AInv
  <2>2. LayoutInv'
    BY <1>1 DEF checksumVars, layoutVars, AInv, LayoutInv
  <2> QED BY <2>1, <2>2 DEF AInv
<1> QED BY <1>1, EmitKeeps, ChecksumKeeps DEF AssemblerNext

-----------------------------------------------------------------------------
(* The same of the header as the two packers assemble it, with whatever    *)
(* code in it.                                                             *)
THEOREM AssemblerInvariance == AssemblerSpec => []AInv
<1> QED BY AssemblerStarts, AssemblerPreserves, PTL DEF AssemblerSpec

(* No check of the packers throws: every item is emitted where it has to   *)
(* be, the fixed byte has its value and the complement is right.           *)
THEOREM AssemblyNeverThrows == AssemblerSpec => []NeverThrown
<1>1. AInv => NeverThrown
  BY DEF AInv, CInv, NeverThrown
<1> QED BY <1>1, AssemblerInvariance, PTL

(* The assembled cartridge boots.                                          *)
THEOREM AssembledRomBoots == AssemblerSpec => []BiosAccepts
<1>1. AInv => BiosAccepts
  BY ChecksumBoots DEF AInv
<1> QED BY <1>1, AssemblerInvariance, PTL

(* The byte that balances the checksum is neither code nor a field, and    *)
(* the header is whole when the checksum is computed.                      *)
THEOREM PatchSafety == AssemblerSpec => []PatchHarmless
<1>1. AInv => PatchHarmless
  <2> SUFFICES ASSUME AInv, pc \in {"check", "ok"}
               PROVE  /\ roles[OfsGameTitle + variable + 1] \in Harmless
                      /\ lc >= HeaderSize /\ lc % 4 = 0
    BY DEF PatchHarmless, Harmless
  <2>1. items = << >>
    BY DEF AInv, LayoutInv
  <2> QED BY <2>1, Assembled
<1> QED BY <1>1, AssemblerInvariance, PTL
=============================================================================

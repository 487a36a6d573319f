--------------------------- MODULE DebugChecksProofs ---------------------------
(***************************************************************************)
(* Proofs about DebugChecks, for every base, every set of bytes below it   *)
(* and intros of any length.                                               *)
(***************************************************************************)
EXTENDS DebugChecks, SequenceTheorems, TLAPS

(* A remainder is a conditional subtraction below twice the base.          *)
LEMMA ReduceIsRemainder ==
  ASSUME NEW b \in Nat \ {0}, NEW x \in Nat, x < 2 * b
  PROVE  x % b = IF x < b THEN x ELSE x - b
<1>1. CASE x < b
  BY <1>1, Z3
<1>2. CASE x >= b
  BY <1>2, Z3
<1> QED BY <1>1, <1>2

(* The packer's sums are those that Reduce yields as well.                 *)
HostInv ==
  /\ Len(data) <= MaxData
  /\ Len(host) = Len(data) + 1
  /\ host[1] = [s1 |-> 1, s2 |-> 0]
  /\ \A i \in 1..Len(data) :
       /\ host[i + 1].s1 = Reduce(host[i].s1 + data[i])
       /\ host[i + 1].s2 = Reduce(host[i].s2 + host[i + 1].s1)

MemInv == pc \notin {"adler32", "depack"} => Len(mem) = Len(data)

SizeInv ==
  /\ pc # "adler32" => Len(data) >= 1
  /\ pc \in {"data", "adler32_loop", "checksum", "sp", "intro"} => depacked = Len(data)

(* The loop, which looks at its counter only after a byte, reads each byte *)
(* of the intro once and none beyond.                                      *)
LoopInv ==
  /\ pc = "adler32_loop" => counter >= 1 /\ index + counter = Len(data)
  /\ pc \in {"checksum", "sp", "intro"} => index = Len(data)

(* How far the sums of a damaged intro are off, once the damage is read.   *)
Off(difference) == {difference, difference - Base, difference + Base}

SumsInv ==
  /\ (\A j \in 1..index : mem[j] = data[j]) =>
       s1 = host[index + 1].s1 /\ s2 = host[index + 1].s2
  /\ \A i \in 1..Len(data) :
       WrongByte(i) /\ i <= index => s1 # host[index + 1].s1
  /\ \A i \in 1..(Len(data) - 1) : SwappedBytes(i) =>
       /\ i = index =>
            /\ s1 - host[index + 1].s1 \in Off(data[i + 1] - data[i])
            /\ s2 - host[index + 1].s2 \in Off(data[i + 1] - data[i])
       /\ i < index =>
            s1 = host[index + 1].s1 /\ s2 # host[index + 1].s2

ChecksInv ==
  /\ pc \in {"adler32_loop", "checksum"} => SumsInv
  /\ pc \in {"sp", "intro"} =>
       s1 = host[Len(host)].s1 /\ s2 = host[Len(host)].s2 /\ SumsInv
  /\ pc = "intro" => sp = InitialSp

DInv ==
  /\ DebugTypeOK /\ HostInv /\ MemInv /\ SizeInv /\ LoopInv
  /\ ChecksInv /\ NoFalseAlarm

-----------------------------------------------------------------------------
LEMMA Constants ==
  /\ Base \in Nat /\ Half \in Nat /\ 2 <= Base /\ Base <= Half
  /\ \A b \in Bytes : b \in 0..(Base - 1)
  BY DebugAssumption

LEMMA SumReduced ==
  ASSUME NEW x \in 0..(Base - 1), NEW y \in 0..(Base - 1)
  PROVE  (x + y) % Base = Reduce(x + y) /\ Reduce(x + y) \in 0..(Base - 1)
<1> USE Constants
<1> PICK z : z = x + y
  OBVIOUS
<1>1. z \in Nat /\ z < 2 * Base /\ Base \in Nat \ {0}
  OBVIOUS
<1>2. Reduce(x + y) \in 0..(Base - 1)
  BY DEF Reduce
<1>3. z % Base = IF z < Base THEN z ELSE z - Base
  BY ONLY <1>1, ReduceIsRemainder
<1> QED BY <1>2, <1>3 DEF Reduce

LEMMA InitEstablishes ==
  Init => DInv
<1> SUFFICES ASSUME Init PROVE DInv
  OBVIOUS
<1> USE Constants
<1>1. data = << >> /\ mem = << >> /\ host = <<[s1 |-> 1, s2 |-> 0]>> /\ pc = "adler32"
  BY DEF Init
<1>2. data \in Seq(Bytes) /\ mem \in Seq(Bytes) /\ Len(data) = 0
  BY <1>1, EmptySeq
<1>3. [s1 |-> 1, s2 |-> 0] \in Sums
  BY DEF Sums
<1>4. host \in Seq(Sums) /\ Len(host) = 1 /\ host[1] = [s1 |-> 1, s2 |-> 0]
  BY <1>1, <1>3
<1>5. DebugTypeOK
  BY <1>1, <1>2, <1>4 DEF Init, DebugTypeOK, Labels
<1>6. MaxData \in Nat
  BY DebugAssumption
<1> QED
  BY <1>1, <1>2, <1>4, <1>5, <1>6
  DEF DInv, HostInv, MemInv, SizeInv, LoopInv, ChecksInv, NoFalseAlarm

(* The packer's side: another byte of the intro.                           *)
LEMMA Adler32Preserves ==
  ASSUME DInv, NEW byte \in Bytes, Adler32(byte)
  PROVE  DInv'
<1> USE Constants
<1> PICK n : n = Len(data)
  OBVIOUS
<1> PICK sums, sum1, sum2 :
      /\ sums = host[n + 1]
      /\ sum1 = (sums.s1 + byte) % Base
      /\ sum2 = (sums.s2 + sum1) % Base
  OBVIOUS
<1>1. /\ data \in Seq(Bytes) /\ host \in Seq(Sums) /\ n \in Nat
      /\ Len(host) = n + 1 /\ pc = "adler32" /\ pc' = pc
      /\ UNCHANGED <<mem, depacked, sp, s1, s2, index, counter>>
      /\ data' = Append(data, byte)
      /\ host' = Append(host, [s1 |-> sum1, s2 |-> sum2])
  BY LenProperties DEF DInv, DebugTypeOK, HostInv, Adler32, registers
<1>2. sums \in Sums
  <2>1. n + 1 \in 1..Len(host)
    BY <1>1
  <2> QED BY <1>1, <2>1, ElementOfSeq
<1>3. /\ sum1 = Reduce(sums.s1 + byte) /\ sum1 \in 0..(Base - 1)
      /\ sum2 = Reduce(sums.s2 + sum1) /\ sum2 \in 0..(Base - 1)
  <2> PICK x, y : x = sums.s1 /\ y = sums.s2
    OBVIOUS
  <2>1. x \in 0..(Base - 1) /\ y \in 0..(Base - 1) /\ byte \in 0..(Base - 1)
    BY <1>2 DEF Sums
  <2>2. sum1 = Reduce(x + byte) /\ sum1 \in 0..(Base - 1)
    BY <2>1, SumReduced
  <2>3. sum2 = Reduce(y + sum1) /\ sum2 \in 0..(Base - 1)
    <3>1. sum1 \in 0..(Base - 1) /\ sum2 = (y + sum1) % Base
      BY <2>2
    <3> QED BY ONLY <2>1, <3>1, SumReduced
  <2> QED BY <2>2, <2>3
<1>4. [s1 |-> sum1, s2 |-> sum2] \in Sums
  BY <1>3 DEF Sums
<1>5. /\ data' \in Seq(Bytes) /\ Len(data') = n + 1
      /\ data'[n + 1] = byte /\ \A i \in 1..n : data'[i] = data[i]
  BY <1>1, AppendProperties
<1>6. /\ host' \in Seq(Sums) /\ Len(host') = n + 2
      /\ host'[n + 2] = [s1 |-> sum1, s2 |-> sum2]
      /\ \A i \in 1..(n + 1) : host'[i] = host[i]
  <2>1. (n + 1) + 1 = n + 2
    BY <1>1
  <2> QED BY <1>1, <1>4, <2>1, AppendProperties
<1>7. DebugTypeOK'
  BY <1>1, <1>5, <1>6 DEF DInv, DebugTypeOK
<1>8. HostInv'
  <2>1. ASSUME NEW i \in 1..(n + 1)
        PROVE  /\ host'[i + 1].s1 = Reduce(host'[i].s1 + data'[i])
               /\ host'[i + 1].s2 = Reduce(host'[i].s2 + host'[i + 1].s1)
    <3>1. CASE i = n + 1
      <4>1. host'[i + 1] = [s1 |-> sum1, s2 |-> sum2] /\ host'[i] = sums /\ data'[i] = byte
        BY <1>1, <1>5, <1>6, <3>1
      <4> QED BY <1>3, <4>1
    <3>2. CASE i \in 1..n
      <4>1. i \in 1..(n + 1) /\ i + 1 \in 1..(n + 1)
        BY <1>1, <3>2
      <4>2. host'[i + 1] = host[i + 1] /\ host'[i] = host[i] /\ data'[i] = data[i]
        BY <1>5, <1>6, <3>2, <4>1
      <4> QED BY <3>2, <4>2 DEF DInv, HostInv
    <3> QED BY <1>1, <3>1, <3>2
  <2>2. host'[1] = [s1 |-> 1, s2 |-> 0]
    BY <1>1, <1>6 DEF DInv, HostInv
  <2>3. Len(data') = n + 1 /\ Len(host') = Len(data') + 1 /\ Len(data') <= MaxData
    <3>1. n < MaxData
      BY DEF Adler32
    <3>2. MaxData \in Nat
      BY DebugAssumption
    <3> QED BY <1>1, <1>5, <1>6, <3>1, <3>2
  <2>4. \A i \in 1..Len(data') :
          /\ host'[i + 1].s1 = Reduce(host'[i].s1 + data'[i])
          /\ host'[i + 1].s2 = Reduce(host'[i].s2 + host'[i + 1].s1)
    BY <2>1, <2>3
  <2> QED BY <2>2, <2>3, <2>4 DEF HostInv, Reduce
<1>9. (MemInv /\ SizeInv /\ LoopInv /\ ChecksInv /\ NoFalseAlarm)'
  BY <1>1 DEF MemInv, SizeInv, LoopInv, ChecksInv, NoFalseAlarm
<1> QED BY <1>7, <1>8, <1>9 DEF DInv

-----------------------------------------------------------------------------
(* Arithmetic modulo the base: what a sum keeps of the difference between  *)
(* what it has been added.                                                 *)
LEMMA DifferenceStays ==
  ASSUME NEW x \in 0..(Base - 1), NEW y \in 0..(Base - 1), NEW z \in 0..(Base - 1),
         x # y
  PROVE  Reduce(x + z) # Reduce(y + z) /\ Reduce(z + x) # Reduce(z + y)
  BY Constants DEF Reduce

LEMMA DifferenceBounded ==
  ASSUME NEW p \in 0..(Base - 1), NEW q \in 0..(Base - 1)
  PROVE  p - q \in (1 - Base)..(Base - 1) /\ p - q \in Off(p - q)
  BY Constants DEF Off

LEMMA DifferenceAdded ==
  ASSUME NEW z \in 0..(Base - 1), NEW x \in 0..(Base - 1), NEW y \in 0..(Base - 1),
         NEW d \in (1 - Base)..(Base - 1), x - y \in Off(d)
  PROVE  Reduce(z + x) - Reduce(z + y) \in Off(d)
<1> USE Constants
<1>1. Reduce(z + x) - Reduce(z + y) \in {x - y, x - y - Base, x - y + Base}
  BY DEF Reduce
<1>2. Reduce(z + x) \in 0..(Base - 1) /\ Reduce(z + y) \in 0..(Base - 1)
  BY DEF Reduce
<1>3. x - y \in {d, d - Base, d + Base}
  BY DEF Off
<1> PICK u, v : u = Reduce(z + x) /\ v = Reduce(z + y)
  OBVIOUS
<1>4. /\ u - v \in {x - y, x - y - Base, x - y + Base}
      /\ u \in 0..(Base - 1) /\ v \in 0..(Base - 1)
  BY <1>1, <1>2
<1>5. u - v \in {d, d - Base, d + Base}
  BY <1>3, <1>4
<1> QED BY <1>5 DEF Off

LEMMA DifferenceCancelled ==
  ASSUME NEW x \in 0..(Base - 1), NEW y \in 0..(Base - 1),
         NEW p \in 0..(Base - 1), NEW q \in 0..(Base - 1), x - y \in Off(p - q)
  PROVE  Reduce(x + q) = Reduce(y + p)
<1>1. x - y \in {p - q, p - q - Base, p - q + Base}
  BY DEF Off
<1> QED BY <1>1, Constants DEF Reduce

LEMMA OffDiffers ==
  ASSUME NEW x \in 0..(Base - 1), NEW y \in 0..(Base - 1),
         NEW p \in 0..(Base - 1), NEW q \in 0..(Base - 1), p # q, x - y \in Off(p - q)
  PROVE  x # y
<1>1. x - y \in {p - q, p - q - Base, p - q + Base}
  BY DEF Off
<1> QED BY <1>1, Constants

LEMMA SmallRemainder ==
  ASSUME NEW b \in Nat, NEW x \in Nat, x < b
  PROVE  x % b = x
  BY Z3

(* An iteration of the loop, in the loop's terms.                          *)
LEMMA LoopStep ==
  ASSUME DInv, Adler32Loop, NEW n, n = Len(data), NEW k, k = index
  PROVE  /\ n \in Nat /\ k \in 0..(n - 1) /\ index' = k + 1
         /\ mem \in Seq(Bytes) /\ data \in Seq(Bytes) /\ Len(mem) = n
         /\ mem[k + 1] \in 0..(Base - 1) /\ data[k + 1] \in 0..(Base - 1)
         /\ s1' = Reduce(s1 + mem[k + 1]) /\ s2' = Reduce(s2 + s1')
         /\ s1 \in 0..(Base - 1) /\ s2 \in 0..(Base - 1)
         /\ s1' \in 0..(Base - 1) /\ s2' \in 0..(Base - 1)
         /\ counter' = n - (k + 1)
         /\ UNCHANGED outside
<1> USE Constants
<1>1. /\ pc = "adler32_loop" /\ data \in Seq(Bytes) /\ mem \in Seq(Bytes)
      /\ Len(mem) = n /\ n \in Nat /\ k \in Nat /\ counter \in Nat
      /\ counter >= 1 /\ k + counter = n /\ n <= MaxData
      /\ s1 \in 0..(Base - 1) /\ s2 \in 0..(Base - 1)
  BY LenProperties
  DEF Adler32Loop, DInv, DebugTypeOK, HostInv, MemInv, LoopInv
<1>2. k \in 0..(n - 1) /\ k + 1 \in 1..n
  BY ONLY <1>1
<1>3. mem[k + 1] \in 0..(Base - 1) /\ data[k + 1] \in 0..(Base - 1)
  <2>1. mem[k + 1] \in Bytes /\ data[k + 1] \in Bytes
    BY <1>1, <1>2, ElementOfSeq
  <2> QED BY <2>1
<1>4. s1' = Reduce(s1 + mem[k + 1])
  <2>1. index < Len(mem)
    BY <1>1, <1>2
  <2> QED BY <2>1 DEF Adler32Loop
<1>5. s1' \in 0..(Base - 1)
  BY <1>1, <1>3, <1>4, SumReduced
<1>6. s2' = Reduce(s2 + s1') /\ index' = k + 1 /\ UNCHANGED outside
  BY DEF Adler32Loop
<1>7. s2' \in 0..(Base - 1)
  BY <1>1, <1>5, <1>6, SumReduced
<1>8. counter' = n - (k + 1)
  <2> PICK m, w : m = counter - 1 /\ w = Half * Half
    OBVIOUS
  <2>1. MaxData \in Nat /\ MaxData < w
    BY DebugAssumption
  <2>2. w \in Nat
    OBVIOUS
  <2>3. m \in Nat /\ m < w
    BY ONLY <1>1, <2>1, <2>2, m = counter - 1
  <2>4. counter' = m % w
    BY DEF Adler32Loop
  <2>5. counter' = m
    BY <2>2, <2>3, <2>4, SmallRemainder
  <2> QED BY ONLY <1>1, <2>5, m = counter - 1
<1> QED BY <1>1, <1>2, <1>3, <1>4, <1>5, <1>6, <1>7, <1>8

(* The sums of the loop are those of the packer until the first damage,    *)
(* and from then on differ in the first sum, or in the second.             *)
LEMMA LoopKeepsSums ==
  ASSUME DInv, Adler32Loop
  PROVE  SumsInv'
<1> USE Constants
<1> PICK n, k : n = Len(data) /\ k = index
  OBVIOUS
<1> PICK p, q, a, b, a2, b2 :
      /\ p = mem[k + 1] /\ q = data[k + 1]
      /\ a = host[k + 1].s1 /\ b = host[k + 1].s2
      /\ a2 = host[(k + 1) + 1].s1 /\ b2 = host[(k + 1) + 1].s2
  OBVIOUS
<1>1. /\ n \in Nat /\ k \in 0..(n - 1) /\ index' = k + 1
      /\ mem \in Seq(Bytes) /\ data \in Seq(Bytes) /\ Len(mem) = n
      /\ p \in 0..(Base - 1) /\ q \in 0..(Base - 1)
      /\ s1' = Reduce(s1 + p) /\ s2' = Reduce(s2 + s1')
      /\ s1 \in 0..(Base - 1) /\ s2 \in 0..(Base - 1)
      /\ s1' \in 0..(Base - 1) /\ s2' \in 0..(Base - 1)
      /\ UNCHANGED outside
  BY LoopStep
<1>2. /\ a2 = Reduce(a + q) /\ b2 = Reduce(b + a2)
      /\ a \in 0..(Base - 1) /\ b \in 0..(Base - 1)
      /\ a2 \in 0..(Base - 1) /\ b2 \in 0..(Base - 1)
  <2>1. k + 1 \in 1..Len(data) /\ k + 1 \in 1..Len(host) /\ (k + 1) + 1 \in 1..Len(host)
    <3>1. Len(data) = n /\ Len(host) = n + 1
      BY DEF DInv, HostInv
    <3> QED BY ONLY <1>1, <3>1
  <2>2. host[k + 1] \in Sums /\ host[(k + 1) + 1] \in Sums
    BY <2>1, ElementOfSeq DEF DInv, DebugTypeOK
  <2>3. /\ host[(k + 1) + 1].s1 = Reduce(host[k + 1].s1 + data[k + 1])
        /\ host[(k + 1) + 1].s2 = Reduce(host[k + 1].s2 + host[(k + 1) + 1].s1)
    BY <2>1 DEF DInv, HostInv
  <2> QED BY <2>2, <2>3 DEF Sums
<1>3. SumsInv
  BY DEF DInv, ChecksInv, Adler32Loop
<1>s. (\A j \in 1..k : mem[j] = data[j]) => s1 = a /\ s2 = b
  BY <1>3 DEF SumsInv
<1>4. ASSUME \A j \in 1..(k + 1) : mem[j] = data[j]
      PROVE  s1' = a2 /\ s2' = b2
  <2>1. \A j \in 1..k : mem[j] = data[j]
    BY <1>1, <1>4
  <2>2. p = q
    BY <1>1, <1>4
  <2> QED BY <1>1, <1>2, <1>s, <2>1, <2>2
<1>5. ASSUME NEW i \in 1..n, WrongByte(i), i <= k + 1
      PROVE  s1' # a2
  <2>1. CASE i = k + 1
    <3>1. p # q /\ \A j \in 1..k : mem[j] = data[j]
      BY <1>1, <1>5, <2>1 DEF WrongByte
    <3>2. s1 = a
      BY <1>s, <3>1
    <3> QED BY ONLY <1>1, <1>2, <3>1, <3>2, DifferenceStays
  <2>2. CASE i <= k
    <3>1. p = q
      <4>1. k + 1 # i /\ k + 1 \in 1..n
        BY <1>1, <2>2
      <4> QED BY <1>5, <4>1 DEF WrongByte
    <3>2. s1 # a
      BY <1>3, <1>5, <2>2 DEF SumsInv
    <3> QED BY ONLY <1>1, <1>2, <3>1, <3>2, DifferenceStays
  <2> QED BY <1>1, <1>5, <2>1, <2>2
<1>6. ASSUME NEW i \in 1..(n - 1), SwappedBytes(i), i = k + 1
      PROVE  /\ s1' - a2 \in Off(data[i + 1] - data[i])
             /\ s2' - b2 \in Off(data[i + 1] - data[i])
  <2> PICK r : r = data[i + 1]
    OBVIOUS
  <2>1. q = data[i] /\ p = r /\ \A j \in 1..k : mem[j] = data[j]
    BY <1>1, <1>6 DEF SwappedBytes
  <2>2. s1 = a /\ s2 = b
    BY <1>s, <2>1
  <2>3. s1' - a2 \in Off(p - q)
    <3>1. p - q \in (1 - Base)..(Base - 1) /\ p - q \in Off(p - q)
      BY ONLY <1>1, DifferenceBounded
    <3>2. Reduce(a + p) - Reduce(a + q) \in Off(p - q)
      BY <1>1, <1>2, <3>1, DifferenceAdded
    <3> QED BY <1>1, <1>2, <2>2, <3>2
  <2>4. s2' - b2 \in Off(p - q)
    <3>1. p - q \in (1 - Base)..(Base - 1)
      BY ONLY <1>1, DifferenceBounded
    <3>2. Reduce(b + s1') - Reduce(b + a2) \in Off(p - q)
      BY <1>1, <1>2, <2>3, <3>1, DifferenceAdded
    <3> QED BY <1>1, <1>2, <2>2, <3>2
  <2> QED BY <2>1, <2>3, <2>4
<1>7. ASSUME NEW i \in 1..(n - 1), SwappedBytes(i), i <= k
      PROVE  s1' = a2 /\ s2' # b2
  <2>1. s1' = a2 /\ s2 # b
    <3>1. CASE i = k
      <4> PICK r : r = data[i]
        OBVIOUS
      <4>1. p = r /\ q # r /\ q = data[i + 1]
        BY <1>1, <1>7, <3>1 DEF SwappedBytes
      <4>2. s1 - a \in Off(q - r) /\ s2 - b \in Off(q - r)
        BY <1>3, <1>7, <3>1, <4>1 DEF SumsInv
      <4>3. Reduce(s1 + r) = Reduce(a + q)
        <5>1. q \in 0..(Base - 1) /\ r \in 0..(Base - 1)
          BY <1>1, <4>1
        <5>2. s1 \in 0..(Base - 1) /\ a \in 0..(Base - 1)
          BY <1>1, <1>2
        <5> QED BY ONLY <4>2, <5>1, <5>2, DifferenceCancelled
      <4>4. s2 # b
        BY <1>1, <1>2, <4>1, <4>2, OffDiffers
      <4> QED BY <1>1, <1>2, <4>1, <4>3, <4>4
    <3>2. CASE i < k
      <4>1. p = q
        <5>1. k + 1 \notin {i, i + 1} /\ k + 1 \in 1..n
          BY <1>1, <3>2
        <5> QED BY <1>7, <5>1 DEF SwappedBytes
      <4>2. s1 = a /\ s2 # b
        BY <1>3, <1>7, <3>2 DEF SumsInv
      <4> QED BY <1>1, <1>2, <4>1, <4>2
    <3> QED BY <1>1, <1>7, <3>1, <3>2
  <2>2. s2' = Reduce(s2 + a2) /\ b2 = Reduce(b + a2)
    BY <1>1, <1>2, <2>1
  <2>3. \A x, y, z \in 0..(Base - 1) : x # y => Reduce(x + z) # Reduce(y + z)
    BY ONLY DifferenceStays
  <2>4. Reduce(s2 + a2) # Reduce(b + a2)
    BY ONLY <1>1, <1>2, <2>1, <2>3
  <2> QED BY ONLY <2>1, <2>2, <2>4
<1>8. /\ data' = data /\ mem' = mem /\ host' = host /\ Len(data) = n
  BY <1>1 DEF outside
<1>9. \A i : WrongByte(i)' = WrongByte(i) /\ SwappedBytes(i)' = SwappedBytes(i)
  BY <1>8 DEF WrongByte, SwappedBytes
<1>10. \A i \in 1..(n - 1) : SwappedBytes(i) =>
         /\ i = k + 1 =>
              /\ s1' - a2 \in Off(data[i + 1] - data[i])
              /\ s2' - b2 \in Off(data[i + 1] - data[i])
         /\ i < k + 1 => s1' = a2 /\ s2' # b2
  <2> SUFFICES ASSUME NEW i \in 1..(n - 1), SwappedBytes(i)
               PROVE  /\ i = k + 1 =>
                           /\ s1' - a2 \in Off(data[i + 1] - data[i])
                           /\ s2' - b2 \in Off(data[i + 1] - data[i])
                      /\ i < k + 1 => s1' = a2 /\ s2' # b2
    OBVIOUS
  <2>1. CASE i = k + 1
    BY <1>1, <1>6, <2>1
  <2>2. CASE i < k + 1
    <3>1. i <= k /\ i # k + 1
      BY ONLY <1>1, <2>2, i \in 1..(n - 1)
    <3>2. s1' = a2 /\ s2' # b2
      BY <1>7, <3>1
    <3> QED BY <3>1, <3>2
  <2> QED BY <2>1, <2>2
<1>11. \A i \in 1..n : WrongByte(i) /\ i <= k + 1 => s1' # a2
  BY <1>5
<1> QED BY <1>1, <1>4, <1>8, <1>9, <1>10, <1>11 DEF SumsInv, Off

LEMMA Adler32LoopPreserves ==
  ASSUME DInv, Adler32Loop
  PROVE  DInv'
<1> USE Constants
<1> PICK n, k : n = Len(data) /\ k = index
  OBVIOUS
<1>1. /\ n \in Nat /\ k \in 0..(n - 1) /\ index' = k + 1
      /\ s1' \in 0..(Base - 1) /\ s2' \in 0..(Base - 1)
      /\ counter' = n - (k + 1)
      /\ UNCHANGED outside
  BY LoopStep
<1>2. /\ pc = "adler32_loop"
      /\ pc' = IF counter' = 0 THEN "checksum" ELSE pc
  BY DEF Adler32Loop
<1>3. counter' \in Nat /\ index' \in Nat
  BY <1>1
<1>4. DebugTypeOK'
  BY <1>1, <1>2, <1>3 DEF DInv, DebugTypeOK, Labels, outside
<1>5. LoopInv'
  <2>1. Len(data') = n
    BY <1>1 DEF outside
  <2>2. CASE counter' = 0
    BY <1>1, <1>2, <2>1, <2>2 DEF LoopInv
  <2>3. CASE counter' # 0
    BY <1>1, <1>2, <1>3, <2>1, <2>3 DEF LoopInv
  <2> QED BY <2>2, <2>3
<1>6. HostInv' /\ MemInv' /\ SizeInv' /\ NoFalseAlarm'
  BY <1>1, <1>2 DEF DInv, HostInv, MemInv, SizeInv, NoFalseAlarm, outside
<1>7. ChecksInv'
  BY <1>2, LoopKeepsSums DEF ChecksInv
<1> QED BY <1>4, <1>5, <1>6, <1>7 DEF DInv

-----------------------------------------------------------------------------
LEMMA Outside ==
  ASSUME DInv, UNCHANGED outside
  PROVE  HostInv' /\ (SumsInv /\ UNCHANGED registers => SumsInv')
  BY DEF DInv, HostInv, SumsInv, WrongByte, SwappedBytes, outside, registers

LEMMA AssemblePreserves ==
  ASSUME DInv, Assemble
  PROVE  DInv'
<1>1. pc = "adler32" /\ pc' = "depack" /\ UNCHANGED <<outside, registers>> /\ data # << >>
  BY DEF Assemble
<1>2. HostInv' /\ DebugTypeOK'
  BY <1>1, Outside DEF DInv, DebugTypeOK, Labels, outside, registers
<1>3. Len(data) >= 1 /\ data' = data
  BY <1>1, LenProperties, EmptySeq DEF DInv, DebugTypeOK, outside
<1> QED
  BY <1>1, <1>2, <1>3 DEF DInv, MemInv, SizeInv, LoopInv, ChecksInv, NoFalseAlarm

LEMMA DepackPreserves ==
  ASSUME DInv, Depack
  PROVE  DInv'
<1>1. /\ pc = "depack" /\ pc' = "size" /\ UNCHANGED <<data, host, registers>>
      /\ mem' \in [1..Len(data) -> Bytes] /\ depacked' \in 1..(MaxData + 1)
      /\ Len(data) \in Nat
  BY LenProperties DEF Depack, DInv, DebugTypeOK
<1>2. mem' \in Seq(Bytes) /\ Len(mem') = Len(data)
  <2>1. mem' \in Seq(Bytes)
    BY <1>1
  <2> QED BY <1>1, <2>1, LenProperties
<1>3. depacked' \in Nat
  BY <1>1, DebugAssumption
<1>4. DebugTypeOK' /\ HostInv'
  BY <1>1, <1>2, <1>3 DEF DInv, DebugTypeOK, HostInv, Labels, registers
<1> QED
  BY <1>1, <1>2, <1>3, <1>4
  DEF DInv, MemInv, SizeInv, LoopInv, ChecksInv, NoFalseAlarm

LEMMA CheckSizePreserves ==
  ASSUME DInv, CheckSize
  PROVE  DInv'
<1>1. /\ pc = "size" /\ UNCHANGED <<outside, registers>>
      /\ pc' = IF depacked = Len(data) THEN "data" ELSE "panic"
  BY DEF CheckSize
<1>2. HostInv' /\ DebugTypeOK' /\ MemInv'
  BY <1>1, Outside DEF DInv, DebugTypeOK, MemInv, Labels, outside, registers
<1>3. SizeInv' /\ NoFalseAlarm'
  BY <1>1 DEF DInv, SizeInv, NoFalseAlarm, Faultless, outside
<1> QED
  BY <1>1, <1>2, <1>3 DEF DInv, LoopInv, ChecksInv

LEMMA StartLoopPreserves ==
  ASSUME DInv, StartLoop
  PROVE  DInv'
<1> USE Constants
<1>1. /\ pc = "data" /\ pc' = "adler32_loop" /\ UNCHANGED outside
      /\ s1' = 1 /\ s2' = 0 /\ index' = 0 /\ counter' = Len(data)
      /\ Len(data) \in Nat /\ Len(data) >= 1 /\ depacked = Len(data)
  BY LenProperties DEF StartLoop, DInv, DebugTypeOK, SizeInv
<1>2. HostInv' /\ DebugTypeOK' /\ MemInv'
  BY <1>1, Outside DEF DInv, DebugTypeOK, MemInv, Labels, outside
<1>3. SizeInv' /\ NoFalseAlarm' /\ LoopInv'
  BY <1>1 DEF SizeInv, NoFalseAlarm, LoopInv, outside
<1>4. SumsInv'
  <2>1. host'[index' + 1].s1 = s1' /\ host'[index' + 1].s2 = s2'
    BY <1>1 DEF DInv, HostInv, outside
  <2>2. Len(data') = Len(data)
    BY <1>1 DEF outside
  <2>3. \A i \in 1..Len(data) : ~(i <= index') /\ i # index' /\ ~(i < index')
    BY <1>1
  <2>4. \A i \in 1..(Len(data) - 1) : i \in 1..Len(data)
    BY <1>1
  <2> QED BY <2>1, <2>2, <2>3, <2>4 DEF SumsInv
<1> QED
  BY <1>1, <1>2, <1>3, <1>4 DEF DInv, ChecksInv

(* Two pairs of sums that fit half words are equal if their words are.     *)
LEMMA CombineInjective ==
  ASSUME NEW x \in 0..(Base - 1), NEW y \in 0..(Base - 1),
         NEW u \in 0..(Base - 1), NEW v \in 0..(Base - 1)
  PROVE  Combine(x, y) = Combine(u, v) <=> x = u /\ y = v
<1> USE Constants
<1> PICK h, yh, vh : h = Half /\ yh = y * h /\ vh = v * h
  OBVIOUS
<1>1. /\ h \in Nat /\ x \in 0..(h - 1) /\ y \in 0..(h - 1)
      /\ u \in 0..(h - 1) /\ v \in 0..(h - 1)
  BY ONLY Constants, h = Half, x \in 0..(Base - 1), y \in 0..(Base - 1),
          u \in 0..(Base - 1), v \in 0..(Base - 1)
<1>2. ASSUME NEW z \in 0..(h - 1)
      PROVE  z * h \in Nat /\ h * h \in Nat /\ z * h < h * h /\ (z * h) % (h * h) = z * h
  <2>1. z * h \in Nat /\ h * h \in Nat
    BY <1>1
  <2>2. z * h <= (h - 1) * h
    BY ONLY <1>1, z \in 0..(h - 1), Z3
  <2>3. (h - 1) * h = h * h - h /\ h > 0
    BY ONLY <1>1, Z3
  <2>4. z * h < h * h
    <3> PICK zh, hh, gh : zh = z * h /\ hh = h * h /\ gh = (h - 1) * h
      OBVIOUS
    <3>1. zh \in Nat /\ hh \in Nat
      BY <2>1
    <3> QED BY <1>1, <2>2, <2>3, <3>1
  <2> QED BY <2>1, <2>4, SmallRemainder
<1>3. Combine(x, y) = yh + x /\ Combine(u, v) = vh + u /\ yh \in Nat /\ vh \in Nat
  BY <1>1, <1>2 DEF Combine
<1>4. y < v => yh + h <= vh
  <2>1. y < v => (y + 1) * h <= v * h
    BY ONLY <1>1, Z3
  <2>2. (y + 1) * h = y * h + h
    BY ONLY <1>1, Z3
  <2> QED BY <2>1, <2>2
<1>5. v < y => vh + h <= yh
  <2>1. v < y => (v + 1) * h <= y * h
    BY ONLY <1>1, Z3
  <2>2. (v + 1) * h = v * h + h
    BY ONLY <1>1, Z3
  <2> QED BY <2>1, <2>2
<1>6. yh + x = vh + u => y = v
  BY ONLY <1>1, <1>3, <1>4, <1>5
<1>7. y = v => yh = vh
  OBVIOUS
<1> QED BY <1>1, <1>3, <1>6, <1>7

LEMMA CheckDataPreserves ==
  ASSUME DInv, CheckData
  PROVE  DInv'
<1> USE Constants
<1> PICK n, a, b :
      /\ n = Len(data)
      /\ a = host[Len(host)].s1 /\ b = host[Len(host)].s2
  OBVIOUS
<1>1. /\ pc = "checksum" /\ UNCHANGED <<outside, registers>>
      /\ pc' = IF Combine(s1, s2) = Combine(a, b) THEN "sp" ELSE "panic"
  BY DEF CheckData
<1>2. /\ n \in Nat /\ Len(host) = n + 1 /\ index = n
      /\ s1 \in 0..(Base - 1) /\ s2 \in 0..(Base - 1)
  <2>1. Len(data) \in Nat
    BY LenProperties DEF DInv, DebugTypeOK
  <2> QED BY <1>1, <2>1 DEF DInv, DebugTypeOK, HostInv, LoopInv
<1>3. a \in 0..(Base - 1) /\ b \in 0..(Base - 1)
  <2>1. Len(host) \in 1..Len(host)
    BY <1>2
  <2>2. host[Len(host)] \in Sums
    BY <2>1, ElementOfSeq DEF DInv, DebugTypeOK
  <2> QED BY <2>2 DEF Sums
<1>4. HostInv' /\ DebugTypeOK' /\ MemInv' /\ SumsInv
  BY <1>1, Outside DEF DInv, DebugTypeOK, MemInv, ChecksInv, Labels, outside, registers
<1>5. SizeInv' /\ LoopInv'
  BY <1>1 DEF DInv, SizeInv, LoopInv, outside, registers
<1>6. CASE s1 = a /\ s2 = b
  <2>1. pc' = "sp"
    BY <1>1, <1>6
  <2>2. host' = host /\ s1' = s1 /\ s2' = s2 /\ SumsInv'
    BY <1>1, <1>4, Outside DEF outside, registers
  <2> QED BY <1>4, <1>5, <1>6, <2>1, <2>2 DEF DInv, ChecksInv, NoFalseAlarm
<1>7. CASE ~(s1 = a /\ s2 = b)
  <2>1. pc' = "panic"
    BY <1>1, <1>2, <1>3, <1>7, CombineInjective
  <2>2. ~Faultless
    <3>1. SUFFICES ASSUME mem = data PROVE FALSE
      BY DEF Faultless
    <3>2. \A j \in 1..index : mem[j] = data[j]
      BY <3>1
    <3>3. s1 = host[index + 1].s1 /\ s2 = host[index + 1].s2
      BY <1>4, <3>2 DEF SumsInv
    <3> QED BY <1>2, <1>7, <3>3
  <2>3. NoFalseAlarm'
    BY <1>1, <2>2 DEF NoFalseAlarm, Faultless, outside
  <2> QED BY <1>4, <1>5, <2>1, <2>3 DEF DInv, ChecksInv
<1> QED BY <1>6, <1>7

LEMMA CheckSpPreserves ==
  ASSUME DInv, CheckSp
  PROVE  DInv'
<1>1. /\ pc = "sp" /\ UNCHANGED <<outside, registers>>
      /\ pc' = IF sp = InitialSp THEN "intro" ELSE "panic"
  BY DEF CheckSp
<1>2. HostInv' /\ DebugTypeOK' /\ MemInv' /\ SizeInv'
  BY <1>1, Outside DEF DInv, DebugTypeOK, MemInv, SizeInv, Labels, outside, registers
<1>3. LoopInv' /\ NoFalseAlarm'
  BY <1>1 DEF DInv, LoopInv, NoFalseAlarm, Faultless, outside, registers
<1>4. ChecksInv'
  <2>1. SumsInv' /\ host' = host /\ s1' = s1 /\ s2' = s2 /\ sp' = sp
    BY <1>1, Outside DEF DInv, ChecksInv, outside, registers
  <2> QED BY <1>1, <2>1 DEF DInv, ChecksInv
<1> QED BY <1>2, <1>3, <1>4 DEF DInv

LEMMA StepPreserves ==
  DInv /\ [Next]_debugVars => DInv'
<1> SUFFICES ASSUME DInv, [Next]_debugVars PROVE DInv'
  OBVIOUS
<1>1. CASE Next
  BY <1>1, Adler32Preserves, AssemblePreserves, DepackPreserves, CheckSizePreserves,
     StartLoopPreserves, Adler32LoopPreserves, CheckDataPreserves, CheckSpPreserves
  DEF Next
<1>2. CASE UNCHANGED debugVars
  <2>1. HostInv' /\ (SumsInv => SumsInv')
    BY <1>2, Outside DEF debugVars
  <2> QED
    BY <1>2, <2>1
    DEF DInv, DebugTypeOK, MemInv, SizeInv, LoopInv, ChecksInv, NoFalseAlarm,
        Faultless, debugVars, outside, registers
<1> QED BY <1>1, <1>2

-----------------------------------------------------------------------------
(* The inductive invariant: the loop's sums agree with the packer's up to  *)
(* the first damage, and after it differ in the way it makes them differ.  *)
THEOREM DebugInvariance == Spec => []DInv
<1>1. DInv /\ [Next]_debugVars => DInv'
  BY StepPreserves
<1> QED BY <1>1, InitEstablishes, PTL DEF Spec

(* Every variable keeps its type; both sums stay below the base, and so in *)
(* the half words that the checksum has for them.                          *)
THEOREM SumsFit == Spec => []DebugTypeOK
<1>1. DInv => DebugTypeOK
  BY DEF DInv
<1> QED BY <1>1, DebugInvariance, PTL

(* A cartridge whose depacker did its work never panics: what the loop     *)
(* computes is the packer's adler32.                                       *)
THEOREM FaultlessNeverPanics == Spec => []NoFalseAlarm
<1>1. DInv => NoFalseAlarm
  BY DEF DInv
<1> QED BY <1>1, DebugInvariance, PTL

(* A wrong stack pointer, a wrong number of bytes, one wrong byte and two  *)
(* swapped neighbours never get as far as the intro, however long it is.   *)
THEOREM DamageNeverRuns == Spec => []DamageCaught
<1>1. DInv => DamageCaught
  <2> SUFFICES ASSUME DInv, pc = "intro" PROVE DamageCaught
    BY DEF DamageCaught
  <2>1. sp = InitialSp /\ depacked = Len(data)
    BY DEF DInv, ChecksInv, SizeInv
  <2>2. /\ s1 = host[index + 1].s1 /\ s2 = host[index + 1].s2
        /\ index = Len(data) /\ Len(data) \in Nat
    BY LenProperties DEF DInv, DebugTypeOK, ChecksInv, HostInv, LoopInv
  <2>3. SumsInv
    BY DEF DInv, ChecksInv
  <2>4. \A i \in 1..Len(data) : ~WrongByte(i)
    <3>1. \A i \in 1..Len(data) : i <= index
      BY <2>2
    <3> QED BY <2>2, <2>3, <3>1 DEF SumsInv
  <2>5. \A i \in 1..(Len(data) - 1) : ~SwappedBytes(i)
    <3>1. \A i \in 1..(Len(data) - 1) : i < index
      BY <2>2
    <3> QED BY <2>2, <2>3, <3>1 DEF SumsInv
  <2> QED BY <2>1, <2>4, <2>5 DEF DamageCaught
<1> QED BY <1>1, DebugInvariance, PTL
=============================================================================

---------------------------- MODULE InputFileProofs ----------------------------
(***************************************************************************)
(* Proofs about InputFile: for every section table, the bytes loaded are   *)
(* the memory image it describes.                                          *)
(***************************************************************************)
EXTENDS InputFile, TLAPS

Copied(s) == Included(s) /\ s \notin todo

(* The bytes so far are the image of the sections copied so far, which all *)
(* come before those still to do.                                          *)
CopiedInPlace ==
  \A s \in Sections : Copied(s) =>
    /\ loadAddress <= table[s].address
    /\ End(s) <= outputAddress
    /\ \A i \in 0..(table[s].size - 1) :
         data[table[s].address - loadAddress + i + 1] = <<s, i>>
    /\ \A t \in todo : table[s].address <= table[t].address

RestZero ==
  \A k \in 1..Len(data) :
    \/ data[k] = Zero
    \/ \E s \in Sections : Copied(s) /\ table[s].address < loadAddress + k
                                     /\ loadAddress + k <= End(s)

Tight ==
  /\ outputAddress = loadAddress + Len(data)
  /\ \E s \in Sections : Copied(s) /\ table[s].address = loadAddress
  /\ \E s \in Sections : Copied(s) /\ End(s) = outputAddress

(* Sections that have been copied share no address, and the last of them   *)
(* is the one that is remembered.                                          *)
Apart == \A s, t \in Sections : Copied(s) /\ Copied(t) /\ s # t => Disjoint(s, t)

Remembered == previous \in Sections /\ Copied(previous) /\ End(previous) = outputAddress

LoopInv ==
  /\ \A s \in todo : Included(s)
  /\ IF data = << >>
       THEN \A s \in Sections : Included(s) => s \in todo
       ELSE CopiedInPlace /\ RestZero /\ Tight /\ Apart /\ Remembered

Inv ==
  /\ TypeOK
  /\ status = "check_header" => data = << >>
  /\ status \in {"load_binary", "loaded"} => LoopInv
  /\ status = "loaded" => todo = {} /\ data # << >>
  /\ RejectedForCause
  /\ status # "rejected" => report = << >>
  /\ OverlapNamed

-----------------------------------------------------------------------------
LEMMA IncludedFacts ==
  ASSUME TypeOK, NEW s \in Sections, Included(s)
  PROVE  /\ table[s].address \in Nat
         /\ table[s].size \in Nat
         /\ table[s].size >= 1
         /\ End(s) = table[s].address + table[s].size
<1>1. table[s] \in SectionHeader
  BY DEF TypeOK
<1>2. table[s].address \in Nat /\ table[s].size \in Nat
  BY <1>1, InputAssumption DEF SectionHeader
<1> QED BY <1>2 DEF Included, End

(* A function on 1..n is a sequence of length n.                           *)
LEMMA FunctionIsSeq ==
  ASSUME NEW S, NEW n \in Nat, NEW f \in [1..n -> S]
  PROVE  /\ f \in Seq(S)
         /\ Len(f) = n
         /\ n >= 1 => f # << >>
  OBVIOUS

(* The first section starts the image.                                     *)
LEMMA FirstSectionPreserves ==
  ASSUME Inv, NEW s \in Sections, FirstSection(s)
  PROVE  Inv'
<1>1. s \in todo /\ Included(s) /\ LoopInv
  BY DEF FirstSection, IsNext, Inv, LoopInv
<1>2. /\ table[s].address \in Nat
      /\ table[s].size \in Nat
      /\ table[s].size >= 1
      /\ End(s) = table[s].address + table[s].size
  BY <1>1, IncludedFacts DEF Inv
<1>3. /\ Len(data') = table[s].size
      /\ data' \in Seq((Sections \X Nat) \cup {Zero})
      /\ data' # << >>
      /\ \A k \in 1..Len(data') : data'[k] = <<s, k - 1>>
  <2>1. data' = [k \in 1..table[s].size |-> <<s, k - 1>>]
    BY DEF FirstSection
  <2>2. data' \in [1..table[s].size -> (Sections \X Nat) \cup {Zero}]
    <3>1. \A k \in 1..table[s].size : k - 1 \in Nat
      BY <1>2
    <3> QED BY <2>1, <3>1
  <2>3. Len(data') = table[s].size
    BY <1>2, <2>2, FunctionIsSeq
  <2>4. data' # << >> /\ data' \in Seq((Sections \X Nat) \cup {Zero})
    BY <1>2, <2>2, FunctionIsSeq
  <2> QED BY <2>1, <2>3, <2>4
<1>4. TypeOK'
  BY <1>2, <1>3 DEF FirstSection, Inv, TypeOK
<1>5. \A t \in Sections : Copied(t)' <=> t = s
  BY <1>1 DEF FirstSection, LoopInv, Copied, Included
<1>6. CopiedInPlace'
  <2>1. /\ table' = table /\ loadAddress' = table[s].address
        /\ outputAddress' = End(s) /\ todo' = todo \ {s}
        /\ \A t \in todo : table[s].address <= table[t].address
    BY DEF FirstSection, IsNext
  <2>2. End(s)' = End(s)
    BY <2>1 DEF End
  <2>3. \A i \in 0..(table[s].size - 1) : data'[i + 1] = <<s, i>>
    <3> SUFFICES ASSUME NEW i \in 0..(table[s].size - 1)
                 PROVE  data'[i + 1] = <<s, i>>
      OBVIOUS
    <3>1. i + 1 \in 1..Len(data') /\ (i + 1) - 1 = i
      BY <1>2, <1>3
    <3> QED BY <1>3, <3>1
  <2>4. loadAddress' <= table'[s].address /\ End(s)' <= outputAddress'
    BY <1>2, <2>1, <2>2
  <2>5. \A i \in 0..(table'[s].size - 1) :
          data'[table'[s].address - loadAddress' + i + 1] = <<s, i>>
    BY <1>2, <2>1, <2>3
  <2>6. \A t \in todo' : table'[s].address <= table'[t].address
    BY <2>1
  <2> QED BY ONLY <1>5, <2>4, <2>5, <2>6 DEF CopiedInPlace
<1>7. RestZero'
  <2> SUFFICES ASSUME NEW k \in 1..Len(data')
               PROVE  /\ Copied(s)'
                      /\ table'[s].address < loadAddress' + k
                      /\ loadAddress' + k <= End(s)'
    BY DEF RestZero
  <2>1. k \in Nat /\ 1 <= k /\ k <= table[s].size
    BY <1>2, <1>3
  <2> QED BY <1>2, <1>5, <2>1 DEF FirstSection, End
<1>8. Tight'
  BY <1>1, <1>2, <1>3, <1>5 DEF FirstSection, Tight, End
<1>9. \A t \in todo' : Included(t)'
  BY <1>1 DEF FirstSection, LoopInv, Included
<1>10. Apart' /\ Remembered'
  BY <1>1, <1>5 DEF FirstSection, Apart, Remembered, End
<1>11. status' = "load_binary" /\ report' = << >>
  BY DEF FirstSection, Inv
<1>12. OverlapNamed' /\ RejectedForCause'
  BY <1>11 DEF OverlapNamed, RejectedForCause
<1>13. LoopInv'
  BY <1>3, <1>6, <1>7, <1>8, <1>9, <1>10 DEF LoopInv
<1> QED
  BY <1>4, <1>11, <1>12, <1>13 DEF Inv

(* The i-th byte of a section that ends within the data lies in the data.  *)
LEMMA PlaceInData ==
  \A address, load, length, size \in Nat :
    load <= address /\ address + size <= load + length
      => \A i \in 0..(size - 1) : address - load + i + 1 \in 1..length
  OBVIOUS

(* A later one extends it, behind the zeros that fill the hole.            *)
LEMMA NextSectionPreserves ==
  ASSUME Inv, NEW s \in Sections, NextSection(s)
  PROVE  Inv'
<1>1. /\ s \in todo /\ Included(s)
      /\ CopiedInPlace /\ RestZero /\ Tight
      /\ data \in Seq((Sections \X Nat) \cup {Zero})
      /\ outputAddress \in Nat /\ loadAddress \in Nat
  BY DEF NextSection, IsNext, Inv, LoopInv, TypeOK
<1>2. /\ table[s].address \in Nat
      /\ table[s].size \in Nat
      /\ table[s].size >= 1
      /\ End(s) = table[s].address + table[s].size
  BY <1>1, IncludedFacts DEF Inv
<1> DEFINE start == Len(data) + (table[s].address - outputAddress)
<1>3a. /\ loadAddress \in Nat
       /\ Len(data) \in Nat
       /\ outputAddress = loadAddress + Len(data)
       /\ outputAddress <= table[s].address
  <2>1. outputAddress = loadAddress + Len(data)
    BY ONLY <1>1 DEF Tight
  <2>2. outputAddress <= table[s].address
    BY ONLY <1>1, <1>2, NextSection(s) DEF NextSection
  <2> QED BY ONLY <1>1, <2>1, <2>2
<1>3. start \in Nat /\ start >= Len(data) /\ start = table[s].address - loadAddress
  BY ONLY <1>2, <1>3a
<1>4. /\ Len(data') = start + table[s].size
      /\ data' # << >>
      /\ data' \in Seq((Sections \X Nat) \cup {Zero})
      /\ \A k \in 1..Len(data) : data'[k] = data[k]
      /\ \A k \in (Len(data) + 1)..start : data'[k] = Zero
      /\ \A k \in (start + 1)..(start + table[s].size) : data'[k] = <<s, k - start - 1>>
  <2> DEFINE n == start + table[s].size
  <2> HIDE DEF start
  <2>1. data' = [k \in 1..n |->
                   IF k <= Len(data) THEN data[k]
                   ELSE IF k <= start THEN Zero
                   ELSE <<s, k - start - 1>>]
    BY DEF NextSection, start
  <2>2. n \in Nat /\ n >= 1 /\ Len(data) \in Nat
    <3>1. start \in Nat /\ table[s].size \in Nat /\ table[s].size >= 1
      BY ONLY <1>2, <1>3
    <3> QED BY ONLY <1>3a, <3>1
  <2>3. data' \in [1..n -> (Sections \X Nat) \cup {Zero}]
    <3> SUFFICES ASSUME NEW k \in 1..n
                 PROVE  data'[k] \in (Sections \X Nat) \cup {Zero}
      BY <2>1
    <3>1. CASE k <= Len(data)
      <4>1. data[k] \in (Sections \X Nat) \cup {Zero}
        BY <1>1, <2>2, <3>1
      <4> QED BY <2>1, <3>1, <4>1
    <3>2. CASE ~(k <= Len(data)) /\ k <= start
      BY <2>1, <3>2
    <3>3. CASE ~(k <= Len(data)) /\ ~(k <= start)
      <4>1. k - start - 1 \in Nat
        BY <1>3, <2>2, <3>3
      <4> QED BY <2>1, <3>3, <4>1
    <3> QED BY <3>1, <3>2, <3>3
  <2>4. Len(data') = n
    BY <2>2, <2>3, FunctionIsSeq
  <2>5. data' # << >> /\ data' \in Seq((Sections \X Nat) \cup {Zero})
    BY <2>2, <2>3, FunctionIsSeq
  <2>6. ASSUME NEW k \in 1..Len(data)
        PROVE  data'[k] = data[k]
    <3>1. k \in 1..n /\ k <= Len(data)
      BY ONLY <1>2, <1>3, <2>2, <2>6
    <3> QED BY ONLY <2>1, <3>1
  <2>7. ASSUME NEW k \in (Len(data) + 1)..start
        PROVE  data'[k] = Zero
    <3>1. k \in 1..n /\ ~(k <= Len(data)) /\ k <= start
      BY ONLY <1>2, <1>3, <2>2, <2>7
    <3> QED BY ONLY <2>1, <3>1
  <2>8. ASSUME NEW k \in (start + 1)..(start + table[s].size)
        PROVE  data'[k] = <<s, k - start - 1>>
    <3>1. k \in 1..n /\ ~(k <= Len(data)) /\ ~(k <= start)
      BY ONLY <1>2, <1>3, <2>2, <2>8
    <3> QED BY ONLY <2>1, <3>1
  <2> QED BY <2>4, <2>5, <2>6, <2>7, <2>8
<1>5. \A t \in Sections : Copied(t)' <=> t = s \/ Copied(t)
  BY <1>1 DEF NextSection, Copied, Included
<1>6. UNCHANGED <<table, loadAddress>> /\ outputAddress' = End(s) /\ todo' = todo \ {s}
  BY DEF NextSection
<1> HIDE DEF start
<1>7. TypeOK'
  <2>1. End(s) \in Nat
    BY <1>2
  <2>2. outputAddress' = End(s) /\ todo' = todo \ {s} /\ previous' = s
        /\ UNCHANGED <<table, headerValid, status, loadAddress, report>>
    BY DEF NextSection
  <2>3. TypeOK
    BY DEF Inv
  <2> QED BY ONLY <1>4, <2>1, <2>2, <2>3 DEF TypeOK
<1>8. CopiedInPlace'
  <2> SUFFICES ASSUME NEW t \in Sections, Copied(t)'
               PROVE  /\ loadAddress <= table[t].address
                      /\ End(t) <= End(s)
                      /\ \A i \in 0..(table[t].size - 1) :
                           data'[table[t].address - loadAddress + i + 1] = <<t, i>>
                      /\ \A u \in todo \ {s} : table[t].address <= table[u].address
    BY <1>6 DEF CopiedInPlace, End
  <2>1. CASE t = s
    <3>1. loadAddress <= table[s].address
      BY <1>1, <1>2, <1>3
    <3>2. End(s) <= End(s)
      BY <1>2
    <3>3. \A i \in 0..(table[s].size - 1) : data'[start + i + 1] = <<s, i>>
      <4> SUFFICES ASSUME NEW i \in 0..(table[s].size - 1)
                   PROVE  data'[start + i + 1] = <<s, i>>
        OBVIOUS
      <4>1. /\ start + i + 1 \in (start + 1)..(start + table[s].size)
            /\ (start + i + 1) - start - 1 = i
        <5>1. start \in Nat /\ table[s].size \in Nat
          BY ONLY <1>2, <1>3
        <5> QED BY ONLY <5>1, i \in 0..(table[s].size - 1)
      <4> QED BY ONLY <1>4, <4>1
    <3>4. \A u \in todo \ {s} : table[s].address <= table[u].address
      BY DEF NextSection, IsNext
    <3> QED BY <1>3, <2>1, <3>1, <3>2, <3>3, <3>4
  <2>2. CASE t # s
    <3>1. /\ Copied(t)
          /\ loadAddress <= table[t].address
          /\ End(t) <= outputAddress
          /\ \A i \in 0..(table[t].size - 1) :
               data[table[t].address - loadAddress + i + 1] = <<t, i>>
          /\ \A u \in todo : table[t].address <= table[u].address
      BY <1>1, <1>5, <2>2 DEF CopiedInPlace
    <3>2. /\ table[t].address \in Nat
          /\ table[t].size \in Nat
          /\ End(t) = table[t].address + table[t].size
      BY <3>1, IncludedFacts DEF Inv, Copied
    <3>3. End(t) <= End(s)
      <4>1. End(t) <= outputAddress /\ outputAddress <= table[s].address
        BY ONLY <1>3a, <3>1
      <4>2. outputAddress \in Nat
        BY ONLY <1>3a
      <4>3. End(t) \in Nat
        BY ONLY <3>2
      <4> QED BY ONLY <1>2, <4>1, <4>2, <4>3
    <3>4. \A i \in 0..(table[t].size - 1) :
            data'[table[t].address - loadAddress + i + 1] = <<t, i>>
      <4> SUFFICES ASSUME NEW i \in 0..(table[t].size - 1)
                   PROVE  data'[table[t].address - loadAddress + i + 1] = <<t, i>>
        OBVIOUS
      <4>1. table[t].address - loadAddress + i + 1 \in 1..Len(data)
        <5>1. table[t].address + table[t].size <= loadAddress + Len(data)
          BY <1>3a, <3>1, <3>2
        <5>2. loadAddress <= table[t].address
          BY <3>1
        <5> QED BY ONLY <1>3a, <3>2, <5>1, <5>2, PlaceInData, i \in 0..(table[t].size - 1)
      <4> QED BY <1>4, <3>1, <4>1
    <3> QED BY <3>1, <3>3, <3>4
  <2> QED BY <2>1, <2>2
<1>9. RestZero'
  <2> SUFFICES ASSUME NEW k \in 1..Len(data')
               PROVE  \/ data'[k] = Zero
                      \/ \E t \in Sections : Copied(t)' /\ table[t].address < loadAddress + k
                                                        /\ loadAddress + k <= End(t)
    BY <1>6 DEF RestZero, End
  <2>1. Len(data) \in Nat /\ k \in Nat /\ 1 <= k /\ k <= start + table[s].size
    BY <1>1, <1>2, <1>3, <1>4
  <2>2. CASE k <= Len(data)
    <3>1. k \in 1..Len(data) /\ data'[k] = data[k]
      BY <1>4, <2>1, <2>2
    <3> QED BY <1>1, <1>5, <3>1 DEF RestZero
  <2>3. CASE Len(data) < k /\ k <= start
    <3>1. k \in (Len(data) + 1)..start
      BY <1>3, <2>1, <2>3
    <3> QED BY <1>4, <3>1
  <2>4. CASE start < k
    <3>1. table[s].address < loadAddress + k /\ loadAddress + k <= End(s)
      <4> DEFINE address == table[s].address
                 size == table[s].size
      <4>1. /\ address \in Nat /\ size \in Nat /\ loadAddress \in Nat /\ k \in Nat
            /\ start = address - loadAddress
        BY ONLY <1>2, <1>3, <1>3a, <2>1
      <4>2. start < k /\ k <= start + size /\ End(s) = address + size
        BY ONLY <1>2, <2>1, <2>4
      <4> HIDE DEF address, size
      <4>3. address < loadAddress + k /\ loadAddress + k <= End(s)
        BY ONLY <4>1, <4>2
      <4> QED BY ONLY <4>3 DEF address
    <3> QED BY <1>5, <3>1
  <2> QED BY <1>3, <2>1, <2>2, <2>3, <2>4
<1>10. Tight'
  <2>1. outputAddress' = loadAddress' + Len(data')
    <3>1. Len(data') = start + table[s].size
      BY <1>4
    <3>2. outputAddress' = table[s].address + table[s].size
      BY <1>2, <1>6
    <3>3. start = table[s].address - loadAddress
      BY <1>3
    <3>4. table[s].address + table[s].size
            = loadAddress + ((table[s].address - loadAddress) + table[s].size)
      BY <1>2, <1>3a
    <3>5. outputAddress' = loadAddress + Len(data')
      BY ONLY <3>1, <3>2, <3>3, <3>4, Zenon
    <3> QED BY ONLY <1>6, <3>5, Zenon
  <2>2. PICK t \in Sections : Copied(t) /\ table[t].address = loadAddress
    BY <1>1 DEF Tight
  <2>3. Copied(t)' /\ table'[t].address = loadAddress'
    BY <1>5, <1>6, <2>2
  <2>4. Copied(s)' /\ End(s)' = outputAddress'
    BY <1>5, <1>6 DEF End
  <2> QED BY <2>1, <2>3, <2>4 DEF Tight
<1>11. \A t \in todo' : Included(t)'
  BY <1>6 DEF NextSection, Inv, LoopInv, Included
<1>12. Apart'
  <2>1. ASSUME NEW t \in Sections, Copied(t)
        PROVE  End(t) <= table[s].address
    <3>1. End(t) <= outputAddress /\ outputAddress <= table[s].address /\ outputAddress \in Nat
      BY <1>1, <1>3a, <2>1 DEF CopiedInPlace
    <3>2. End(t) \in Nat
      BY <2>1, IncludedFacts DEF Inv, Copied
    <3> QED BY <1>2, <3>1, <3>2
  <2>2. \A t, u : Disjoint(t, u)' = Disjoint(t, u)
    BY <1>6 DEF Disjoint, End
  <2>3. ASSUME NEW t \in Sections, NEW u \in Sections, Copied(t)', Copied(u)', t # u
        PROVE  Disjoint(t, u)
    <3>1. CASE t # s /\ u # s
      BY <1>1, <1>5, <2>3, <3>1 DEF NextSection, IsNext, Inv, LoopInv, Apart
    <3>2. CASE t = s \/ u = s
      BY <1>5, <2>1, <2>3, <3>2 DEF Disjoint
    <3> QED BY <3>1, <3>2
  <2> QED BY <2>2, <2>3 DEF Apart
<1>13. Remembered'
  BY <1>5, <1>6 DEF NextSection, Remembered, End
<1>14. status' = "load_binary" /\ report' = << >>
  BY DEF NextSection, Inv
<1>15. OverlapNamed' /\ RejectedForCause'
  BY <1>14 DEF OverlapNamed, RejectedForCause
<1>16. LoopInv'
  BY <1>4, <1>8, <1>9, <1>10, <1>11, <1>12, <1>13 DEF LoopInv
<1> QED
  BY <1>7, <1>14, <1>15, <1>16 DEF Inv

(* Of two copied sections and the next, the remembered one is in its way.  *)
LEMMA OverlapPreserves ==
  ASSUME Inv, NEW s \in Sections, Overlap(s)
  PROVE  Inv'
<1>1. /\ s \in todo /\ Included(s) /\ CopiedInPlace /\ Apart /\ Remembered
      /\ table[s].address < outputAddress
      /\ \A t \in todo : table[s].address <= table[t].address
  BY DEF Overlap, IsNext, Inv, LoopInv
<1> PICK d : d = previous
  OBVIOUS
<1>2. d \in Sections /\ Copied(d) /\ End(d) = outputAddress
  BY <1>1 DEF Remembered
<1>3. /\ d # s /\ Included(d) /\ Included(s)
      /\ table[d].address <= table[s].address /\ table[s].address < End(d)
  BY <1>1, <1>2 DEF Copied, CopiedInPlace
<1>4. ASSUME NEW t \in Sections, NEW u \in Sections, t # u, Included(t), Included(u),
             table[t].address < table[s].address, table[u].address < table[s].address
      PROVE  Disjoint(t, u)
  <2>1. \A v \in Sections : Included(v) => table[v].address \in Nat
    BY IncludedFacts DEF Inv
  <2>2. \A v \in todo : table[s].address <= table[v].address
    BY <1>1
  <2>3. t \notin todo /\ u \notin todo
    BY <1>1, <1>3, <1>4, <2>1, <2>2
  <2>4. Copied(t) /\ Copied(u)
    BY <1>4, <2>3 DEF Copied
  <2> QED BY <1>1, <1>4, <2>4 DEF Apart
<1>5. /\ status' = "rejected" /\ report' = <<s, d>>
      /\ UNCHANGED <<table, headerValid, todo, data, loadAddress, outputAddress, previous>>
  BY DEF Overlap
<1>6. RejectedForCause'
  BY <1>2, <1>3, <1>5 DEF RejectedForCause, Included, End
<1>7. OverlapNamed'
  <2>1. report'[1] = s /\ report'[2] = d /\ report' # << >>
    BY <1>5
  <2>2. \A t, u \in Sections :
          /\ t # u /\ Included(t) /\ Included(u)
          /\ table[t].address < table[s].address
          /\ table[u].address < table[s].address
          => Disjoint(t, u)
    BY <1>4
  <2> QED BY <1>2, <1>3, <1>5, <2>1, <2>2 DEF OverlapNamed, Included, End, Disjoint
<1>8. TypeOK'
  BY <1>2, <1>5 DEF Inv, TypeOK
<1> QED BY <1>5, <1>6, <1>7, <1>8 DEF Overlap, Inv

LEMMA InputInitEstablishes ==
  Init => Inv
  BY DEF Init, Inv, TypeOK, LoopInv, RejectedForCause, OverlapNamed

LEMMA InputStepPreserves ==
  Inv /\ [Next]_inputVars => Inv'
<1> SUFFICES ASSUME Inv, [Next]_inputVars
             PROVE  Inv'
  OBVIOUS
<1>1. CASE CheckHeader
  <2>1. TypeOK'
    BY <1>1 DEF CheckHeader, Inv, TypeOK
  <2>2. headerValid => LoopInv'
    BY <1>1 DEF CheckHeader, Inv, LoopInv, Included
  <2>3. report' = << >> /\ data' = << >>
    BY <1>1 DEF CheckHeader, Inv
  <2>4. /\ headerValid' = headerValid
        /\ status' = IF headerValid THEN "load_binary" ELSE "rejected"
    BY <1>1 DEF CheckHeader
  <2>5. RejectedForCause' /\ OverlapNamed'
    BY <2>3, <2>4 DEF RejectedForCause, OverlapNamed
  <2> QED
    BY <2>1, <2>2, <2>3, <2>4, <2>5 DEF Inv
<1>2. ASSUME NEW s \in Sections, FirstSection(s) \/ NextSection(s) \/ Overlap(s)
      PROVE  Inv'
  BY <1>2, FirstSectionPreserves, NextSectionPreserves, OverlapPreserves
<1>3. CASE EndOfLoop
  <2>1. TypeOK' /\ LoopInv'
    BY <1>3
    DEF EndOfLoop, Inv, TypeOK, LoopInv, Included, CopiedInPlace, RestZero, Tight,
        Apart, Remembered, Disjoint, Copied, End
  <2>2. data = << >> => \A s \in Sections : ~Included(s)
    BY <1>3 DEF EndOfLoop, Inv, LoopInv
  <2>3. report' = << >> /\ table' = table /\ data' = data /\ todo' = {}
    BY <1>3 DEF EndOfLoop, Inv
  <2>4. status' = IF data = << >> THEN "rejected" ELSE "loaded"
    BY <1>3 DEF EndOfLoop
  <2>5. RejectedForCause' /\ OverlapNamed'
    BY <2>2, <2>3, <2>4 DEF RejectedForCause, OverlapNamed, Included
  <2> QED
    BY <2>1, <2>3, <2>4, <2>5 DEF Inv
<1>4. CASE UNCHANGED inputVars
  <2>1. TypeOK' /\ RejectedForCause' /\ OverlapNamed'
    BY <1>4 DEF inputVars, Inv, TypeOK, RejectedForCause, OverlapNamed, Disjoint, Included, End
  <2>2. LoopInv => LoopInv'
    BY <1>4
    DEF inputVars, LoopInv, Included, CopiedInPlace, RestZero, Tight, Apart, Remembered,
        Disjoint, Copied, End
  <2> QED
    BY <1>4, <2>1, <2>2 DEF inputVars, Inv
<1> QED BY <1>1, <1>2, <1>3, <1>4 DEF Next

-----------------------------------------------------------------------------
THEOREM InputInvariance == Spec => []Inv
<1> QED BY InputInitEstablishes, InputStepPreserves, PTL DEF Spec

THEOREM InputTypeCorrect == Spec => []TypeOK
<1>1. Inv => TypeOK
  BY DEF Inv
<1> QED BY <1>1, InputInvariance, PTL

(* For every section table, and every order the sort may leave equal       *)
(* addresses in, the loaded bytes are the memory image of the ELF file.    *)
THEOREM ImageCorrect == Spec => []ImageFaithful
<1>1. Inv => ImageFaithful
  <2> SUFFICES ASSUME Inv, status = "loaded"
               PROVE  ImageFaithful
    BY DEF ImageFaithful
  <2>1. CopiedInPlace /\ RestZero /\ Tight /\ \A s \in Sections : Copied(s) <=> Included(s)
    BY DEF Inv, LoopInv, Copied
  <2> QED BY <2>1 DEF ImageFaithful, CopiedInPlace, RestZero, Tight
<1> QED BY <1>1, InputInvariance, PTL

(* No file is turned down whose sections could be laid out.                *)
THEOREM RejectionJustified == Spec => []RejectedForCause
<1>1. Inv => RejectedForCause
  BY DEF Inv
<1> QED BY <1>1, InputInvariance, PTL

(* The message about an overlap names two sections that do overlap, and    *)
(* is never put together from a section that is not there.                 *)
THEOREM ReportTrue == Spec => []OverlapNamed
<1>1. Inv => OverlapNamed
  BY DEF Inv
<1> QED BY <1>1, InputInvariance, PTL
=============================================================================

--------------------------- MODULE PackPipelineProofs ---------------------------
(***************************************************************************)
(* Proofs about a run of the program, for every registry of packers, every *)
(* sequence of --packer options and every size of cartridge.               *)
(***************************************************************************)
EXTENDS PackPipeline, TLAPS

(* What the first n --packer options ask for.                              *)
Wanted(n) == IF n = 0 THEN "best" ELSE args[n]

(* What the loop over the packers has established by stage "try".          *)
TryInv == Packed \cup ToSet(todo) = Requested

PInv ==
  /\ TypeOK
  /\ stage = "parse" => packer = Wanted(parsed)
  /\ stage = "load" => packer = Wanted(Len(args))
  /\ stage \in {"parse", "load"} => cartridges = << >>
  /\ stage \in {"parse", "load", "try"} => chosen = << >>
  /\ stage = "try" => TryInv
  /\ stage \in {"open", "write", "close", "remove"} => chosen # << >>
  /\ \A c \in ToSet(cartridges) : c.last # 255
  /\ RequestHonoured
  /\ SmallestRomWritten
  /\ NoRomAfterFailedWrite

-----------------------------------------------------------------------------
LEMMA AppendSet ==
  ASSUME NEW S, NEW s \in Seq(S), NEW e \in S
  PROVE  ToSet(Append(s, e)) = ToSet(s) \cup {e}
<1> DEFINE t == Append(s, e)
<1>1. /\ Len(s) \in Nat /\ DOMAIN s = 1..Len(s) /\ DOMAIN t = 1..(Len(s) + 1)
      /\ t[Len(s) + 1] = e
      /\ \A i \in 1..Len(s) : t[i] = s[i]
  OBVIOUS
<1> HIDE DEF t
<1>2. e \in ToSet(t)
  BY <1>1 DEF ToSet
<1>3. \A x \in ToSet(s) : x \in ToSet(t)
  BY <1>1 DEF ToSet
<1>4. ASSUME NEW x \in ToSet(t) PROVE x = e \/ x \in ToSet(s)
  <2>1. PICK i \in DOMAIN t : x = t[i]
    BY DEF ToSet
  <2> QED BY <1>1, <2>1 DEF ToSet
<1>5. ToSet(t) = ToSet(s) \cup {e}
  BY <1>2, <1>3, <1>4
<1> QED BY <1>5 DEF t

LEMMA HeadTailSet ==
  ASSUME NEW S, NEW s \in Seq(S), s # << >>
  PROVE  /\ Head(s) \in S
         /\ Tail(s) \in Seq(S)
         /\ ToSet(s) = {Head(s)} \cup ToSet(Tail(s))
<1>1. Head(s) \in S /\ Tail(s) \in Seq(S) /\ Head(s) = s[1] /\ Len(s) \in Nat \ {0}
  OBVIOUS
<1>2. \A i \in 1..Len(s) : i = 1 \/ (i - 1 \in 1..Len(Tail(s)) /\ s[i] = Tail(s)[i - 1])
  BY <1>1
<1>3. \A i \in 1..Len(Tail(s)) : i + 1 \in 1..Len(s) /\ s[i + 1] = Tail(s)[i]
  BY <1>1
<1>4. DOMAIN s = 1..Len(s) /\ DOMAIN Tail(s) = 1..Len(Tail(s))
  BY <1>1
<1>5. ASSUME NEW e \in ToSet(s) PROVE e = Head(s) \/ e \in ToSet(Tail(s))
  <2>1. PICK i \in 1..Len(s) : e = s[i]
    BY <1>4 DEF ToSet
  <2>2. CASE i = 1
    BY <1>1, <2>1, <2>2
  <2>3. CASE i - 1 \in 1..Len(Tail(s)) /\ s[i] = Tail(s)[i - 1]
    BY <1>4, <2>1, <2>3 DEF ToSet
  <2> QED BY <1>2, <2>2, <2>3
<1>6. Head(s) \in ToSet(s)
  BY <1>1, <1>4 DEF ToSet
<1>7. \A e \in ToSet(Tail(s)) : e \in ToSet(s)
  BY <1>3, <1>4 DEF ToSet
<1> QED BY <1>1, <1>5, <1>6, <1>7

(* Padding leaves a cartridge that is not smaller and ends in no 0xff.     *)
LEMMA FixedCartridge ==
  ASSUME NEW c \in Cartridge
  PROVE  Fixed(c) \in Cartridge /\ Fixed(c).last # 255 /\ Fixed(c).packer = c.packer
<1> DEFINE padded == [packer |-> c.packer, size |-> c.size + PaddingSize, last |-> 0]
<1>1. c.packer \in PackerNames /\ c.size \in Nat
  BY DEF Cartridge
<1>2. padded \in Cartridge
  BY <1>1 DEF Cartridge, PaddingSize
<1>3. c.last = 255 => Fixed(c) = padded
  BY DEF Fixed, Cartridge
<1>4. c.last # 255 => Fixed(c) = c
  BY DEF Fixed
<1> QED BY <1>2, <1>3, <1>4

LEMMA PipelineInit ==
  Init => PInv
<1> SUFFICES ASSUME Init PROVE PInv
  OBVIOUS
<1>1. args \in Seq(PackerNames \cup {"best", Unknown})
  BY PipelineAssumption DEF Init, BoundedSeq, SeqOf
<1>2. ToSet(cartridges) = {}
  BY DEF Init, ToSet
<1>3. TypeOK
  BY <1>1 DEF Init, TypeOK, Stages, Cartridge
<1> QED
  BY <1>2, <1>3
  DEF Init, PInv, Wanted, RequestHonoured, SmallestRomWritten, NoRomAfterFailedWrite

LEMMA PipelineStep ==
  PInv /\ [Next]_vars => PInv'
<1> SUFFICES ASSUME PInv, [Next]_vars
             PROVE  PInv'
  OBVIOUS
<1> USE PipelineAssumption
<1>0. TypeOK
  BY DEF PInv
<1>1. CASE ParsePacker
  <2>1. /\ args' = args /\ output' = output /\ todo' = todo /\ cartridges' = cartridges
        /\ chosen' = chosen /\ files' = files /\ removable' = removable
        /\ parsed' = parsed + 1 /\ stage = "parse" /\ stage' \in {"parse", "failure"}
        /\ stage' = "parse" => packer' = args[parsed + 1]
    BY <1>1 DEF ParsePacker
  <2>2. parsed' \in 0..Len(args) /\ packer' \in PackerNames \cup {"best"}
    BY <1>0, <1>1 DEF ParsePacker, TypeOK
  <2>3. TypeOK'
    BY <1>0, <2>1, <2>2 DEF TypeOK, Stages
  <2>4. chosen = << >> /\ cartridges = << >>
    BY <2>1 DEF PInv
  <2>5. stage' = "parse" => packer' = Wanted(parsed)'
    BY <1>0, <2>1 DEF Wanted, TypeOK
  <2> QED
    BY <2>1, <2>3, <2>4, <2>5
    DEF PInv, RequestHonoured, SmallestRomWritten, NoRomAfterFailedWrite
<1>2. CASE EndOfCommandLine
  <2>1. TypeOK'
    BY <1>0, <1>2 DEF EndOfCommandLine, optionVars, TypeOK, Stages, Cartridge
  <2> QED
    BY <1>2, <2>1
    DEF EndOfCommandLine, optionVars, PInv, Wanted, RequestHonoured, SmallestRomWritten,
        NoRomAfterFailedWrite
<1>3. CASE LoadInputFile
  <2>1. TypeOK'
    <3>1. stage' \in Stages /\ todo' \in Seq(PackerNames)
      <4>1. packer # "best" => <<packer>> \in Seq(PackerNames)
        BY <1>0 DEF TypeOK
      <4> QED BY <1>0, <1>3, <4>1 DEF LoadInputFile, TypeOK, Stages, PackerNames
    <3> QED BY <1>0, <1>3, <3>1 DEF LoadInputFile, optionVars, TypeOK
  <2>2. stage' = "try" => TryInv'
    <3> SUFFICES ASSUME stage' = "try" PROVE TryInv'
      OBVIOUS
    <3>1. /\ todo' = IF packer = "best" THEN Packers ELSE <<packer>>
          /\ cartridges' = << >> /\ args' = args
          /\ packer = Wanted(Len(args))
      BY <1>3 DEF LoadInputFile, optionVars, PInv
    <3>2. Packed' = {}
      BY <3>1 DEF Packed, ToSet
    <3>3. ToSet(<<packer>>) = {packer}
      BY DEF ToSet
    <3>4. Requested' = IF packer = "best" THEN PackerNames ELSE {packer}
      <4>1. args = << >> <=> Len(args) = 0
        BY <1>0 DEF TypeOK
      <4> QED BY <3>1, <4>1 DEF Requested, Wanted, Last
    <3> QED BY <3>1, <3>2, <3>3, <3>4 DEF TryInv, PackerNames
  <2> QED
    BY <1>3, <2>1, <2>2
    DEF LoadInputFile, optionVars, PInv, Wanted, RequestHonoured, SmallestRomWritten,
        NoRomAfterFailedWrite
<1>4. ASSUME NEW size \in Sizes, NEW last \in {0, 255}, Pack(size, last)
      PROVE  PInv'
  <2> DEFINE made == Fixed([packer |-> Head(todo), size |-> size, last |-> last])
  <2>1. /\ stage = "try" /\ stage' = "try" /\ todo # << >> /\ todo' = Tail(todo)
        /\ cartridges' = Append(cartridges, made)
        /\ UNCHANGED <<args, parsed, packer, output, chosen, files, removable>>
    BY <1>4 DEF Pack, optionVars
  <2>2. /\ Head(todo) \in PackerNames /\ Tail(todo) \in Seq(PackerNames)
        /\ ToSet(todo) = {Head(todo)} \cup ToSet(Tail(todo))
    BY <1>0, <2>1, HeadTailSet DEF TypeOK
  <2>3. [packer |-> Head(todo), size |-> size, last |-> last] \in Cartridge
    BY <2>2 DEF Cartridge
  <2>4. made \in Cartridge /\ made.last # 255 /\ made.packer = Head(todo)
    BY <2>3, FixedCartridge
  <2> HIDE DEF made
  <2>5. ToSet(cartridges') = ToSet(cartridges) \cup {made}
    BY <1>0, <2>1, <2>4, AppendSet DEF TypeOK
  <2>6. chosen = << >>
    BY <2>1 DEF PInv
  <2>7. TypeOK'
    BY <1>0, <2>1, <2>2, <2>4, <2>6 DEF TypeOK
  <2>8. TryInv'
    <3>1. Packed' = Packed \cup {Head(todo)}
      BY <2>4, <2>5 DEF Packed
    <3>2. Packed \cup ToSet(todo) = Requested /\ Requested' = Requested
      BY <2>1 DEF PInv, TryInv, Requested
    <3> QED BY <2>1, <2>2, <3>1, <3>2 DEF TryInv
  <2>9. \A c \in ToSet(cartridges') : c.last # 255
    BY <2>4, <2>5 DEF PInv
  <2> QED
    BY <2>1, <2>6, <2>7, <2>8, <2>9
    DEF PInv, RequestHonoured, SmallestRomWritten, NoRomAfterFailedWrite
<1>5. CASE PackThrows
  <2>1. TypeOK'
    BY <1>0, <1>5 DEF PackThrows, optionVars, TypeOK, Stages
  <2> QED
    BY <1>5, <2>1
    DEF PackThrows, optionVars, PInv, RequestHonoured, SmallestRomWritten,
        NoRomAfterFailedWrite
<1>6. CASE ChooseSmallest
  <2>1. PICK i \in DOMAIN cartridges : IsSmallest(i) /\ chosen' = <<cartridges[i]>>
    BY <1>6 DEF ChooseSmallest
  <2>2. /\ stage = "try" /\ stage' = "open" /\ todo = << >>
        /\ UNCHANGED <<args, parsed, packer, output, todo, cartridges, files, removable>>
    BY <1>6 DEF ChooseSmallest, optionVars
  <2>3. cartridges[i] \in ToSet(cartridges)
    BY DEF ToSet
  <2>4. TypeOK'
    BY <1>0, <2>1, <2>2, <2>3 DEF TypeOK, Stages
  <2>5. RequestHonoured'
    <3>1. ToSet(todo) = {}
      BY <2>2 DEF ToSet
    <3> QED BY <2>2, <3>1 DEF PInv, TryInv, RequestHonoured, Packed, Requested
  <2>6. SmallestRomWritten'
    <3>1. \A c \in ToSet(cartridges) : cartridges[i].size <= c.size
      <4>1. \A j \in DOMAIN cartridges : cartridges[j].size \in Nat
        <5>1. \A j \in DOMAIN cartridges : cartridges[j] \in Cartridge
          BY <1>0 DEF TypeOK
        <5> QED BY <5>1 DEF Cartridge
      <4> QED BY <2>1, <4>1 DEF IsSmallest, ToSet
    <3>2. \A c \in ToSet(cartridges) : c.last # 255 /\ Fixed(c) = c
      BY DEF PInv, Fixed
    <3> QED BY <2>1, <2>2, <2>3, <3>1, <3>2 DEF SmallestRomWritten, Fixed, PaddingSize
  <2> QED
    BY <2>1, <2>2, <2>4, <2>5, <2>6 DEF PInv, NoRomAfterFailedWrite
<1>7. CASE Open \/ Write \/ Close
  <2>1. /\ stage \in {"open", "write", "close"}
        /\ stage' \in {"write", "close", "remove", "success"}
        /\ files' \in {files, [files EXCEPT ![output] = "partial"],
                       [files EXCEPT ![output] = "cartridge"]}
        /\ UNCHANGED <<args, parsed, packer, output, todo, cartridges, chosen, removable>>
    BY <1>7 DEF Open, Write, Close, optionVars
  <2>2. files' \in [Paths -> {"absent", "previous", "partial", "cartridge"}]
    BY <1>0, <2>1 DEF TypeOK
  <2>3. TypeOK'
    BY <1>0, <2>1, <2>2 DEF TypeOK, Stages
  <2>4. RequestHonoured' /\ SmallestRomWritten' /\ chosen' # << >>
    BY <2>1
    DEF PInv, RequestHonoured, SmallestRomWritten, Packed, Requested, Fixed, PaddingSize
  <2> QED
    BY <2>1, <2>3, <2>4
    DEF PInv, NoRomAfterFailedWrite
<1>8. CASE RemoveOutputFile
  <2>1. /\ stage = "remove" /\ stage' = "failure"
        /\ files' = IF removable THEN [files EXCEPT ![output] = "absent"] ELSE files
        /\ UNCHANGED <<args, parsed, packer, output, todo, cartridges, chosen, removable>>
    BY <1>8 DEF RemoveOutputFile, optionVars
  <2>2. TypeOK' /\ (removable => files'[output] = "absent")
    BY <1>0, <2>1 DEF TypeOK, Stages
  <2> QED
    BY <2>1, <2>2
    DEF PInv, RequestHonoured, SmallestRomWritten, NoRomAfterFailedWrite, Packed, Requested,
        Fixed, PaddingSize
<1>9. CASE UNCHANGED vars
  <2> USE <1>9 DEF vars
  <2>1. TypeOK'
    BY <1>0 DEF TypeOK
  <2>2. Packed' = Packed /\ Requested' = Requested /\ (TryInv => TryInv')
    BY DEF Packed, Requested, TryInv
  <2>3. SmallestRomWritten'
    BY DEF PInv, SmallestRomWritten, Fixed, PaddingSize
  <2> QED
    BY <2>1, <2>2, <2>3 DEF PInv, Wanted, RequestHonoured, NoRomAfterFailedWrite
<1> QED
  BY <1>1, <1>2, <1>3, <1>4, <1>5, <1>6, <1>7, <1>8, <1>9 DEF Next

THEOREM PipelineInvariance == Spec => []PInv
<1> QED BY PipelineInit, PipelineStep, PTL DEF Spec

(* The variables keep their types, for any registry.                       *)
THEOREM PipelineTypeCorrect == Spec => []TypeOK
<1>1. PInv => TypeOK
  BY DEF PInv
<1> QED BY <1>1, PipelineInvariance, PTL

(* The ROM comes from the packers asked for.                               *)
THEOREM RequestAlwaysHonoured == Spec => []RequestHonoured
<1>1. PInv => RequestHonoured
  BY DEF PInv
<1> QED BY <1>1, PipelineInvariance, PTL

(* The ROM is the smallest one that survives an EZF Advance.               *)
THEOREM SmallestRomAlwaysWritten == Spec => []SmallestRomWritten
<1>1. PInv => SmallestRomWritten
  BY DEF PInv
<1> QED BY <1>1, PipelineInvariance, PTL

(* A reported failure to write leaves no ROM behind.                       *)
THEOREM CleanFailure == Spec => []NoRomAfterFailedWrite
<1>1. PInv => NoRomAfterFailedWrite
  BY DEF PInv
<1> QED BY <1>1, PipelineInvariance, PTL

(* No file is touched before all packers have succeeded.                   *)
THEOREM FilesUntouched == Spec => UntouchedUntilPacked
<1>1. PInv /\ [Next]_vars => [files' # files => chosen # << >> /\ Packed = Requested]_vars
  BY DEF PInv, RequestHonoured, Next, ParsePacker, EndOfCommandLine, LoadInputFile, Pack,
         PackThrows, ChooseSmallest, Open, Write, Close, RemoveOutputFile, vars
<1> QED BY <1>1, PipelineInvariance, PTL DEF Spec, UntouchedUntilPacked
=============================================================================

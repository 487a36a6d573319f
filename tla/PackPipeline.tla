------------------------------ MODULE PackPipeline ------------------------------
(***************************************************************************)
(* A run of the program, from main to its exit status: parse_command_line, *)
(* pack with the packers of the registry, and write_to_disk.  What a       *)
(* packer returns is any cartridge or an exception, what the file system   *)
(* does is up to it; InputFile.tla models what loading finds in a file.    *)
(***************************************************************************)
EXTENDS Integers, Sequences, SequencesExt

CONSTANTS
  Packers,    \* packer_registry::all_info(), in order
  Unknown,    \* a --packer argument that names no packer
  InputPath,
  Paths,      \* paths that the output file may have
  Sizes,      \* sizes of cartridges
  MaxArgs     \* bound: --packer options on a command line

ASSUME PipelineAssumption ==
  /\ Packers # << >> /\ Packers \in Seq(ToSet(Packers))
  /\ IsInjective(Packers)
  /\ "best" \notin ToSet(Packers)
  /\ Unknown \notin ToSet(Packers) \cup {"best"}
  /\ InputPath \in Paths
  /\ Sizes \subseteq Nat
  /\ MaxArgs \in Nat

VARIABLES
  stage,       \* what main is about to do
  args,        \* the arguments of --packer, in order
  parsed,      \* how many of them parse_packer has handled
  packer,      \* opts.packer, "best" for no value
  output,      \* opts.output_file
  todo,        \* try_all_packers: packers that have not run
  cartridges,  \* what the others returned
  chosen,      \* the cartridge to be written, in a sequence, or none
  files,       \* what is at each path
  removable    \* whether the file system lets the output file be removed

vars == <<stage, args, parsed, packer, output, todo, cartridges, chosen, files, removable>>
optionVars == <<args, parsed, packer, output>>

\* Where main goes, and its two exit statuses.
Stages == {"parse", "load", "try", "open", "write", "close", "remove", "success", "failure"}

PackerNames == ToSet(Packers)

Cartridge == [packer : PackerNames, size : Nat, last : {0, 255}]

\* Bytes that fix_cartridge_for_ezf_advance appends.
PaddingSize == 4

Init ==
  /\ stage = "parse"
  /\ args \in BoundedSeq(PackerNames \cup {"best", Unknown}, MaxArgs)
  /\ parsed = 0
  /\ packer = "best"
  /\ output \in Paths
  /\ todo = << >> /\ cartridges = << >> /\ chosen = << >>
  /\ files \in [Paths -> {"absent", "previous"}]
  /\ removable \in BOOLEAN

-----------------------------------------------------------------------------
\* Mutant: "best" is a no-op.
ParsePackerBestIgnored ==
  /\ stage = "parse" /\ parsed < Len(args)
  /\ parsed' = parsed + 1
  /\ IF args[parsed + 1] = Unknown
       THEN stage' = "failure" /\ UNCHANGED packer
       ELSE /\ packer' = IF args[parsed + 1] = "best" THEN packer ELSE args[parsed + 1]
            /\ UNCHANGED stage
  /\ UNCHANGED <<args, output, todo, cartridges, chosen, files, removable>>

\* Mutant: the name is not looked up in the registry.
ParsePackerUnchecked ==
  /\ stage = "parse" /\ parsed < Len(args)
  /\ parsed' = parsed + 1
  /\ packer' = args[parsed + 1]
  /\ UNCHANGED <<stage, args, output, todo, cartridges, chosen, files, removable>>

\* parse_packer: an unknown packer ends the program, "best" undoes a choice.
ParsePacker ==
  /\ stage = "parse" /\ parsed < Len(args)
  /\ parsed' = parsed + 1
  /\ IF args[parsed + 1] = Unknown
       THEN stage' = "failure" /\ UNCHANGED packer
       ELSE packer' = args[parsed + 1] /\ UNCHANGED stage
  /\ UNCHANGED <<args, output, todo, cartridges, chosen, files, removable>>

\* The rest of the command line is wrong, or pack is called.
EndOfCommandLine ==
  /\ stage = "parse" /\ parsed = Len(args)
  /\ stage' \in {"load", "failure"}
  /\ UNCHANGED <<optionVars, todo, cartridges, chosen, files, removable>>

\* Mutant: the output file is created before it is known what to write.
LoadAndOpen ==
  /\ stage = "load"
  /\ \/ stage' = "failure" /\ UNCHANGED todo
     \/ /\ files[InputPath] # "absent"
        /\ stage' = "try"
        /\ todo' = IF packer = "best" THEN Packers ELSE <<packer>>
  /\ files' = [files EXCEPT ![output] = "partial"]
  /\ UNCHANGED <<optionVars, cartridges, chosen, removable>>

\* load_input_file throws or returns; get_packers.
LoadInputFile ==
  /\ stage = "load"
  /\ \/ stage' = "failure" /\ UNCHANGED todo
     \/ /\ files[InputPath] # "absent"
        /\ stage' = "try"
        /\ todo' = IF packer = "best" THEN Packers ELSE <<packer>>
  /\ UNCHANGED <<optionVars, cartridges, chosen, files, removable>>

\* fix_cartridge_for_ezf_advance
Fixed(c) ==
  IF c.last = 255 THEN [c EXCEPT !.size = @ + PaddingSize, !.last = 0] ELSE c

\* A packer returns a cartridge, of some size and with some last byte.
Pack(size, last) ==
  /\ stage = "try" /\ todo # << >>
  /\ cartridges' =
       Append(cartridges, Fixed([packer |-> Head(todo), size |-> size, last |-> last]))
  /\ todo' = Tail(todo)
  /\ UNCHANGED <<stage, optionVars, chosen, files, removable>>

\* A packer's exception is caught only in main.
PackThrows ==
  /\ stage = "try" /\ todo # << >>
  /\ stage' = "failure"
  /\ UNCHANGED <<optionVars, todo, cartridges, chosen, files, removable>>

\* smallest_cartridge: min_element returns the first of several.
IsSmallest(i) ==
  \A j \in DOMAIN cartridges :
    IF j < i THEN cartridges[i].size < cartridges[j].size
             ELSE cartridges[i].size <= cartridges[j].size

\* Mutant: every cartridge that is made replaces the one before it.
ChooseLastTried ==
  /\ stage = "try" /\ todo = << >>
  /\ chosen' = <<cartridges[Len(cartridges)]>>
  /\ stage' = "open"
  /\ UNCHANGED <<optionVars, todo, cartridges, files, removable>>

ChooseSmallest ==
  /\ stage = "try" /\ todo = << >>
  /\ \E i \in DOMAIN cartridges : IsSmallest(i) /\ chosen' = <<cartridges[i]>>
  /\ stage' = "open"
  /\ UNCHANGED <<optionVars, todo, cartridges, files, removable>>

-----------------------------------------------------------------------------
\* file.open truncates; if it fails, what was there is still removed.
Open ==
  /\ stage = "open"
  /\ \/ stage' = "write" /\ files' = [files EXCEPT ![output] = "partial"]
     \/ stage' = "remove" /\ UNCHANGED files
  /\ UNCHANGED <<optionVars, todo, cartridges, chosen, removable>>

\* Mutant: the exception for a failed write leaves the handler out.
WriteNoHandler ==
  /\ stage = "write"
  /\ \/ stage' = "failure" /\ UNCHANGED files
     \/ stage' = "close" /\ files' \in {files, [files EXCEPT ![output] = "cartridge"]}
  /\ UNCHANGED <<optionVars, todo, cartridges, chosen, removable>>

\* file.write fails, or all bytes are in the stream's buffer or in the file.
Write ==
  /\ stage = "write"
  /\ \/ stage' = "remove" /\ UNCHANGED files
     \/ stage' = "close" /\ files' \in {files, [files EXCEPT ![output] = "cartridge"]}
  /\ UNCHANGED <<optionVars, todo, cartridges, chosen, removable>>

\* file.close writes what is in the buffer; nobody asks whether that worked.
Close ==
  /\ stage = "close"
  /\ stage' = "success"
  /\ files' \in {files, [files EXCEPT ![output] = "cartridge"]}
  /\ UNCHANGED <<optionVars, todo, cartridges, chosen, removable>>

\* remove_output_file ignores errors; the exception ends in main.
RemoveOutputFile ==
  /\ stage = "remove"
  /\ stage' = "failure"
  /\ files' = IF removable THEN [files EXCEPT ![output] = "absent"] ELSE files
  /\ UNCHANGED <<optionVars, todo, cartridges, chosen, removable>>

Next ==
  \/ ParsePacker
  \/ EndOfCommandLine
  \/ LoadInputFile
  \/ \E size \in Sizes, last \in {0, 255} : Pack(size, last)
  \/ PackThrows
  \/ ChooseSmallest
  \/ Open
  \/ Write
  \/ Close
  \/ RemoveOutputFile

Spec == Init /\ [][Next]_vars

-----------------------------------------------------------------------------
\* Type invariant.
TypeOK ==
  /\ stage \in Stages
  /\ args \in Seq(PackerNames \cup {"best", Unknown})
  /\ parsed \in 0..Len(args)
  /\ packer \in PackerNames \cup {"best"}
  /\ output \in Paths
  /\ todo \in Seq(PackerNames)
  /\ cartridges \in Seq(Cartridge)
  /\ chosen \in {<< >>} \cup {<<c>> : c \in ToSet(cartridges)}
  /\ files \in [Paths -> {"absent", "previous", "partial", "cartridge"}]
  /\ removable \in BOOLEAN

\* The packers that the command line asks for: its last --packer counts.
Requested ==
  IF args = << >> \/ Last(args) = "best" THEN PackerNames ELSE {Last(args)}

\* The packers that have returned a cartridge.
Packed == {c.packer : c \in ToSet(cartridges)}

\* A ROM is chosen from the work of exactly the packers asked for, whatever
\* was asked for before (parse_packer, get_packers).
RequestHonoured == chosen # << >> => Packed = Requested

\* The ROM written is the smallest once the padding for the EZF Advance is
\* counted, and it does not end in a byte that this flash cart would drop.
SmallestRomWritten ==
  chosen # << >> =>
    /\ chosen[1].last # 255
    /\ \A c \in ToSet(cartridges) : chosen[1].size <= Fixed(c).size

\* No file is touched before every packer has done its work: a failure to
\* load or to pack leaves an existing ROM, or the input, as it was.
UntouchedUntilPacked ==
  [][files' # files => chosen # << >> /\ Packed = Requested]_vars

\* When writing fails and the error is reported, neither a part of the ROM
\* nor an older one stays behind that could be mistaken for it, unless the
\* file system does not allow to remove it.
NoRomAfterFailedWrite ==
  stage = "failure" /\ chosen # << >> /\ removable => files[output] = "absent"

\* README.md: the ROM will be written, as far as the exit status says.
SuccessMeansWritten == stage = "success" => files[output] = "cartridge"
=============================================================================

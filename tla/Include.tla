------------------------------ MODULE Include ------------------------------
(* The expansion of INPUT statements before a command is executed             *)
(* (`expand_input`, `_expand` in _command.py), statement by statement.        *)
(*                                                                            *)
(* A text is a sequence of statements: text of some bytes, or an INPUT with   *)
(* the file it names, or an INPUT FILE() with a computed argument.  Files are *)
(* a function from their names to what they are: the size that stat reports   *)
(* and the text that is read, which another program may have changed since.   *)
(*                                                                            *)
(* A definition marked "Mutant" is not part of the model: it is the next one  *)
(* with a plausible bug, and shows that a property can fail.                  *)
EXTENDS Calls, SequencesExt

TextOf(bytes) == [kind |-> "text", bytes |-> bytes, file |-> ""]
InputOf(file) == [kind |-> "input", bytes |-> 0, file |-> file]
Computed == [kind |-> "computed", bytes |-> 0, file |-> ""]

File(size, nul, text) == [regular |-> TRUE, size |-> size, nul |-> nul, text |-> text]
Directory == [regular |-> FALSE, size |-> 0, nul |-> FALSE, text |-> <<>>]

Limits(depth, bytes) == [depth |-> depth, bytes |-> bytes]

IsText(text) ==
  text \in Seq([kind : {"text"}, bytes : Nat, file : {""}]
               \cup [kind : {"input", "computed"}, bytes : {0}, file : STRING])
IsFile(file) == file.size \in Nat /\ IsText(file.text)

ASSUME IncludeAssumption ==
  \A i \in DOMAIN Inputs : \A x \in Inputs[i] :
    x.about = "include" =>
      /\ IsText(x.text)
      /\ \A f \in DOMAIN x.files : IsFile(x.files[f])
      /\ x.limits.depth \in Nat /\ x.limits.bytes \in Nat

\* The sum of the first n members of a sequence of numbers, and the bytes of a text.
Total(s, n) ==
  LET sum[k \in Nat] == IF k = 0 THEN 0 ELSE sum[k - 1] + s[k]
  IN  sum[n]
Size(text) == Total([i \in DOMAIN text |-> text[i].bytes], Len(text))

\* A call of `_expand`: the file it expands, None for the command itself, its text
\* and how many statements of it are done.
Frame(file, text) == [file |-> file, text |-> text, done |-> 0]

\* What an expansion has come to: the calls inside each other, the statements that
\* are in their final place, the bytes counted against the limit, in `total` by what
\* stat said and in `read` by what was read to be expanded, and an error.
Begun(text) ==
  [frames |-> <<Frame(None, text)>>, out |-> <<>>, total |-> 0, read |-> 0, error |-> "none"]

Top == Last(output.frames)
Statement == Top.text[Top.done + 1]
Stack == {output.frames[i].file : i \in 2..Len(output.frames)}

\* Mutant: the bytes of one file are limited, not those of all.
MutDenied(file) ==
  IF Statement.kind = "computed" THEN "computed"
  ELSE IF file \notin DOMAIN input.files THEN "absent"
  ELSE IF file \in Stack THEN "cycle"
  ELSE IF Len(output.frames) > input.limits.depth THEN "depth"
  ELSE IF ~input.files[file].regular THEN "irregular"
  ELSE IF input.files[file].size > input.limits.bytes THEN "size"
  ELSE IF input.files[file].nul THEN "nul" ELSE "none"

\* Why an INPUT is refused, in the order of the code.
Denied(file) ==
  IF Statement.kind = "computed" THEN "computed"
  ELSE IF file \notin DOMAIN input.files THEN "absent"
  ELSE IF file \in Stack THEN "cycle"
  ELSE IF Len(output.frames) > input.limits.depth THEN "depth"
  ELSE IF ~input.files[file].regular THEN "irregular"
  ELSE IF output.total + input.files[file].size > input.limits.bytes THEN "size"
  ELSE IF input.files[file].nul THEN "nul" ELSE "none"

\* `expand_input` calls `_expand` with the command.
Expands == Call("include", Begun(input.text))

\* The innermost call goes on.
Expanding == After("include") /\ output.frames # <<>> /\ output.error = "none"
Meets(kinds) ==
  Expanding /\ Top.done < Len(Top.text) /\ Statement.kind \in kinds /\ UNCHANGED input
Passed == [output.frames EXCEPT ![Len(output.frames)].done = @ + 1]

\* Text stays as it is.
Copies ==
  /\ Meets({"text"})
  /\ output' = [output EXCEPT !.out = Append(@, Statement), !.frames = Passed]

\* `replace`: an INPUT is refused, or its file is read and expanded in its place.
Refuses ==
  /\ Meets({"input", "computed"})
  /\ Denied(Statement.file) # "none"
  /\ output' = [output EXCEPT !.error = Denied(Statement.file)]

Enters ==
  /\ Meets({"input", "computed"})
  /\ Denied(Statement.file) = "none"
  /\ LET file == input.files[Statement.file]
     IN  output' = [output EXCEPT !.frames = Append(Passed, Frame(Statement.file, file.text)),
                                  !.total = @ + file.size, !.read = @ + Size(file.text)]

\* The text of the innermost call is expanded.
Leaves ==
  /\ Expanding /\ Top.done = Len(Top.text)
  /\ output' = [output EXCEPT !.frames = Front(@)]
  /\ UNCHANGED input

IncludeNext == Expands \/ Copies \/ Refuses \/ Enters \/ Leaves \/ Done
IncludeSpec == Init /\ [][IncludeNext]_vars

-----------------------------------------------------------------------------

\* At no time is a file expanded inside itself, are more files open than the limit,
\* or, when files are as large as they were said to be, more bytes read or put in
\* place than the limit allows, over all branches of the expansion, whether it is
\* refused later or not ("Cycles, excessive depth and excessive expanded size are
\* refused before anything is executed", expand_input).
IncludeBounded ==
  After("include") =>
    /\ \A i, j \in 2..Len(output.frames) :
         i # j => output.frames[i].file # output.frames[j].file
    /\ Len(output.frames) <= input.limits.depth + 1
    /\ (\A f \in DOMAIN input.files : input.files[f].size = Size(input.files[f].text)) =>
         /\ output.read <= input.limits.bytes
         /\ Size(output.out) <= Size(input.text) + input.limits.bytes
=============================================================================

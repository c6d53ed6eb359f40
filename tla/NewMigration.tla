---------------------------- MODULE NewMigration ----------------------------
(***************************************************************************)
(* "yoyo new" of yoyo/scripts/newmigration.py, run by several developers   *)
(* on one directory of migrations, with heads and read_migrations of       *)
(* yoyo/migrations.py: which files a new migration depends on, how it is   *)
(* named, and what others can read of it meanwhile.                        *)
(*                                                                         *)
(* All files are created on one day and have the same prefix.  A name is   *)
(* its number and its random part; the message is left out.  The random    *)
(* part is a new one, and sorts before or behind those of all other names. *)
(* The user leaves __depends__ as the template has it.                     *)
(***************************************************************************)
EXTENDS DependencyOrder, Integers, FiniteSetsExt

CONSTANTS
  Developers,    \* those who run yoyo new
  Batch,         \* those of them who give --batch
  Existing,      \* the names of the migrations that are there already
  MaxFiles,      \* bound on the files of the directory
  Temporary      \* the name of a temporary file

VARIABLES
  files,         \* the migrations of the directory: name -> contents
  phase,         \* how far each developer is
  listed,        \* the migrations that heads has still to look at
  read,          \* all migrations that its developer read
  heads,         \* what is left of them: later the __depends__ of the file
  temp,          \* whether a developer has a temporary file in the directory
  broken,        \* it cannot be loaded
  name           \* the name that make_filename has chosen

dirVars == <<files, temp>>
devVars == <<phase, listed, read, heads, broken, name>>
vars == <<dirVars, devVars>>

Names == Nat \X Int

Number(f) == f[1]

ASSUME NewAssumption ==
  /\ Batch \subseteq Developers /\ IsFiniteSet(Developers)
  /\ Existing \subseteq Names /\ Existing # {} /\ IsFiniteSet(Existing)
  /\ MaxFiles \in Nat
  /\ Temporary \notin Names

(***************************************************************************)
(* A file is the migrations it depends on, whether it is empty (opened and *)
(* not yet written), complete, or cannot be executed, and, as history, the *)
(* migrations that its developer had read.                                 *)
(***************************************************************************)
File(depends, state, known) ==
  [depends |-> depends, state |-> state, known |-> known]

TypeOK ==
  /\ DOMAIN files \subseteq Names
  /\ \A f \in DOMAIN files :
       /\ files[f].state \in {"empty", "complete", "broken"}
       /\ files[f].depends \subseteq Names \cup {Temporary}
       /\ f \notin files[f].known
  /\ \A d \in Developers :
       /\ phase[d] \in {"idle", "reading", "editing", "naming", "saving",
                        "writing", "ended"}
       /\ ToSet(listed[d]) \subseteq read[d]
       /\ heads[d] \subseteq read[d]
       /\ temp[d] => d \notin Batch
  /\ broken \in [Developers -> BOOLEAN]

Init ==
  /\ files = [f \in Existing |-> File({}, "complete", {})]
  /\ phase = [d \in Developers |-> "idle"]
  /\ listed = [d \in Developers |-> <<>>]
  /\ read = [d \in Developers |-> {}]
  /\ heads = [d \in Developers |-> {}]
  /\ temp = [d \in Developers |-> FALSE]
  /\ broken = [d \in Developers |-> FALSE]
  /\ name = [d \in Developers |-> Temporary]

-----------------------------------------------------------------------------
(* Names.  Numbers have two digits or, from 100 on, three, and everything  *)
(* compares them as strings.                                               *)

\* number <= n, of strings: "99" comes behind "100", and "10" before it.
StringLeq(a, b) ==
  \/ a < 100 /\ b < 100 /\ a <= b
  \/ a >= 100 /\ b >= 100 /\ a <= b
  \/ a < 100 /\ b >= 100 /\ a <= b \div 10
  \/ a >= 100 /\ b < 100 /\ a \div 10 < b

\* sorted(paths).  Behind the number comes "_", which is greater than any
\* digit, so that "10_" comes behind "100_".
NameLess(f, g) ==
  LET a == Number(f)
      b == Number(g)
  IN  \/ a = b /\ f[2] < g[2]
      \/ a < 100 /\ b < 100 /\ a < b
      \/ a >= 100 /\ b >= 100 /\ a < b
      \/ a < 100 /\ b >= 100 /\ a < b \div 10
      \/ a >= 100 /\ b < 100 /\ a \div 10 <= b

\* Mutant: a number that is taken already is not passed over.
LaterSkipping(number, n) ==
  IF StringLeq(number, n) /\ number # n THEN n + 1 ELSE number

\* One turn of the loop of make_filename.
Later(number, n) == IF StringLeq(number, n) THEN n + 1 ELSE number

\* The number that make_filename finds behind those of the list.
NumberBehind(numbers) ==
  LET number[n \in 0..Len(numbers)] ==
        IF n = 0 THEN 1 ELSE Later(number[n-1], numbers[n])
  IN  number[Len(numbers)]

\* The numbers it may find: glob lists the files in any order.
NewNumbers(S) ==
  {NumberBehind(numbers) : numbers \in SetToSeqs({Number(f) : f \in S})}

\* The files that read_migrations lists, in the order it gives them: the i-th
\* is the one with i-1 names before its own.
Sorted(S) ==
  [i \in 1..Cardinality(S) |->
     CHOOSE f \in S : Cardinality({g \in S : NameLess(g, f)}) = i - 1]

-----------------------------------------------------------------------------
Goto(d, label) == phase' = [phase EXCEPT ![d] = label]

\* The program ends, and its variables with it.
End(d, label) ==
  /\ Goto(d, label)
  /\ listed' = [listed EXCEPT ![d] = <<>>]
  /\ read' = [read EXCEPT ![d] = {}]
  /\ heads' = [heads EXCEPT ![d] = {}]
  /\ broken' = [broken EXCEPT ![d] = FALSE]
  /\ name' = [name EXCEPT ![d] = Temporary]

\* Mutant: the prefix of the temporary files is not looked at.
ReadTemporary(d) ==
  /\ phase[d] = "idle"
  /\ listed' = [listed EXCEPT ![d] = Sorted(DOMAIN files)]
  /\ LET all == DOMAIN files \cup {Temporary : e \in {x \in Developers : temp[x]}}
     IN  /\ read' = [read EXCEPT ![d] = all]
         /\ heads' = [heads EXCEPT ![d] = all]
  /\ Goto(d, "reading")
  /\ UNCHANGED <<dirVars, broken, name>>

\* read_migrations, which leaves the temporary files out.
Read(d) ==
  /\ phase[d] = "idle"
  /\ listed' = [listed EXCEPT ![d] = Sorted(DOMAIN files)]
  /\ read' = [read EXCEPT ![d] = DOMAIN files]
  /\ heads' = [heads EXCEPT ![d] = DOMAIN files]
  /\ Goto(d, "reading")
  /\ UNCHANGED <<dirVars, broken, name>>

\* The file can be executed, and what it depends on has been read.
Loads(d, f) ==
  files[f].state # "broken" /\ files[f].depends \subseteq read[d]

\* Mutant: heads keeps the last of the list only.
LoadKeepingLast(d) ==
  /\ phase[d] = "reading" /\ listed[d] # <<>>
  /\ Loads(d, Head(listed[d]))
  /\ heads' = [heads EXCEPT ![d] = {Head(listed[d])}]
  /\ listed' = [listed EXCEPT ![d] = Tail(@)]
  /\ UNCHANGED <<dirVars, phase, read, broken, name>>

\* One turn of the loop of heads: a migration is loaded, and what it depends
\* on is not a head.
Load(d) ==
  /\ phase[d] = "reading" /\ listed[d] # <<>>
  /\ Loads(d, Head(listed[d]))
  /\ heads' = [heads EXCEPT ![d] = @ \ files[Head(listed[d])].depends]
  /\ listed' = [listed EXCEPT ![d] = Tail(@)]
  /\ UNCHANGED <<dirVars, phase, read, broken, name>>

\* BadMigration ends the program.
FailToLoad(d) ==
  /\ phase[d] = "reading" /\ listed[d] # <<>>
  /\ ~Loads(d, Head(listed[d]))
  /\ End(d, "ended")
  /\ UNCHANGED dirVars

\* Mutant: --batch is looked at only behind the temporary file.
FillTemplateAlways(d) ==
  /\ phase[d] = "reading" /\ listed[d] = <<>>
  /\ temp' = [temp EXCEPT ![d] = TRUE]
  /\ Goto(d, IF d \in Batch THEN "naming" ELSE "editing")
  /\ UNCHANGED <<files, listed, read, heads, broken, name>>

\* The template is filled in, and written to a temporary file for the editor.
FillTemplate(d) ==
  /\ phase[d] = "reading" /\ listed[d] = <<>>
  /\ temp' = [temp EXCEPT ![d] = d \notin Batch]
  /\ Goto(d, IF d \in Batch THEN "naming" ELSE "editing")
  /\ UNCHANGED <<files, listed, read, heads, broken, name>>

\* The user leaves the editor with a changed file, which then loads or not.
Edit(d) ==
  /\ phase[d] = "editing"
  /\ \E b \in BOOLEAN :
       /\ broken' = [broken EXCEPT ![d] = b]
       /\ Goto(d, IF b THEN "editing" ELSE "naming")
  /\ UNCHANGED <<dirVars, listed, read, heads, name>>

\* The editor cannot be opened: the template loads, and is kept as it is.
FailToEdit(d) ==
  /\ phase[d] = "editing" /\ ~broken[d]
  /\ Goto(d, "naming")
  /\ UNCHANGED <<dirVars, listed, read, heads, broken, name>>

\* "Retry editing?" is answered with n, which keeps the file; y is to Edit.
SaveBroken(d) ==
  /\ phase[d] = "editing" /\ broken[d]
  /\ Goto(d, "naming")
  /\ UNCHANGED <<dirVars, listed, read, heads, broken, name>>

\* The template was left unchanged, or the answer is q.
Quit(d) ==
  /\ phase[d] = "editing"
  /\ temp' = [temp EXCEPT ![d] = FALSE]
  /\ End(d, "idle")
  /\ UNCHANGED files

\* The names of files, and those chosen for files.
InUse == (DOMAIN files \cup {name[d] : d \in Developers}) \ {Temporary}

\* Random parts are compared between names with the same number only.
NewRandoms(number) ==
  LET random == {f[2] : f \in InUse}
  IN  {Max(random) + 1} \cup
      {Min(random) - 1 : f \in {g \in InUse : Number(g) = number}}

\* make_filename.
ChooseName(d) ==
  /\ phase[d] = "naming"
  /\ Cardinality(DOMAIN files) < MaxFiles
  /\ \E number \in NewNumbers(DOMAIN files) :
     \E random \in NewRandoms(number) :
       name' = [name EXCEPT ![d] = <<number, random>>]
  /\ Goto(d, "saving")
  /\ UNCHANGED <<dirVars, listed, read, heads, broken>>

Put(d, depends, state) ==
  files' = [f \in DOMAIN files \cup {name[d]} |->
              IF f = name[d] THEN File(depends, state, read[d])
              ELSE files[f]]

\* The temporary file is renamed.
Rename(d) ==
  /\ phase[d] = "saving" /\ d \notin Batch
  /\ Put(d, heads[d], IF broken[d] THEN "broken" ELSE "complete")
  /\ temp' = [temp EXCEPT ![d] = FALSE]
  /\ End(d, "idle")

\* With --batch the file is opened under its name and then written.
OpenFile(d) ==
  /\ phase[d] = "saving" /\ d \in Batch
  /\ Put(d, {}, "empty")
  /\ Goto(d, "writing")
  /\ UNCHANGED <<temp, listed, read, heads, broken, name>>

\* Mutant: the heads are read only when the file is there already.
WriteFileLate(d) ==
  /\ phase[d] = "writing"
  /\ LET all == DOMAIN files \ {name[d]}
     IN  Put(d, all \ UNION {files[f].depends : f \in all}, "complete")
  /\ End(d, "idle")
  /\ UNCHANGED temp

WriteFile(d) ==
  /\ phase[d] = "writing"
  /\ Put(d, heads[d], "complete")
  /\ End(d, "idle")
  /\ UNCHANGED temp

\* The process dies, and leaves its files as they are.
Kill(d) ==
  /\ phase[d] \notin {"idle", "ended"}
  /\ End(d, "ended")
  /\ UNCHANGED dirVars

Next ==
  \E d \in Developers :
    \/ Read(d) \/ Load(d) \/ FailToLoad(d) \/ FillTemplate(d)
    \/ Edit(d) \/ FailToEdit(d) \/ SaveBroken(d) \/ Quit(d)
    \/ ChooseName(d) \/ Rename(d) \/ OpenFile(d) \/ WriteFile(d)
    \/ Kill(d)

Spec == Init /\ [][Next]_vars

-----------------------------------------------------------------------------
Depends == [f \in DOMAIN files |-> files[f].depends]

\* A new migration comes behind everything that its developer had read, in
\* every order that topological_sort may return, whatever the names: also when
\* others saved theirs first, when numbers repeat or pass 99, and when a file
\* was read in the moment before its contents were there.
CreationOrderKept ==
  \A order \in TopologicalSorts(Depends, Sorted(DOMAIN files)) :
    \A i, j \in DOMAIN order :
      /\ files[order[j]].state # "empty"
      /\ order[i] \in files[order[j]].known
      => i < j

\* No circle: of two people who create migrations at once, not each reads the
\* file of the other.  So topological_sort does not refuse the directory.
NeverCircular == ~Circular(Depends, Sorted(DOMAIN files))

\* Every migration finds what it depends on beside it, at any moment: a list
\* that is read then is not refused because of a name that is not there.
DirectoryIsClosed ==
  \A f \in DOMAIN files : files[f].depends \subseteq DOMAIN files

\* A name sorts behind those of the files that are there, until one has the
\* number 99: the next number is then 100 or, as "100" <= "98", 99 once more.
NamesRise ==
  [][\A d \in Developers : ChooseName(d) =>
       \A f \in DOMAIN files :
         \/ NameLess(f, name'[d])
         \/ \E g \in DOMAIN files : Number(g) >= 99]_vars
=============================================================================

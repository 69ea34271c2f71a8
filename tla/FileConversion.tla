---------------------------- MODULE FileConversion ----------------------------
(***************************************************************************)
(* ConvertFile of src/file_converter.cpp, run by several processes for one *)
(* output path, which may die at any step and be started again.  What they *)
(* share is the directory of the output file; a step is what the code does *)
(* between two calls of the file system that another process can get into. *)
(***************************************************************************)
EXTENDS Integers, FiniteSets

CONSTANTS
  Processes,
  Overwrites,   \* those run with --force: options.overwrite
  Nonces,       \* the clock values MakeTemporaryPath may read
  Attempts,     \* the names it tries for a clock value: 1000
  NoTemp,       \* no temporary path has been chosen
  MaxAbandoned  \* bounds the kills and the failed removals, for model checking

ASSUME FileAssumption ==
  /\ Overwrites \subseteq Processes
  /\ Attempts \in Nat \ {0} /\ MaxAbandoned \in Nat

Temps == Nonces \X (0 .. Attempts - 1)

ASSUME NoTempAssumption == NoTemp \notin Temps

\* A file is whole, lacks its last bytes, is a part, as its writer is at work
\* or has died, or is a mixture of what several have written.
Absent == [by |-> "nobody", end |-> "absent"]
Foreign == [by |-> "other", end |-> "whole"]
File == [by : Processes \cup {"nobody", "other"},
         end : {"absent", "part", "mixed", "short", "whole"}]

VARIABLES format,    \* of the output, from the suffix of its path
          output,    \* the file at the output path
          fs,        \* the files at the temporary paths
          pc,        \* how far each process is
          temp,      \* temporary.Path()
          at,        \* where the file is now that a process has open
          abandoned, \* how often a file may have been left behind
          differed   \* whether no clock value read so far was Pending

vars == <<format, output, fs, pc, temp, at, abandoned, differed>>

Stages == {"start", "checked", "named", "opened", "closed", "unwinding",
           "done", "failed", "crashed"}

\* Between MakeTemporaryPath and the end of ConvertFile.
Running(p) == pc[p] \in {"named", "opened", "closed", "unwinding"}

TypeOk ==
  /\ format \in {"dbn", "parquet"}
  /\ output \in File
  /\ fs \in [Temps -> File]
  /\ pc \in [Processes -> Stages]
  /\ temp \in [Processes -> Temps \cup {NoTemp}]
  /\ \A p \in Processes : temp[p] # NoTemp <=> Running(p)
  /\ at \in [Processes -> {"nowhere", "temp", "output"}]
  /\ \A p \in Processes : at[p] # "nowhere" => pc[p] = "opened"
  /\ abandoned \in 0 .. MaxAbandoned
  /\ differed \in BOOLEAN

Init ==
  /\ format \in {"dbn", "parquet"}
  /\ output \in {Absent, Foreign}
  /\ fs = [path \in Temps |-> Absent]
  /\ pc = [p \in Processes |-> "start"]
  /\ temp = [p \in Processes |-> NoTemp]
  /\ at = [p \in Processes |-> "nowhere"]
  /\ abandoned = 0
  /\ differed = TRUE

Exists(path) == fs[path] # Absent

Goes(p, from, to) == pc[p] = from /\ pc' = [pc EXCEPT ![p] = to]

Writes(p, path) == at[p] = "temp" /\ temp[p] = path

-----------------------------------------------------------------------------

\* Suffix, paths, directory, and that no file is there to be replaced.
CheckPaths(p) ==
  /\ output = Absent \/ p \in Overwrites
  /\ Goes(p, "start", "checked")
  /\ UNCHANGED <<format, output, fs, temp, at, abandoned, differed>>

\* A check of the paths, of the input by ValidateDbnInput, or of its metadata
\* fails; nothing has been created yet.
Refuse(p) ==
  /\ Goes(p, "start", "failed") \/ Goes(p, "checked", "failed")
  /\ UNCHANGED <<format, output, fs, temp, at, abandoned, differed>>

\* Mutant: the first name is taken without a look at the directory.
FirstName(path) == path[2] = 0

FirstFree(path) ==
  /\ ~Exists(path)
  /\ \A attempt \in 0 .. path[2] - 1 : Exists(<<path[1], attempt>>)

\* The clock values of those whose file is not there yet.
Pending == {temp[q][1] : q \in {r \in Processes : Running(r) /\ ~Exists(temp[r])}}

\* The name is only looked for: nothing reserves it, and two processes that
\* read one clock value may take one name.
MakeTemporaryPath(p) ==
  /\ \E path \in Temps :
       /\ FirstFree(path) /\ temp' = [temp EXCEPT ![p] = path]
       /\ differed' = (differed /\ path[1] \notin Pending)
  /\ Goes(p, "checked", "named")
  /\ UNCHANGED <<format, output, fs, at, abandoned>>

\* Mutant: a run that finds no name goes on without one.
NoNameIgnored(p) ==
  /\ \E nonce \in Nonces : \A attempt \in 0 .. Attempts - 1 : Exists(<<nonce, attempt>>)
  /\ Goes(p, "checked", "named")
  /\ UNCHANGED <<format, output, fs, temp, at, abandoned, differed>>

\* "unable to allocate a temporary output filename"
NoNameLeft(p) ==
  /\ \E nonce \in Nonces : \A attempt \in 0 .. Attempts - 1 : Exists(<<nonce, attempt>>)
  /\ Goes(p, "checked", "failed")
  /\ UNCHANGED <<format, output, fs, temp, at, abandoned, differed>>

\* The output stream creates the file at its path, or truncates the one there,
\* which another process may be writing.
Open(p) ==
  /\ Goes(p, "named", "opened")
  /\ LET end == IF \E q \in Processes : Writes(q, temp[p]) THEN "mixed" ELSE "part"
     IN  fs' = [fs EXCEPT ![temp[p]] = [by |-> p, end |-> end]]
  /\ at' = [at EXCEPT ![p] = "temp"]
  /\ UNCHANGED <<format, output, temp, abandoned, differed>>

Ended(file, end) == IF file.end = "mixed" THEN file ELSE [file EXCEPT !.end = end]

\* ConvertRecords reaches the end of the input, and the writer is closed: by
\* Close, which throws if it cannot write, or, for DBN, by destructors, which
\* tell nobody.  The file may meanwhile be the output, or have no name.
Close(p) ==
  /\ Goes(p, "opened", "closed")
  /\ \E end \in {"whole"} \cup (IF format = "dbn" THEN {"short"} ELSE {}) :
       /\ fs' = IF at[p] = "temp" THEN [fs EXCEPT ![temp[p]] = Ended(@, end)] ELSE fs
       /\ output' = IF at[p] = "output" THEN Ended(output, end) ELSE output
  /\ at' = [at EXCEPT ![p] = "nowhere"]
  /\ UNCHANGED <<format, temp, abandoned, differed>>

\* Opening, converting, writing, closing or renaming throws; the writer goes.
Fail(p) ==
  /\ \E stage \in {"named", "opened", "closed"} : Goes(p, stage, "unwinding")
  /\ at' = [at EXCEPT ![p] = "nowhere"]
  /\ UNCHANGED <<format, output, fs, temp, abandoned, differed>>

Forgets(p) == temp' = [temp EXCEPT ![p] = NoTemp]

\* The file at temp[p] goes, from under whoever is writing it, which then is
\* the output, or nameless.
TakesAway(p, place) ==
  /\ fs' = [fs EXCEPT ![temp[p]] = Absent]
  /\ at' = [q \in Processes |-> IF Writes(q, temp[p]) THEN place
                                ELSE IF place = "output" /\ at[q] = place THEN "nowhere"
                                ELSE at[q]]

\* Mutant: the file is not removed.
UnwindCommitted(p) ==
  /\ Goes(p, "unwinding", "failed") /\ Forgets(p)
  /\ UNCHANGED <<format, output, fs, at, abandoned, differed>>

\* ~TemporaryOutput, which ignores that it cannot remove the file.
Unwind(p) ==
  /\ Goes(p, "unwinding", "failed") /\ Forgets(p)
  /\ \/ TakesAway(p, "nowhere") /\ UNCHANGED abandoned
     \/ /\ abandoned < MaxAbandoned /\ abandoned' = abandoned + 1
        /\ UNCHANGED <<fs, at>>
  /\ UNCHANGED <<format, output, differed>>

\* Mutant: the file may be renamed before its writer is closed.
CommitUnclosed(p) ==
  /\ Goes(p, "closed", "done") \/ Goes(p, "opened", "done")
  /\ Exists(temp[p]) /\ output' = fs[temp[p]]
  /\ Forgets(p) /\ TakesAway(p, "output")
  /\ UNCHANGED <<format, abandoned, differed>>

\* Rename replaces whatever is at the output path, in one step, by whatever is
\* at the temporary one; Commit then keeps ~TemporaryOutput from removing it.
Commit(p) ==
  /\ Goes(p, "closed", "done")
  /\ Exists(temp[p]) /\ output' = fs[temp[p]]
  /\ Forgets(p) /\ TakesAway(p, "output")
  /\ UNCHANGED <<format, abandoned, differed>>

\* The process is killed: no destructor runs, and its file stays behind.
Crash(p) ==
  /\ abandoned < MaxAbandoned /\ abandoned' = abandoned + 1
  /\ pc[p] \notin {"done", "failed", "crashed"}
  /\ pc' = [pc EXCEPT ![p] = "crashed"] /\ Forgets(p)
  /\ at' = [at EXCEPT ![p] = "nowhere"]
  /\ UNCHANGED <<format, output, fs, differed>>

Restart(p) ==
  /\ Goes(p, "crashed", "start")
  /\ UNCHANGED <<format, output, fs, temp, at, abandoned, differed>>

Step(p) ==
  \/ CheckPaths(p) \/ Refuse(p) \/ MakeTemporaryPath(p) \/ NoNameLeft(p) \/ Open(p)
  \/ Close(p) \/ Fail(p) \/ Unwind(p) \/ Commit(p)

Next == \E p \in Processes : Step(p) \/ Crash(p) \/ Restart(p)

Spec == Init /\ [][Next]_vars

-----------------------------------------------------------------------------

\* A Parquet file has all its records; a DBN file may lack the last bytes.
Complete(file) == file.end = "whole" \/ (format = "dbn" /\ file.end = "short")

\* Whoever fails, is killed or runs beside whom, the output path never holds a
\* part of a conversion, as long as the clocks have differed.
OutputWhole == differed /\ output # Absent => Complete(output)

\* What a process is writing is the file at its own path and no other's, and
\* what it goes on to rename is its own conversion, closed.
OwnFile(p) ==
  /\ pc[p] = "opened" => at[p] = "temp" /\ fs[temp[p]] = [by |-> p, end |-> "part"]
  /\ pc[p] = "closed" => fs[temp[p]].by = p /\ Complete(fs[temp[p]])
OwnFileOnly == differed => \A p \in Processes : OwnFile(p)

\* A temporary file that is there belongs to a process still at work, or was
\* left by one that was killed or could not remove it, whatever names the
\* processes chose: each of these leaves one file at most, and no other failure
\* leaves any.
NoLeftovers ==
  Cardinality({path \in Temps : /\ Exists(path)
                                /\ \A p \in Processes : Running(p) => temp[p] # path})
    <= abandoned

\* "Existing output is never replaced unless this is explicitly enabled."
NeverReplaced ==
  [][\A p \in Processes : pc[p] # "done" /\ pc'[p] = "done" /\ output # Absent => p \in Overwrites]_vars
=============================================================================

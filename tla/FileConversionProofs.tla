------------------------ MODULE FileConversionProofs ------------------------
(***************************************************************************)
(* That no process of FileConversion publishes a part of a conversion,     *)
(* however many there are and wherever they fail or are killed, as long as *)
(* the clock values they read differ.  The invariant: no two running       *)
(* processes have a temporary path in common, so each finds in its file    *)
(* what it has put there itself.                                           *)
(***************************************************************************)
EXTENDS FileConversion, FiniteSetTheorems, TLAPS

TempsDistinct ==
  \A p, q \in Processes : Running(p) /\ Running(q) /\ p # q => temp[p] # temp[q]

Clean == (differed => TempsDistinct) /\ OwnFileOnly /\ OutputWhole

FInv == TypeOk /\ Clean

LEMMA InitHasInv == Init => FInv
<1> SUFFICES ASSUME Init PROVE FInv
  OBVIOUS
<1>1. TypeOk
  BY FileAssumption DEF Init, TypeOk, File, Stages, Running, Foreign, Absent
<1>2. TempsDistinct /\ OwnFileOnly
  BY DEF Init, TempsDistinct, OwnFileOnly, OwnFile, Running
<1>3. OutputWhole
  BY DEF Init, OutputWhole, Complete, Foreign
<1> QED
  BY <1>1, <1>2, <1>3 DEF FInv, Clean

-----------------------------------------------------------------------------
(* Types.                                                                  *)

\* What a step of p says of stages alone.
LEMMA Going ==
  ASSUME TypeOk, NEW p \in Processes, NEW from, NEW to \in Stages, Goes(p, from, to)
  PROVE  /\ pc[p] = from /\ pc'[p] = to /\ pc' \in [Processes -> Stages]
         /\ \A q \in Processes : q # p => pc'[q] = pc[q] /\ (Running(q)' <=> Running(q))
  BY DEF TypeOk, Goes, Running

LEMMA MovingType ==
  ASSUME TypeOk, NEW p \in Processes, NEW from, NEW to \in Stages, Goes(p, from, to),
         UNCHANGED <<format, output, fs, temp, abandoned, differed>>,
         \/ UNCHANGED at /\ from # "opened"
         \/ at' = [at EXCEPT ![p] = "nowhere"],
         from \in {"named", "opened", "closed", "unwinding"}
           <=> to \in {"named", "opened", "closed", "unwinding"}
  PROVE  TypeOk'
<1>1. \A q \in Processes : Running(q)' <=> Running(q)
  BY Going DEF Running
<1>2. /\ at' \in [Processes -> {"nowhere", "temp", "output"}]
      /\ \A q \in Processes : at'[q] # "nowhere" => pc'[q] = "opened"
  BY Going DEF TypeOk
<1> QED
  BY <1>1, <1>2, Going DEF TypeOk

LEMMA NamingType ==
  ASSUME TypeOk, NEW p \in Processes, MakeTemporaryPath(p)
  PROVE  TypeOk'
<1>1. PICK path \in Temps : temp' = [temp EXCEPT ![p] = path] /\ differed' \in BOOLEAN
  BY DEF MakeTemporaryPath, TypeOk
<1>2. Goes(p, "checked", "named") /\ UNCHANGED <<format, output, fs, at, abandoned>>
  BY DEF MakeTemporaryPath
<1>3. path # NoTemp
  BY NoTempAssumption
<1>4. Running(p)' /\ at[p] = "nowhere" /\ pc' \in [Processes -> Stages]
      /\ \A q \in Processes : q # p => pc'[q] = pc[q] /\ (Running(q)' <=> Running(q))
  BY <1>2, Going DEF Running, Stages, TypeOk
<1>5. \A q \in Processes : temp'[q] # NoTemp <=> Running(q)'
  BY <1>1, <1>3, <1>4 DEF TypeOk
<1>6. \A q \in Processes : at'[q] # "nowhere" => pc'[q] = "opened"
  BY <1>2, <1>4 DEF TypeOk
<1> QED
  BY <1>1, <1>2, <1>4, <1>5, <1>6 DEF TypeOk

\* What writing puts where the file is.
LEMMA WritingType ==
  ASSUME TypeOk, NEW p \in Processes, Open(p) \/ Close(p)
  PROVE  TypeOk'
<1>1. /\ Running(p) /\ Running(p)' /\ temp[p] \in Temps /\ pc' \in [Processes -> Stages]
      /\ \A q \in Processes : q # p => pc'[q] = pc[q] /\ (Running(q)' <=> Running(q))
  BY Going DEF Open, Close, Stages, Running, TypeOk
<1>2. \A q \in Processes : Running(q)' <=> Running(q)
  BY <1>1
<1>3. CASE Open(p)
  <2> DEFINE file(end) == [by |-> p, end |-> end]
  <2>1. PICK end \in {"mixed", "part"} : fs' = [fs EXCEPT ![temp[p]] = file(end)]
    BY <1>3 DEF Open
  <2>2. file(end) \in File
    BY DEF File
  <2>3. fs' \in [Temps -> File]
    BY <2>1, <2>2 DEF TypeOk
  <2>4. pc'[p] = "opened"
    BY <1>3 DEF Open, Goes, TypeOk
  <2>5. /\ at' \in [Processes -> {"nowhere", "temp", "output"}]
        /\ \A q \in Processes : at'[q] # "nowhere" => pc'[q] = "opened"
    BY <1>1, <1>3, <2>4 DEF Open, TypeOk
  <2> QED
    BY <1>1, <1>2, <1>3, <2>3, <2>5 DEF Open, TypeOk
<1>4. CASE Close(p)
  <2>1. PICK end \in {"whole", "short"} :
          /\ fs' = IF at[p] = "temp" THEN [fs EXCEPT ![temp[p]] = Ended(@, end)] ELSE fs
          /\ output' = IF at[p] = "output" THEN Ended(output, end) ELSE output
    BY <1>4 DEF Close
  <2>2. \A file \in File : Ended(file, end) \in File
    BY DEF File, Ended
  <2>3. fs' \in [Temps -> File] /\ output' \in File
    BY <1>1, <2>1, <2>2 DEF TypeOk
  <2>4. /\ at' \in [Processes -> {"nowhere", "temp", "output"}]
        /\ \A q \in Processes : at'[q] # "nowhere" => pc'[q] = "opened"
    BY <1>1, <1>4 DEF Close, TypeOk
  <2> QED
    BY <1>1, <1>2, <1>4, <2>3, <2>4 DEF Close, TypeOk
<1> QED
  BY <1>3, <1>4

\* After a failure, a commit or a kill p has no path any more, and whoever else
\* has a file open has it open still, wherever it is now.
LEMMA LeavingType ==
  ASSUME TypeOk, NEW p \in Processes, NEW to \in {"done", "failed", "crashed"},
         pc' = [pc EXCEPT ![p] = to], Forgets(p), UNCHANGED <<format, differed>>,
         output' \in File, fs' \in [Temps -> File], abandoned' \in 0 .. MaxAbandoned,
         at' \in [Processes -> {"nowhere", "temp", "output"}],
         \A q \in Processes : at'[q] # "nowhere" => q # p /\ at[q] # "nowhere"
  PROVE  TypeOk'
<1>1. /\ pc' \in [Processes -> Stages] /\ temp' \in [Processes -> Temps \cup {NoTemp}]
      /\ pc'[p] = to /\ temp'[p] = NoTemp
      /\ \A q \in Processes : q # p => pc'[q] = pc[q] /\ temp'[q] = temp[q]
  BY DEF TypeOk, Stages, Forgets
<1>2. ~Running(p)' /\ \A q \in Processes : q # p => (Running(q)' <=> Running(q))
  BY <1>1 DEF Running
<1>3. \A q \in Processes : temp'[q] # NoTemp <=> Running(q)'
  BY <1>1, <1>2 DEF TypeOk
<1>4. \A q \in Processes : at'[q] # "nowhere" => pc'[q] = "opened"
  BY <1>1 DEF TypeOk
<1> QED
  BY <1>1, <1>3, <1>4 DEF TypeOk

LEMMA TakingAway ==
  ASSUME TypeOk, NEW p \in Processes, NEW place \in {"nowhere", "output"},
         TakesAway(p, place), pc[p] # "opened", temp[p] \in Temps
  PROVE  /\ fs' \in [Temps -> File]
         /\ at' \in [Processes -> {"nowhere", "temp", "output"}]
         /\ \A q \in Processes : at'[q] # "nowhere" => q # p /\ at[q] # "nowhere"
<1>1. Absent \in File
  BY DEF Absent, File
<1>2. fs' \in [Temps -> File]
  BY <1>1 DEF TakesAway, TypeOk
<1>3. at' = [q \in Processes |-> IF Writes(q, temp[p]) THEN place
                                 ELSE IF place = "output" /\ at[q] = place THEN "nowhere"
                                 ELSE at[q]]
  BY DEF TakesAway
<1>4. at' \in [Processes -> {"nowhere", "temp", "output"}]
  BY <1>3 DEF TypeOk
<1>5. \A q \in Processes : at'[q] # "nowhere" => at[q] # "nowhere"
  BY <1>3 DEF Writes
<1> QED
  BY <1>2, <1>4, <1>5 DEF TypeOk

LEMMA StepKeepsType == TypeOk /\ [Next]_vars => TypeOk'
<1> SUFFICES ASSUME TypeOk, [Next]_vars PROVE TypeOk'
  OBVIOUS
<1>1. ASSUME NEW p \in Processes, CheckPaths(p) \/ Refuse(p) \/ NoNameLeft(p) \/ Restart(p)
      PROVE  TypeOk'
  BY <1>1, MovingType DEF CheckPaths, Refuse, NoNameLeft, Restart, Stages
<1>2. ASSUME NEW p \in Processes, MakeTemporaryPath(p) PROVE TypeOk'
  BY <1>2, NamingType
<1>3. ASSUME NEW p \in Processes, Open(p) \/ Close(p) PROVE TypeOk'
  BY <1>3, WritingType
<1>4. ASSUME NEW p \in Processes, Fail(p) PROVE TypeOk'
  <2>1. PICK stage \in {"named", "opened", "closed"} : Goes(p, stage, "unwinding")
    BY <1>4 DEF Fail
  <2> QED
    BY <1>4, <2>1, MovingType DEF Fail, Stages
<1>5. ASSUME NEW p \in Processes, Unwind(p) PROVE TypeOk'
  <2>1. /\ pc[p] = "unwinding" /\ pc' = [pc EXCEPT ![p] = "failed"] /\ Forgets(p)
        /\ UNCHANGED <<format, output, differed>> /\ temp[p] \in Temps
    BY <1>5 DEF Unwind, Goes, Running, TypeOk
  <2>2. CASE TakesAway(p, "nowhere") /\ UNCHANGED abandoned
    BY <2>1, <2>2, TakingAway, LeavingType DEF TypeOk
  <2>3. CASE /\ abandoned < MaxAbandoned /\ abandoned' = abandoned + 1
             /\ UNCHANGED <<fs, at>>
    <3>1. abandoned' \in 0 .. MaxAbandoned
      BY <2>3, FileAssumption DEF TypeOk
    <3>2. \A q \in Processes : at'[q] # "nowhere" => q # p /\ at[q] # "nowhere"
      BY <2>1, <2>3 DEF TypeOk
    <3> QED
      BY <2>1, <2>3, <3>1, <3>2, LeavingType DEF TypeOk
  <2> QED
    BY <1>5, <2>2, <2>3 DEF Unwind
<1>6. ASSUME NEW p \in Processes, Commit(p) PROVE TypeOk'
  <2>1. /\ pc[p] = "closed" /\ pc' = [pc EXCEPT ![p] = "done"] /\ Forgets(p)
        /\ UNCHANGED <<format, abandoned, differed>> /\ temp[p] \in Temps
        /\ output' = fs[temp[p]] /\ TakesAway(p, "output")
    BY <1>6 DEF Commit, Goes, Running, TypeOk
  <2> QED
    BY <2>1, TakingAway, LeavingType DEF TypeOk
<1>7. ASSUME NEW p \in Processes, Crash(p) PROVE TypeOk'
  <2>1. abandoned' \in 0 .. MaxAbandoned
    BY <1>7, FileAssumption DEF Crash, TypeOk
  <2>2. /\ at' \in [Processes -> {"nowhere", "temp", "output"}]
        /\ \A q \in Processes : at'[q] # "nowhere" => q # p /\ at[q] # "nowhere"
    BY <1>7 DEF Crash, TypeOk
  <2> QED
    BY <1>7, <2>1, <2>2, LeavingType DEF Crash, TypeOk
<1>8. CASE UNCHANGED vars
  BY <1>8 DEF vars, TypeOk, Running
<1> QED
  BY <1>1, <1>2, <1>3, <1>4, <1>5, <1>6, <1>7, <1>8 DEF Next, Step

-----------------------------------------------------------------------------
(* What is in the files, while the clocks differ.                          *)

\* A step of p that touches no file but its own, takes nobody else's path and
\* leaves its own file, and the output, as they should be.
LEMMA OthersKeep ==
  ASSUME TypeOk, Clean, NEW p \in Processes, differed' => differed, format' = format,
         \A q \in Processes : q # p => pc'[q] = pc[q] /\ temp'[q] = temp[q],
         differed => \A q \in Processes : q # p => at'[q] = at[q],
         differed => \A path \in Temps : path # temp[p] => fs'[path] = fs[path],
         differed' /\ Running(p)'
           => \A q \in Processes : q # p /\ Running(q) => temp[q] # temp'[p],
         differed' => OwnFile(p)', OutputWhole'
  PROVE  Clean'
<1>1. \A q \in Processes : q # p => (Running(q)' <=> Running(q))
  BY DEF Running
<1>2. ASSUME differed' PROVE TempsDistinct'
  BY <1>1, <1>2 DEF Clean, TempsDistinct
<1>3. ASSUME differed', NEW q \in Processes, q # p PROVE OwnFile(q)'
  <2>1. differed /\ OwnFile(q)
    BY <1>3 DEF Clean, OwnFileOnly
  <2>2. CASE pc[q] \in {"opened", "closed"}
    <3>1. Running(q) /\ temp[q] \in Temps /\ temp[q] # NoTemp
      BY <2>2 DEF Running, TypeOk
    <3>2. temp[q] # temp[p]
      BY <1>3, <2>1, <3>1 DEF Clean, TempsDistinct, TypeOk
    <3>3. fs'[temp'[q]] = fs[temp[q]] /\ at'[q] = at[q] /\ pc'[q] = pc[q] /\ temp'[q] = temp[q]
      BY <1>3, <2>1, <3>1, <3>2
    <3> QED
      BY <2>1, <3>3 DEF OwnFile, Complete
  <2>3. CASE pc[q] \notin {"opened", "closed"}
    BY <1>3, <2>3 DEF OwnFile
  <2> QED
    BY <2>2, <2>3
<1> QED
  BY <1>2, <1>3 DEF Clean, OwnFileOnly

\* A step of p that writes nothing and keeps its path, up to a stage at which
\* it has nothing open.
LEMMA MovingKeeps ==
  ASSUME TypeOk, Clean, NEW p \in Processes, NEW from, NEW to \in Stages, Goes(p, from, to),
         UNCHANGED <<format, output, fs, temp, abandoned, differed>>,
         \A q \in Processes : q # p => at'[q] = at[q],
         Running(p)' => Running(p), to \notin {"opened", "closed"}
  PROVE  Clean'
<1>1. OwnFile(p)'
  BY Going DEF OwnFile
<1>2. Running(p)' /\ differed => \A q \in Processes : q # p /\ Running(q) => temp[q] # temp'[p]
  BY DEF Clean, TempsDistinct
<1>3. OutputWhole'
  BY DEF Clean, OutputWhole, Complete
<1> QED
  BY <1>1, <1>2, <1>3, Going, OthersKeep

\* The name is of no running process: if its file is there, the name is not
\* free; if it is not, the clock value was Pending.
LEMMA NamingKeeps ==
  ASSUME TypeOk, Clean, NEW p \in Processes, MakeTemporaryPath(p)
  PROVE  Clean'
<1>1. PICK path \in Temps : /\ FirstFree(path) /\ temp' = [temp EXCEPT ![p] = path]
                            /\ differed' = (differed /\ path[1] \notin Pending)
  BY DEF MakeTemporaryPath
<1>2. Goes(p, "checked", "named") /\ UNCHANGED <<format, output, fs, at, abandoned>>
  BY DEF MakeTemporaryPath
<1>3. ASSUME differed', NEW q \in Processes, Running(q) PROVE temp[q] # path
  <2>1. SUFFICES ASSUME temp[q] = path PROVE FALSE
    OBVIOUS
  <2>2. ~Exists(temp[q])
    BY <1>1, <2>1 DEF FirstFree
  <2> QED
    BY <1>1, <1>3, <2>1, <2>2 DEF Pending
<1>4. temp'[p] = path /\ \A q \in Processes : q # p => temp'[q] = temp[q]
  BY <1>1 DEF TypeOk
<1>5. OwnFile(p)'
  BY <1>2, Going DEF OwnFile, Stages
<1>6. OutputWhole' /\ (differed' => differed)
  BY <1>1, <1>2 DEF Clean, OutputWhole, Complete
<1> QED
  BY <1>2, <1>3, <1>4, <1>5, <1>6, Going, OthersKeep DEF Stages

LEMMA OpeningKeeps ==
  ASSUME TypeOk, Clean, NEW p \in Processes, Open(p)
  PROVE  Clean'
<1>1. /\ pc[p] = "named" /\ pc'[p] = "opened" /\ Running(p) /\ temp[p] \in Temps
      /\ \A q \in Processes : q # p => pc'[q] = pc[q]
  BY Going DEF Open, Stages, Running, TypeOk
<1>2. /\ UNCHANGED <<format, output, temp, abandoned, differed>>
      /\ at' = [at EXCEPT ![p] = "temp"]
  BY DEF Open
<1>3. \A path \in Temps : path # temp[p] => fs'[path] = fs[path]
  BY DEF Open, TypeOk
<1>4. ASSUME differed PROVE OwnFile(p)'
  <2>1. ASSUME NEW q \in Processes, Writes(q, temp[p]) PROVE FALSE
    <3>1. pc[q] = "opened" /\ Running(q) /\ q # p /\ temp[q] = temp[p]
      BY <1>1, <2>1 DEF Writes, TypeOk, Running
    <3> QED
      BY <1>1, <1>4, <3>1 DEF Clean, TempsDistinct
  <2>2. fs' = [fs EXCEPT ![temp[p]] = [by |-> p, end |-> "part"]]
    BY <2>1 DEF Open
  <2>3. fs'[temp'[p]] = [by |-> p, end |-> "part"] /\ at'[p] = "temp"
    BY <1>1, <1>2, <2>2 DEF TypeOk
  <2> QED
    BY <1>1, <2>3 DEF OwnFile
<1>5. differed => \A q \in Processes : q # p /\ Running(q) => temp[q] # temp'[p]
  BY <1>1, <1>2 DEF Clean, TempsDistinct
<1>6. OutputWhole' /\ \A q \in Processes : q # p => at'[q] = at[q]
  BY <1>2 DEF Clean, OutputWhole, Complete, TypeOk
<1> QED
  BY <1>1, <1>2, <1>3, <1>4, <1>5, <1>6, OthersKeep

LEMMA ClosingKeeps ==
  ASSUME TypeOk, Clean, NEW p \in Processes, Close(p)
  PROVE  Clean'
<1>1. /\ pc[p] = "opened" /\ pc'[p] = "closed" /\ Running(p) /\ temp[p] \in Temps
      /\ \A q \in Processes : q # p => pc'[q] = pc[q]
  BY Going DEF Close, Stages, Running, TypeOk
<1>2. /\ UNCHANGED <<format, temp, abandoned, differed>>
      /\ at' = [at EXCEPT ![p] = "nowhere"]
  BY DEF Close
<1>3. PICK end \in {"whole"} \cup (IF format = "dbn" THEN {"short"} ELSE {}) :
        /\ fs' = IF at[p] = "temp" THEN [fs EXCEPT ![temp[p]] = Ended(@, end)] ELSE fs
        /\ output' = IF at[p] = "output" THEN Ended(output, end) ELSE output
  BY DEF Close
<1>4. \A path \in Temps : path # temp[p] => fs'[path] = fs[path]
  BY <1>3 DEF TypeOk
<1>5. differed => at[p] = "temp" /\ fs[temp[p]] = [by |-> p, end |-> "part"]
  BY <1>1 DEF Clean, OwnFileOnly, OwnFile
<1>6. ASSUME differed PROVE OwnFile(p)'
  <2>1. Ended(fs[temp[p]], end) = [by |-> p, end |-> end]
    BY <1>5, <1>6 DEF Ended
  <2>2. fs'[temp'[p]] = [by |-> p, end |-> end]
    BY <1>1, <1>2, <1>3, <1>5, <1>6, <2>1 DEF TypeOk
  <2>3. end = "whole" \/ (format' = "dbn" /\ end = "short")
    BY <1>2
  <2> QED
    BY <1>1, <2>2, <2>3 DEF OwnFile, Complete
<1>7. differed => \A q \in Processes : q # p /\ Running(q) => temp[q] # temp'[p]
  BY <1>1, <1>2 DEF Clean, TempsDistinct
<1>8. OutputWhole' /\ \A q \in Processes : q # p => at'[q] = at[q]
  BY <1>2, <1>3, <1>5 DEF Clean, OutputWhole, Complete, TypeOk
<1> QED
  BY <1>1, <1>2, <1>4, <1>6, <1>7, <1>8, OthersKeep

\* After a failure, a commit or a kill.
LEMMA LeavingKeeps ==
  ASSUME TypeOk, Clean, NEW p \in Processes, NEW to \in {"done", "failed", "crashed"},
         pc' = [pc EXCEPT ![p] = to], Forgets(p), UNCHANGED <<format, differed>>,
         \/ \E place \in {"nowhere", "output"} : TakesAway(p, place)
         \/ UNCHANGED fs /\ \A q \in Processes : q # p => at'[q] = at[q],
         pc[p] # "opened" \/ UNCHANGED fs, OutputWhole'
  PROVE  Clean'
<1>1. pc'[p] = to /\ \A q \in Processes : q # p => pc'[q] = pc[q] /\ temp'[q] = temp[q]
  BY DEF TypeOk, Forgets
<1>2. ~Running(p)' /\ OwnFile(p)'
  BY <1>1 DEF Running, OwnFile
<1>3. \A path \in Temps : path # temp[p] => fs'[path] = fs[path]
  BY DEF TakesAway, TypeOk
<1>4. ASSUME differed, NEW q \in Processes, q # p PROVE at'[q] = at[q]
  <2>1. at[q] # "output"
    BY <1>4 DEF Clean, OwnFileOnly, OwnFile, TypeOk
  <2>2. ASSUME Writes(q, temp[p]) PROVE FALSE
    <3>1. Running(q) /\ temp[q] = temp[p] /\ temp[q] # NoTemp
      BY <2>2 DEF Writes, TypeOk, Running
    <3> QED
      BY <1>4, <3>1 DEF Clean, TempsDistinct, TypeOk
  <2> QED
    BY <1>4, <2>1, <2>2 DEF TakesAway
<1> QED
  BY <1>1, <1>2, <1>3, <1>4, OthersKeep

LEMMA StepKeepsClean == TypeOk /\ Clean /\ [Next]_vars => Clean'
<1> SUFFICES ASSUME TypeOk, Clean, [Next]_vars PROVE Clean'
  OBVIOUS
<1>1. ASSUME NEW p \in Processes, CheckPaths(p) \/ Refuse(p) \/ NoNameLeft(p) \/ Restart(p)
      PROVE  Clean'
  BY <1>1, MovingKeeps, Going DEF CheckPaths, Refuse, NoNameLeft, Restart, Stages, Running
<1>2. ASSUME NEW p \in Processes, MakeTemporaryPath(p) PROVE Clean'
  BY <1>2, NamingKeeps
<1>3. ASSUME NEW p \in Processes, Open(p) PROVE Clean'
  BY <1>3, OpeningKeeps
<1>4. ASSUME NEW p \in Processes, Close(p) PROVE Clean'
  BY <1>4, ClosingKeeps
<1>5. ASSUME NEW p \in Processes, Fail(p) PROVE Clean'
  <2>1. PICK stage \in {"named", "opened", "closed"} : Goes(p, stage, "unwinding")
    BY <1>5 DEF Fail
  <2>2. Running(p) /\ \A q \in Processes : q # p => at'[q] = at[q]
    BY <1>5, <2>1 DEF Fail, Goes, Running, TypeOk
  <2> QED
    BY <1>5, <2>1, <2>2, MovingKeeps DEF Fail, Stages
<1>6. ASSUME NEW p \in Processes, Unwind(p) PROVE Clean'
  <2>1. /\ pc[p] = "unwinding" /\ pc' = [pc EXCEPT ![p] = "failed"] /\ Forgets(p)
        /\ UNCHANGED <<format, output, differed>>
        /\ TakesAway(p, "nowhere") \/ UNCHANGED <<fs, at>>
    BY <1>6 DEF Unwind, Goes
  <2>2. OutputWhole'
    BY <2>1 DEF Clean, OutputWhole, Complete
  <2> QED
    BY <2>1, <2>2, LeavingKeeps
<1>7. ASSUME NEW p \in Processes, Commit(p) PROVE Clean'
  <2>1. /\ pc[p] = "closed" /\ pc' = [pc EXCEPT ![p] = "done"] /\ Forgets(p)
        /\ UNCHANGED <<format, differed>> /\ output' = fs[temp[p]] /\ TakesAway(p, "output")
    BY <1>7 DEF Commit, Goes
  <2>2. OutputWhole'
    BY <2>1 DEF Clean, OwnFileOnly, OwnFile, OutputWhole, Complete
  <2> QED
    BY <2>1, <2>2, LeavingKeeps
<1>8. ASSUME NEW p \in Processes, Crash(p) PROVE Clean'
  <2>1. /\ pc' = [pc EXCEPT ![p] = "crashed"] /\ Forgets(p)
        /\ UNCHANGED <<format, output, fs, differed>>
        /\ \A q \in Processes : q # p => at'[q] = at[q]
    BY <1>8 DEF Crash, TypeOk
  <2>2. OutputWhole'
    BY <2>1 DEF Clean, OutputWhole, Complete
  <2> QED
    BY <2>1, <2>2, LeavingKeeps
<1>9. CASE UNCHANGED vars
  BY <1>9 DEF vars, Clean, TempsDistinct, OwnFileOnly, OwnFile, OutputWhole, Complete, Running
<1> QED
  BY <1>1, <1>2, <1>3, <1>4, <1>5, <1>6, <1>7, <1>8, <1>9 DEF Next, Step

\* Paths, files and stages have their types, a process has a temporary path
\* exactly from MakeTemporaryPath to the end of ConvertFile, and while the clocks
\* differ no two processes write one file.
THEOREM Invariance == Spec => []FInv
<1>1. FInv /\ [Next]_vars => FInv'
  BY StepKeepsType, StepKeepsClean DEF FInv
<1> QED
  BY InitHasInv, <1>1, PTL DEF Spec

\* The output path holds nothing, what was there before, or a conversion that
\* was written to its end, at every moment and after any failure or kill, as
\* long as nobody has read the clock value of a conversion whose file is not
\* there yet.
THEOREM OutputIsWhole == Spec => []OutputWhole
BY Invariance, PTL DEF FInv, Clean

\* Under the same condition no process writes into another's temporary file or
\* publishes it, although nothing reserves a name between MakeTemporaryPath and
\* the opening of the file, and one clock value may serve several.
THEOREM FilesAreOwn == Spec => []OwnFileOnly
BY Invariance, PTL DEF FInv, Clean

\* Paths, files and stages have their types; a process has a temporary path
\* exactly from MakeTemporaryPath to the end of ConvertFile, whatever the clocks.
THEOREM TypeCorrect == Spec => []TypeOk
BY Invariance, PTL DEF FInv

-----------------------------------------------------------------------------
(* What is left behind, whatever the clocks.  Only a kill or a removal that *)
(* fails can add a file to it: every other step that takes a path from a    *)
(* process removes or renames the file.                                     *)

Leftovers == {path \in Temps : /\ Exists(path)
                               /\ \A p \in Processes : Running(p) => temp[p] # path}

LInv == IsFiniteSet(Leftovers) /\ Cardinality(Leftovers) <= abandoned

LEMMA FewerLeft ==
  ASSUME LInv, abandoned \in Nat, Leftovers' \subseteq Leftovers, abandoned' = abandoned
  PROVE  LInv'
<1>1. IsFiniteSet(Leftovers') /\ Cardinality(Leftovers') <= Cardinality(Leftovers)
  BY FS_Subset DEF LInv
<1>2. Cardinality(Leftovers) \in Nat /\ Cardinality(Leftovers') \in Nat
  BY <1>1, FS_CardinalityType DEF LInv
<1> QED
  BY <1>1, <1>2 DEF LInv

LEMMA OneMoreLeft ==
  ASSUME LInv, abandoned \in Nat, NEW path, Leftovers' \subseteq Leftovers \cup {path},
         abandoned' = abandoned + 1
  PROVE  LInv'
<1>1. /\ IsFiniteSet(Leftovers \cup {path})
      /\ Cardinality(Leftovers \cup {path}) <= Cardinality(Leftovers) + 1
  <2>1. IsFiniteSet(Leftovers) /\ Cardinality(Leftovers) \in Nat
    BY FS_CardinalityType DEF LInv
  <2>2. /\ IsFiniteSet(Leftovers \cup {path})
        /\ \/ Cardinality(Leftovers \cup {path}) = Cardinality(Leftovers)
           \/ Cardinality(Leftovers \cup {path}) = Cardinality(Leftovers) + 1
    BY <2>1, FS_AddElement
  <2> QED
    BY <2>1, <2>2
<1>2. /\ IsFiniteSet(Leftovers')
      /\ Cardinality(Leftovers') <= Cardinality(Leftovers \cup {path})
  BY <1>1, FS_Subset
<1>3. /\ Cardinality(Leftovers) \in Nat /\ Cardinality(Leftovers') \in Nat
      /\ Cardinality(Leftovers \cup {path}) \in Nat
  BY <1>1, <1>2, FS_CardinalityType DEF LInv
<1> QED
  BY <1>1, <1>2, <1>3 DEF LInv

\* A step of p that leaves it running with its path, or not running without.
LEMMA NobodyLeaves ==
  ASSUME TypeOk, NEW p \in Processes, Running(p)' <=> Running(p), UNCHANGED temp,
         \A q \in Processes : q # p => (Running(q)' <=> Running(q)),
         \A path \in Temps : path # temp[p] => fs'[path] = fs[path],
         ~Running(p) => fs' = fs
  PROVE  Leftovers' \subseteq Leftovers
<1>1. \A q \in Processes : Running(q)' <=> Running(q)
  OBVIOUS
<1>2. ASSUME NEW path \in Temps, Exists(path)',
             \A q \in Processes : Running(q)' => temp'[q] # path
      PROVE  path \in Leftovers
  <2>1. \A q \in Processes : Running(q) => temp[q] # path
    BY <1>1, <1>2
  <2>2. fs'[path] = fs[path]
    BY <2>1
  <2> QED
    BY <1>2, <2>1, <2>2 DEF Leftovers, Exists
<1> QED
  BY <1>2 DEF Leftovers

\* A step that takes from p its path and the file at it.
LEMMA LeavesNothing ==
  ASSUME TypeOk, NEW p \in Processes, Running(p), ~Running(p)',
         \A q \in Processes : q # p => (Running(q)' <=> Running(q)) /\ temp'[q] = temp[q],
         fs' = [fs EXCEPT ![temp[p]] = Absent]
  PROVE  Leftovers' \subseteq Leftovers
<1>1. temp[p] \in Temps /\ fs \in [Temps -> File]
  BY DEF TypeOk
<1>2. ASSUME NEW path \in Temps, Exists(path)',
             \A q \in Processes : Running(q)' => temp'[q] # path
      PROVE  path \in Leftovers
  <2>1. path # temp[p] /\ fs'[path] = fs[path]
    BY <1>1, <1>2 DEF Exists
  <2>2. \A q \in Processes : Running(q) => temp[q] # path
    BY <1>2, <2>1
  <2> QED
    BY <1>2, <2>1, <2>2 DEF Leftovers, Exists
<1> QED
  BY <1>2 DEF Leftovers

\* A kill, and a removal that fails.
LEMMA LeavesOne ==
  ASSUME TypeOk, LInv, NEW p \in Processes, abandoned' = abandoned + 1, UNCHANGED fs,
         \A q \in Processes : q # p => (Running(q)' <=> Running(q)) /\ temp'[q] = temp[q]
  PROVE  LInv'
<1>1. Leftovers' \subseteq Leftovers \cup {temp[p]}
  BY DEF Leftovers, Exists
<1>2. abandoned \in Nat
  BY FileAssumption DEF TypeOk
<1> QED
  BY <1>1, <1>2, OneMoreLeft

LEMMA StepKeepsLeftovers ==
  ASSUME TypeOk, LInv, [Next]_vars
  PROVE  LInv'
<1> USE DEF Goes, Forgets
<1>1. /\ abandoned \in Nat /\ pc \in [Processes -> Stages]
      /\ temp \in [Processes -> Temps \cup {NoTemp}]
  BY FileAssumption DEF TypeOk
<1>2. ASSUME NEW p \in Processes, CheckPaths(p) \/ Refuse(p) \/ NoNameLeft(p) \/ Fail(p) \/ Restart(p)
      PROVE  LInv'
  <2>1. /\ UNCHANGED <<fs, temp, abandoned>>
        /\ \A q \in Processes : Running(q)' <=> Running(q)
    BY <1>1, <1>2 DEF CheckPaths, Refuse, NoNameLeft, Fail, Restart, Running
  <2>2. Leftovers' \subseteq Leftovers
    BY <2>1, NobodyLeaves
  <2> QED
    BY <1>1, <2>1, <2>2, FewerLeft
<1>3. ASSUME NEW p \in Processes, MakeTemporaryPath(p) PROVE LInv'
  <2>1. /\ UNCHANGED <<fs, abandoned>> /\ ~Running(p)
        /\ \A q \in Processes : q # p => temp'[q] = temp[q] /\ (Running(q)' <=> Running(q))
    BY <1>1, <1>3 DEF MakeTemporaryPath, Running
  <2>2. Leftovers' \subseteq Leftovers
    BY <2>1 DEF Leftovers, Exists
  <2> QED
    BY <1>1, <2>1, <2>2, FewerLeft
<1>4. ASSUME NEW p \in Processes, Open(p) \/ Close(p) PROVE LInv'
  <2>1. /\ UNCHANGED <<temp, abandoned>> /\ Running(p) /\ Running(p)'
        /\ \A q \in Processes : q # p => (Running(q)' <=> Running(q))
    BY <1>1, <1>4 DEF Open, Close, Running
  <2>2. \A path \in Temps : path # temp[p] => fs'[path] = fs[path]
    BY <1>4 DEF Open, Close, TypeOk
  <2>3. Leftovers' \subseteq Leftovers
    BY <2>1, <2>2, NobodyLeaves
  <2> QED
    BY <1>1, <2>1, <2>3, FewerLeft
<1>5. ASSUME NEW p \in Processes, Unwind(p) \/ Commit(p) PROVE LInv'
  <2>1. /\ Running(p) /\ ~Running(p)'
        /\ \A q \in Processes : q # p => (Running(q)' <=> Running(q)) /\ temp'[q] = temp[q]
    BY <1>1, <1>5 DEF Unwind, Commit, Running
  <2>2. CASE fs' = [fs EXCEPT ![temp[p]] = Absent] /\ UNCHANGED abandoned
    BY <1>1, <2>1, <2>2, LeavesNothing, FewerLeft
  <2>3. CASE UNCHANGED fs /\ abandoned' = abandoned + 1
    BY <2>1, <2>3, LeavesOne
  <2> QED
    BY <1>5, <2>2, <2>3 DEF Unwind, Commit, TakesAway
<1>6. ASSUME NEW p \in Processes, Crash(p) PROVE LInv'
  <2>1. /\ abandoned' = abandoned + 1 /\ UNCHANGED fs
        /\ \A q \in Processes : q # p => (Running(q)' <=> Running(q)) /\ temp'[q] = temp[q]
    BY <1>1, <1>6 DEF Crash, Running
  <2> QED
    BY <2>1, LeavesOne
<1>7. CASE UNCHANGED vars
  BY <1>7 DEF vars, LInv, Leftovers, Exists, Running
<1> QED
  BY <1>2, <1>3, <1>4, <1>5, <1>6, <1>7 DEF Next, Step

\* Only a kill, or a removal that fails unnoticed in ~TemporaryOutput, leaves a
\* temporary file behind, and each at most one; a failure at any other step and
\* another process leave none, even one that has taken the same name.
THEOREM FewAreLeft == Spec => []NoLeftovers
<1>1. Init => LInv
  <2> SUFFICES ASSUME Init PROVE LInv
    OBVIOUS
  <2>1. Leftovers = {} /\ abandoned = 0
    BY DEF Init, Leftovers, Exists
  <2> QED
    BY <2>1, FS_EmptySet DEF LInv
<1>2. TypeOk /\ LInv /\ [Next]_vars => LInv'
  BY StepKeepsLeftovers
<1>3. LInv => NoLeftovers
  BY DEF LInv, Leftovers, NoLeftovers
<1> QED
  BY <1>1, <1>2, <1>3, TypeCorrect, PTL DEF Spec
=============================================================================

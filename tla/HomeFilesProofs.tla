--------------------------- MODULE HomeFilesProofs ---------------------------
(***************************************************************************)
(* What the captures of a home find in the two files they share, for any   *)
(* number of captures, roots, SIDs, processes and updates.  Each protocol  *)
(* has an invariant of its own, kept by its steps and untouched by the     *)
(* other's.                                                                *)
(***************************************************************************)
EXTENDS HomeFiles, FiniteSetTheorems, TLAPS

(* An update makes the next build, with a length and a time up to now. *)
LEMMA UpdateStep ==
    ASSUME CopyTypeOK, CopyFacts, Update
    PROVE  /\ source' \in File /\ source'.whole
           /\ updates' = updates + 1 /\ updates' \in 0..MaxUpdates /\ source'.build = updates'
           /\ source'.len \in 0..updates' /\ source'.time \in 0..updates'
           /\ source.build = updates
<1>1. /\ updates < MaxUpdates /\ updates' = updates + 1
      /\ updates \in Nat /\ MaxUpdates \in Nat
    BY CopyAssumption DEF CopyTypeOK, Update
<1>2. source.build = updates /\ source.whole = TRUE
    BY <1>1 DEF CopyTypeOK, CopyFacts, SourceFacts, File
<1>3. PICK len \in 0..updates', time \in 0..updates' : source' = NextBuild(len, time)
    BY <1>1 DEF Update
<1>4. source' = [build |-> updates + 1, len |-> len, time |-> time, whole |-> TRUE]
    BY <1>2, <1>3 DEF NextBuild
<1> QED BY <1>1, <1>2, <1>3, <1>4 DEF File

(* What a process works on are files, and it has one to write to while it  *)
(* copies.                                                                 *)
Made(p) ==
    /\ PartOf(source) \in File
    /\ opened[p] # None => CopyOf(opened[p]) \in File
    /\ stage[p] \in Copying <=> temp[p] \in File
    /\ stage[p] = "write" => opened[p] # None
    /\ None \notin File

(* A temporary file is made from the open source, and renamed to the copy.  *)
LEMMA FilesMade ==
    ASSUME CopyTypeOK, CopyFacts, NEW p \in Processes
    PROVE  Made(p)
<1> USE CopyAssumption DEF CopyTypeOK, File, Copying, CopyOf, PartOf
<1>1. PartOf(source) \in File
    OBVIOUS
<1>2. ASSUME opened[p] # None PROVE CopyOf(opened[p]) \in File
    <2>1. opened[p] \in File
        BY <1>2
    <2> QED BY <2>1
<1>3. stage[p] = "write" => opened[p] # None
    BY DEF CopyFacts, InMaking
<1> QED BY <1>1, <1>2, <1>3 DEF Made

(* What io::copy makes of an open source is as whole and as current as it.  *)
LEMMA CopyMade ==
    ASSUME CopyTypeOK, CopyFacts, NEW p \in Processes, stage[p] = "write"
    PROVE  LET made == CopyOf(opened[p]) IN Dated(made) /\ InMaking(made)
<1>1. /\ opened[p] \in File /\ InMaking(opened[p]) /\ Dated(opened[p])
      /\ CopyOf(opened[p]) \in File /\ None \notin File /\ updates \in Nat
    BY FilesMade DEF Made, CopyTypeOK, CopyFacts, InMaking
<1>2. /\ CopyOf(opened[p]).build = opened[p].build /\ CopyOf(opened[p]).len = opened[p].len
      /\ CopyOf(opened[p]).time = updates /\ CopyOf(opened[p]).whole = opened[p].whole
    BY DEF CopyOf
<1> QED BY <1>1, <1>2 DEF Dated, InMaking

(* A process goes from step to step. *)
LEMMA CopySteps ==
    ASSUME CopyTypeOK, CopyFacts, CopyNext, UNCHANGED setting
    PROVE  stage' \in [Processes -> Steps]
           /\ cached' \in [Processes -> BOOLEAN]
           /\ target' \in [Processes -> {"copy", "source"}]
<1> USE CopyAssumption
<1> USE DEF CopyTypeOK, Steps, Copying
<1>1. ASSUME NEW p \in Processes, Resolve(p) \/ Work(p) \/ Die(p)
      PROVE stage' \in [Processes -> Steps]
           /\ cached' \in [Processes -> BOOLEAN]
           /\ target' \in [Processes -> {"copy", "source"}]
    <2>1. CASE Resolve(p) BY <2>1, ZenonT(60) DEF Resolve, UseCopy, GoTo
    <2>2. CASE Check(p) BY <2>2, ZenonT(60) DEF Check, UseCopy, GoTo, FallBack
    <2>3. CASE Open(p) BY <2>3 DEF Open, GoTo, FallBack
    <2>4. CASE WriteTemp(p) BY <2>4 DEF WriteTemp, GoTo, FallBack
    <2>5. CASE Exists(p) BY <2>5 DEF Exists, GoTo
    <2>6. CASE Remove(p) BY <2>6 DEF Remove, GoTo, FallBack
    <2>7. CASE Rename(p)
        <3>1. CASE UseCopy(p) BY <3>1 DEF UseCopy
        <3>2. CASE GoTo(p, "recheck") BY <3>2 DEF GoTo
        <3> QED BY <2>7, <3>1, <3>2 DEF Rename
    <2>8. CASE Recheck(p) BY <2>8 DEF Recheck, UseCopy, FallBack
    <2>9. CASE Launch(p) BY <2>9 DEF Launch, GoTo
    <2>10. CASE Finish(p) BY <2>10 DEF Finish, GoTo
    <2>11. CASE Die(p) BY <2>11 DEF Die
    <2> QED BY <1>1, <2>1, <2>2, <2>3, <2>4, <2>5, <2>6, <2>7, <2>8, <2>9, <2>10, <2>11 DEF Work
<1>2. CASE Update BY <1>2 DEF Update
<1> QED BY <1>1, <1>2 DEF CopyNext

(* The destination and the open sources are files or none. *)
LEMMA CopyFiles ==
    ASSUME CopyTypeOK, CopyFacts, CopyNext, UNCHANGED setting
    PROVE  copy' \in File \cup {None} /\ opened' \in [Processes -> File \cup {None}]
<1> USE CopyAssumption
<1> USE DEF CopyTypeOK, Steps, Copying
<1>1. ASSUME NEW p \in Processes, Resolve(p) \/ Work(p) \/ Die(p)
      PROVE copy' \in File \cup {None} /\ opened' \in [Processes -> File \cup {None}]
    <2>1. CASE Resolve(p) BY <2>1 DEF Resolve, UseCopy, GoTo
    <2>2. CASE Check(p) BY <2>2 DEF Check, UseCopy, GoTo, FallBack
    <2>3. CASE Open(p) BY <2>3 DEF Open, GoTo, FallBack
    <2>4. CASE WriteTemp(p) BY <2>4 DEF WriteTemp, GoTo, FallBack
    <2>5. CASE Exists(p) BY <2>5 DEF Exists, GoTo
    <2>6. CASE Remove(p) BY <2>6 DEF Remove, GoTo, FallBack
    <2>7. CASE Rename(p) BY <2>7 DEF Rename, UseCopy, GoTo
    <2>8. CASE Recheck(p) BY <2>8 DEF Recheck, UseCopy, FallBack
    <2>9. CASE Launch(p) BY <2>9 DEF Launch, GoTo
    <2>10. CASE Finish(p) BY <2>10 DEF Finish, GoTo
    <2>11. CASE Die(p) BY <2>11 DEF Die
    <2> QED BY <1>1, <2>1, <2>2, <2>3, <2>4, <2>5, <2>6, <2>7, <2>8, <2>9, <2>10, <2>11 DEF Work
<1>2. CASE Update BY <1>2 DEF Update
<1> QED BY <1>1, <1>2 DEF CopyNext

(* So are the files in the making, and those that run. *)
LEMMA CopyTemps ==
    ASSUME CopyTypeOK, CopyFacts, CopyNext, UNCHANGED setting
    PROVE  temp' \in [Processes -> File \cup {None}] /\ image' \in [Processes -> File \cup {None}]
<1>0. \A p \in Processes : Made(p)
    BY FilesMade
<1> USE CopyAssumption
<1> USE DEF CopyTypeOK, Steps, Copying
<1>1. ASSUME NEW p \in Processes, Resolve(p) \/ Work(p) \/ Die(p)
      PROVE temp' \in [Processes -> File \cup {None}] /\ image' \in [Processes -> File \cup {None}]
    <2>1. CASE Resolve(p) BY <2>1 DEF Resolve, UseCopy, GoTo
    <2>2. CASE Check(p) BY <2>2 DEF Check, UseCopy, GoTo, FallBack
    <2>3. CASE Open(p) BY <2>3, <1>0 DEF Made, Open, GoTo, FallBack
    <2>4. CASE WriteTemp(p) BY <2>4, <1>0 DEF Made, WriteTemp, GoTo, FallBack
    <2>5. CASE Exists(p) BY <2>5 DEF Exists, GoTo
    <2>6. CASE Remove(p) BY <2>6 DEF Remove, GoTo, FallBack
    <2>7. CASE Rename(p) BY <2>7 DEF Rename, UseCopy, GoTo
    <2>8. CASE Recheck(p) BY <2>8 DEF Recheck, UseCopy, FallBack
    <2>9. CASE Launch(p) BY <2>9 DEF Launch, GoTo
    <2>10. CASE Finish(p) BY <2>10 DEF Finish, GoTo
    <2>11. CASE Die(p) BY <2>11 DEF Die
    <2> QED BY <1>1, <2>1, <2>2, <2>3, <2>4, <2>5, <2>6, <2>7, <2>8, <2>9, <2>10, <2>11 DEF Work
<1>2. CASE Update BY <1>2 DEF Update
<1> QED BY <1>1, <1>2 DEF CopyNext

(* The source is a file, within the bounds. *)
LEMMA CopyCounts ==
    ASSUME CopyTypeOK, CopyFacts, CopyNext, UNCHANGED setting
    PROVE  source' \in File /\ updates' \in 0..MaxUpdates /\ deaths' \in 0..MaxDeaths
<1> USE CopyAssumption
<1> USE DEF CopyTypeOK, Steps, Copying
<1>1. ASSUME NEW p \in Processes, Resolve(p) \/ Work(p) \/ Die(p)
      PROVE source' \in File /\ updates' \in 0..MaxUpdates /\ deaths' \in 0..MaxDeaths
    <2>1. CASE Resolve(p) BY <2>1 DEF Resolve, UseCopy, GoTo
    <2>2. CASE Check(p) BY <2>2 DEF Check, UseCopy, GoTo, FallBack
    <2>3. CASE Open(p) BY <2>3 DEF Open, GoTo, FallBack
    <2>4. CASE WriteTemp(p) BY <2>4 DEF WriteTemp, GoTo, FallBack
    <2>5. CASE Exists(p) BY <2>5 DEF Exists, GoTo
    <2>6. CASE Remove(p) BY <2>6 DEF Remove, GoTo, FallBack
    <2>7. CASE Rename(p) BY <2>7 DEF Rename, UseCopy, GoTo
    <2>8. CASE Recheck(p) BY <2>8 DEF Recheck, UseCopy, FallBack
    <2>9. CASE Launch(p) BY <2>9 DEF Launch, GoTo
    <2>10. CASE Finish(p) BY <2>10 DEF Finish, GoTo
    <2>11. CASE Die(p) BY <2>11 DEF Die
    <2> QED BY <1>1, <2>1, <2>2, <2>3, <2>4, <2>5, <2>6, <2>7, <2>8, <2>9, <2>10, <2>11 DEF Work
<1>2. CASE Update BY <1>2, UpdateStep DEF Update
<1> QED BY <1>1, <1>2 DEF CopyNext

(* A process that copies has a temporary file. *)
LEMMA CopyingHolds ==
    ASSUME CopyTypeOK, CopyFacts, CopyNext, UNCHANGED setting
    PROVE  \A q \in Processes : stage'[q] \in Copying <=> temp'[q] # None
<1>0. \A p \in Processes : Made(p)
    BY FilesMade
<1> USE CopyAssumption
<1> USE DEF CopyTypeOK, Steps, Copying
<1>1. ASSUME NEW p \in Processes, Resolve(p) \/ Work(p) \/ Die(p)
      PROVE \A q \in Processes : stage'[q] \in Copying <=> temp'[q] # None
    <2>1. CASE Resolve(p) BY <2>1 DEF Resolve, UseCopy, GoTo
    <2>2. CASE Check(p) BY <2>2 DEF Check, UseCopy, GoTo, FallBack
    <2>3. CASE Open(p) BY <2>3, <1>0 DEF Made, Open, GoTo, FallBack
    <2>4. CASE WriteTemp(p) BY <2>4, <1>0 DEF Made, WriteTemp, GoTo, FallBack
    <2>5. CASE Exists(p) BY <2>5 DEF Exists, GoTo
    <2>6. CASE Remove(p) BY <2>6 DEF Remove, GoTo, FallBack
    <2>7. CASE Rename(p) BY <2>7 DEF Rename, UseCopy, GoTo
    <2>8. CASE Recheck(p) BY <2>8 DEF Recheck, UseCopy, FallBack
    <2>9. CASE Launch(p) BY <2>9 DEF Launch, GoTo
    <2>10. CASE Finish(p) BY <2>10 DEF Finish, GoTo
    <2>11. CASE Die(p) BY <2>11 DEF Die
    <2> QED BY <1>1, <2>1, <2>2, <2>3, <2>4, <2>5, <2>6, <2>7, <2>8, <2>9, <2>10, <2>11 DEF Work
<1>2. CASE Update BY <1>2 DEF Update
<1> QED BY <1>1, <1>2 DEF CopyNext

LEMMA CopyKeepsTypes ==
    ASSUME CopyTypeOK, CopyFacts, CopyNext, UNCHANGED setting
    PROVE  CopyTypeOK'
<1>1. setting' \in Settings
    BY DEF CopyTypeOK
<1> QED BY <1>1, CopySteps, CopyFiles, CopyTemps, CopyCounts, CopyingHolds DEF CopyTypeOK

(* Only an update changes the source, and it dates it. *)
LEMMA SourceKept ==
    ASSUME CopyTypeOK, CopyFacts, CopyNext, UNCHANGED setting
    PROVE  SourceFacts'
<1> USE CopyAssumption
<1> USE DEF CopyTypeOK, CopyFacts, SourceFacts, Dated, File
<1>1. ASSUME NEW p \in Processes, Resolve(p) \/ Work(p) \/ Die(p)
      PROVE SourceFacts'
    <2>1. CASE Resolve(p) BY <2>1 DEF Resolve, UseCopy, GoTo
    <2>2. CASE Check(p) BY <2>2 DEF Check, UseCopy, GoTo, FallBack
    <2>3. CASE Open(p) BY <2>3 DEF Open, GoTo, FallBack
    <2>4. CASE WriteTemp(p) BY <2>4 DEF WriteTemp, GoTo, FallBack
    <2>5. CASE Exists(p) BY <2>5 DEF Exists, GoTo
    <2>6. CASE Remove(p) BY <2>6 DEF Remove, GoTo, FallBack
    <2>7. CASE Rename(p) BY <2>7 DEF Rename, UseCopy, GoTo
    <2>8. CASE Recheck(p) BY <2>8 DEF Recheck, UseCopy, FallBack
    <2>9. CASE Launch(p) BY <2>9 DEF Launch, GoTo
    <2>10. CASE Finish(p) BY <2>10 DEF Finish, GoTo
    <2>11. CASE Die(p) BY <2>11 DEF Die
    <2> QED BY <1>1, <2>1, <2>2, <2>3, <2>4, <2>5, <2>6, <2>7, <2>8, <2>9, <2>10, <2>11 DEF Work
<1>2. CASE Update BY <1>2, UpdateStep DEF Update
<1> QED BY <1>1, <1>2 DEF CopyNext

(* The copy comes from a temporary file, and these from the source. *)
LEMMA CopyDated ==
    ASSUME CopyTypeOK, CopyFacts, CopyNext, UNCHANGED setting
    PROVE  Dated(copy)'
<1> USE CopyAssumption
<1> USE DEF CopyTypeOK, CopyFacts, SourceFacts, Dated, File, CopyOf, PartOf, Copying
<1>1. ASSUME NEW p \in Processes, Resolve(p) \/ Work(p) \/ Die(p)
      PROVE Dated(copy)'
    <2>1. CASE Resolve(p) BY <2>1 DEF Resolve, UseCopy, GoTo
    <2>2. CASE Check(p) BY <2>2 DEF Check, UseCopy, GoTo, FallBack
    <2>3. CASE Open(p) BY <2>3 DEF Open, GoTo, FallBack
    <2>4. CASE WriteTemp(p) BY <2>4 DEF WriteTemp, GoTo, FallBack
    <2>5. CASE Exists(p) BY <2>5 DEF Exists, GoTo
    <2>6. CASE Remove(p) BY <2>6 DEF Remove, GoTo, FallBack
    <2>7. CASE Rename(p) BY <2>7 DEF Rename, UseCopy, GoTo
    <2>8. CASE Recheck(p) BY <2>8 DEF Recheck, UseCopy, FallBack
    <2>9. CASE Launch(p) BY <2>9 DEF Launch, GoTo
    <2>10. CASE Finish(p) BY <2>10 DEF Finish, GoTo
    <2>11. CASE Die(p) BY <2>11 DEF Die
    <2> QED BY <1>1, <2>1, <2>2, <2>3, <2>4, <2>5, <2>6, <2>7, <2>8, <2>9, <2>10, <2>11 DEF Work
<1>2. CASE Update BY <1>2, UpdateStep DEF Update
<1> QED BY <1>1, <1>2 DEF CopyNext

(* The files in the making are dated like what they are made from. *)
LEMMA TempDated ==
    ASSUME CopyTypeOK, CopyFacts, CopyNext, UNCHANGED setting
    PROVE  \A q \in Processes : Dated(opened[q])' /\ Dated(temp[q])'
<1> USE CopyAssumption
<1> USE DEF CopyTypeOK, CopyFacts, SourceFacts, Dated, File, PartOf, Copying
<1>1. ASSUME NEW p \in Processes, Resolve(p) \/ Work(p) \/ Die(p)
      PROVE \A q \in Processes : Dated(opened[q])' /\ Dated(temp[q])'
    <2>1. CASE Resolve(p) BY <2>1 DEF Resolve, UseCopy, GoTo
    <2>2. CASE Check(p) BY <2>2 DEF Check, UseCopy, GoTo, FallBack
    <2>3. CASE Open(p) BY <2>3 DEF Open, GoTo, FallBack
    <2>4. CASE WriteTemp(p)
        BY <2>4, CopyMade DEF WriteTemp, GoTo, FallBack
    <2>5. CASE Exists(p) BY <2>5 DEF Exists, GoTo
    <2>6. CASE Remove(p) BY <2>6 DEF Remove, GoTo, FallBack
    <2>7. CASE Rename(p) BY <2>7 DEF Rename, UseCopy, GoTo
    <2>8. CASE Recheck(p) BY <2>8 DEF Recheck, UseCopy, FallBack
    <2>9. CASE Launch(p) BY <2>9 DEF Launch, GoTo
    <2>10. CASE Finish(p) BY <2>10 DEF Finish, GoTo
    <2>11. CASE Die(p) BY <2>11 DEF Die
    <2> QED BY <1>1, <2>1, <2>2, <2>3, <2>4, <2>5, <2>6, <2>7, <2>8, <2>9, <2>10, <2>11 DEF Work
<1>2. CASE Update BY <1>2, UpdateStep DEF Update
<1> QED BY <1>1, <1>2 DEF CopyNext

(* What is open for writing is a whole build. *)
LEMMA OpenedInMaking ==
    ASSUME CopyTypeOK, CopyFacts, CopyNext, UNCHANGED setting
    PROVE  \A q \in Processes : stage'[q] = "write" => InMaking(opened[q])'
<1> USE CopyAssumption
<1> USE DEF CopyTypeOK, CopyFacts, SourceFacts, InMaking, File, CopyOf, PartOf, Steps, Copying
<1>1. ASSUME NEW p \in Processes, Resolve(p) \/ Work(p) \/ Die(p)
      PROVE \A q \in Processes : stage'[q] = "write" => InMaking(opened[q])'
    <2>1. CASE Resolve(p) BY <2>1 DEF Resolve, UseCopy, GoTo
    <2>2. CASE Check(p) BY <2>2 DEF Check, UseCopy, GoTo, FallBack
    <2>3. CASE Open(p) BY <2>3 DEF Open, GoTo, FallBack
    <2>4. CASE WriteTemp(p) BY <2>4 DEF WriteTemp, GoTo, FallBack
    <2>5. CASE Exists(p) BY <2>5 DEF Exists, GoTo
    <2>6. CASE Remove(p) BY <2>6 DEF Remove, GoTo, FallBack
    <2>7. CASE Rename(p) BY <2>7 DEF Rename, UseCopy, GoTo
    <2>8. CASE Recheck(p) BY <2>8 DEF Recheck, UseCopy, FallBack
    <2>9. CASE Launch(p) BY <2>9 DEF Launch, GoTo
    <2>10. CASE Finish(p) BY <2>10 DEF Finish, GoTo
    <2>11. CASE Die(p) BY <2>11 DEF Die
    <2> QED BY <1>1, <2>1, <2>2, <2>3, <2>4, <2>5, <2>6, <2>7, <2>8, <2>9, <2>10, <2>11 DEF Work
<1>2. CASE Update BY <1>2, UpdateStep DEF Update
<1> QED BY <1>1, <1>2 DEF CopyNext

(* What has been written is a whole build. *)
LEMMA TempInMaking ==
    ASSUME CopyTypeOK, CopyFacts, CopyNext, UNCHANGED setting
    PROVE  \A q \in Processes : stage'[q] \in Copying \ {"write"} => InMaking(temp[q])'
<1> USE CopyAssumption
<1> USE DEF CopyTypeOK, CopyFacts, SourceFacts, InMaking, File, PartOf, Steps, Copying
<1>1. ASSUME NEW p \in Processes, Resolve(p) \/ Work(p) \/ Die(p)
      PROVE \A q \in Processes : stage'[q] \in Copying \ {"write"} => InMaking(temp[q])'
    <2>1. CASE Resolve(p) BY <2>1 DEF Resolve, UseCopy, GoTo
    <2>2. CASE Check(p) BY <2>2 DEF Check, UseCopy, GoTo, FallBack
    <2>3. CASE Open(p) BY <2>3 DEF Open, GoTo, FallBack
    <2>4. CASE WriteTemp(p)
        BY <2>4, CopyMade DEF WriteTemp, GoTo, FallBack
    <2>5. CASE Exists(p) BY <2>5 DEF Exists, GoTo
    <2>6. CASE Remove(p) BY <2>6 DEF Remove, GoTo, FallBack
    <2>7. CASE Rename(p) BY <2>7 DEF Rename, UseCopy, GoTo
    <2>8. CASE Recheck(p) BY <2>8 DEF Recheck, UseCopy, FallBack
    <2>9. CASE Launch(p) BY <2>9 DEF Launch, GoTo
    <2>10. CASE Finish(p) BY <2>10 DEF Finish, GoTo
    <2>11. CASE Die(p) BY <2>11 DEF Die
    <2> QED BY <1>1, <2>1, <2>2, <2>3, <2>4, <2>5, <2>6, <2>7, <2>8, <2>9, <2>10, <2>11 DEF Work
<1>2. CASE Update BY <1>2, UpdateStep DEF Update
<1> QED BY <1>1, <1>2 DEF CopyNext

(* A copy in use can be neither removed nor replaced. *)
LEMMA UsedIsThere ==
    ASSUME CopyTypeOK, CopyFacts, CopyNext, UNCHANGED setting
    PROVE  (InUse => copy # None)'
<1> USE CopyAssumption
<1> USE DEF CopyTypeOK, CopyFacts, InMaking, InUse, Steps, Copying
<1>1. ASSUME NEW p \in Processes, Resolve(p) \/ Work(p) \/ Die(p)
      PROVE (InUse => copy # None)'
    <2>1. CASE Resolve(p) BY <2>1 DEF Resolve, UseCopy, GoTo
    <2>2. CASE Check(p) BY <2>2 DEF Check, UseCopy, GoTo, FallBack
    <2>3. CASE Open(p) BY <2>3 DEF Open, GoTo, FallBack
    <2>4. CASE WriteTemp(p) BY <2>4 DEF WriteTemp, GoTo, FallBack
    <2>5. CASE Exists(p) BY <2>5 DEF Exists, GoTo
    <2>6. CASE Remove(p) BY <2>6 DEF Remove, GoTo, FallBack
    <2>7. CASE Rename(p) BY <2>7 DEF Rename, UseCopy, GoTo
    <2>8. CASE Recheck(p) BY <2>8 DEF Recheck, UseCopy, FallBack
    <2>9. CASE Launch(p) BY <2>9 DEF Launch, GoTo
    <2>10. CASE Finish(p) BY <2>10 DEF Finish, GoTo
    <2>11. CASE Die(p) BY <2>11 DEF Die
    <2> QED BY <1>1, <2>1, <2>2, <2>3, <2>4, <2>5, <2>6, <2>7, <2>8, <2>9, <2>10, <2>11 DEF Work
<1>2. CASE Update BY <1>2 DEF Update
<1> QED BY <1>1, <1>2 DEF CopyNext

(* Only a whole file is renamed to the destination. *)
LEMMA WholeKept ==
    ASSUME CopyTypeOK, CopyFacts, CopyNext, UNCHANGED setting
    PROVE  WholeImage'
<1> USE CopyAssumption
<1> USE DEF CopyTypeOK, CopyFacts, InMaking, WholeImage, Steps, Copying
<1>1. ASSUME NEW p \in Processes, Resolve(p) \/ Work(p) \/ Die(p)
      PROVE WholeImage'
    <2>1. CASE Resolve(p) BY <2>1 DEF Resolve, UseCopy, GoTo
    <2>2. CASE Check(p) BY <2>2 DEF Check, UseCopy, GoTo, FallBack
    <2>3. CASE Open(p) BY <2>3 DEF Open, GoTo, FallBack
    <2>4. CASE WriteTemp(p) BY <2>4 DEF WriteTemp, GoTo, FallBack
    <2>5. CASE Exists(p) BY <2>5 DEF Exists, GoTo
    <2>6. CASE Remove(p) BY <2>6 DEF Remove, GoTo, FallBack
    <2>7. CASE Rename(p) BY <2>7 DEF Rename, UseCopy, GoTo
    <2>8. CASE Recheck(p) BY <2>8 DEF Recheck, UseCopy, FallBack
    <2>9. CASE Launch(p) BY <2>9 DEF Launch, GoTo
    <2>10. CASE Finish(p) BY <2>10 DEF Finish, GoTo
    <2>11. CASE Die(p) BY <2>11 DEF Die
    <2> QED BY <1>1, <2>1, <2>2, <2>3, <2>4, <2>5, <2>6, <2>7, <2>8, <2>9, <2>10, <2>11 DEF Work
<1>2. CASE Update BY <1>2 DEF Update
<1> QED BY <1>1, <1>2 DEF CopyNext

(* Who removes the copy is about to rename its own. *)
LEMMA GoneKept ==
    ASSUME CopyTypeOK, CopyFacts, CopyNext, UNCHANGED setting
    PROVE  GoneBriefly'
<1> USE CopyAssumption
<1> USE DEF CopyTypeOK, CopyFacts, InMaking, GoneBriefly, InUse, Fresh, Steps, Copying
<1>1. ASSUME NEW p \in Processes, Resolve(p) \/ Work(p) \/ Die(p)
      PROVE GoneBriefly'
    <2>1. CASE Resolve(p) BY <2>1 DEF Resolve, UseCopy, GoTo
    <2>2. CASE Check(p) BY <2>2 DEF Check, UseCopy, GoTo, FallBack
    <2>3. CASE Open(p) BY <2>3 DEF Open, GoTo, FallBack
    <2>4. CASE WriteTemp(p) BY <2>4 DEF WriteTemp, GoTo, FallBack
    <2>5. CASE Exists(p) BY <2>5 DEF Exists, GoTo
    <2>6. CASE Remove(p) BY <2>6 DEF Remove, GoTo, FallBack
    <2>7. CASE Rename(p) BY <2>7 DEF Rename, UseCopy, GoTo
    <2>8. CASE Recheck(p) BY <2>8 DEF Recheck, UseCopy, FallBack
    <2>9. CASE Launch(p) BY <2>9 DEF Launch, GoTo
    <2>10. CASE Finish(p) BY <2>10 DEF Finish, GoTo
    <2>11. CASE Die(p) BY <2>11 DEF Die
    <2> QED BY <1>1, <2>1, <2>2, <2>3, <2>4, <2>5, <2>6, <2>7, <2>8, <2>9, <2>10, <2>11 DEF Work
<1>2. CASE Update BY <1>2 DEF Update
<1> QED BY <1>1, <1>2 DEF CopyNext

(* A copy is stamped with the time of its build if no update came between. *)
LEMMA StampedKept ==
    ASSUME CopyTypeOK, CopyFacts, CopyNext, UNCHANGED setting
    PROVE  Stamped'
<1> USE CopyAssumption
<1> USE DEF CopyTypeOK, CopyFacts, SourceFacts, Dated, InMaking, Stamped, File,
       Steps, Copying
<1>1. ASSUME NEW p \in Processes, Resolve(p) \/ Work(p) \/ Die(p)
      PROVE Stamped'
    <2>1. CASE Resolve(p) BY <2>1 DEF Resolve, UseCopy, GoTo
    <2>2. CASE Check(p) BY <2>2 DEF Check, UseCopy, GoTo, FallBack
    <2>3. CASE Open(p) BY <2>3 DEF Open, GoTo, FallBack
    <2>4. CASE WriteTemp(p) BY <2>4 DEF WriteTemp, GoTo, FallBack
    <2>5. CASE Exists(p) BY <2>5 DEF Exists, GoTo
    <2>6. CASE Remove(p) BY <2>6 DEF Remove, GoTo, FallBack
    <2>7. CASE Rename(p)
        <3>1. CASE copy' = copy
            BY <2>7, <3>1 DEF Rename
        <3>2. CASE copy' = temp[p] /\ stage[p] = "rename"
            <4>1. InMaking(temp[p]) /\ Dated(temp[p])
                BY <3>2
            <4>2. temp[p] \in File /\ temp[p].time <= updates /\ updates = source.build
                BY <3>2, <4>1
            <4> QED BY <2>7, <3>2, <4>1, <4>2 DEF Rename
        <3> QED BY <2>7, <3>1, <3>2 DEF Rename
    <2>8. CASE Recheck(p) BY <2>8 DEF Recheck, UseCopy, FallBack
    <2>9. CASE Launch(p) BY <2>9 DEF Launch, GoTo
    <2>10. CASE Finish(p) BY <2>10 DEF Finish, GoTo
    <2>11. CASE Die(p) BY <2>11 DEF Die
    <2> QED BY <1>1, <2>1, <2>2, <2>3, <2>4, <2>5, <2>6, <2>7, <2>8, <2>9, <2>10, <2>11 DEF Work
<1>2. CASE Update BY <1>2, UpdateStep DEF Update
<1> QED BY <1>1, <1>2 DEF CopyNext

LEMMA CopyFactsKept ==
    ASSUME CopyTypeOK, CopyFacts, CopyNext, UNCHANGED setting
    PROVE  CopyFacts'
<1>1. SourceFacts' /\ Dated(copy)' /\ WholeImage' /\ GoneBriefly' /\ Stamped'
    BY SourceKept, CopyDated, WholeKept, GoneKept, StampedKept
<1>2. \A q \in Processes : Dated(opened[q])' /\ Dated(temp[q])'
    BY TempDated
<1>3. /\ \A q \in Processes : stage'[q] = "write" => InMaking(opened[q])'
      /\ \A q \in Processes : stage'[q] \in Copying \ {"write"} => InMaking(temp[q])'
    BY OpenedInMaking, TempInMaking
<1> QED BY <1>1, <1>2, <1>3, UsedIsThere DEF CopyFacts

----------------------------------------------------------------------------
(* The capability SIDs.  A map has no more entries than there are roots.   *)
LEMMA EntriesBound ==
    ASSUME NEW map \in Caps
    PROVE  Entries(map) \in 0..Cardinality(Root)
<1>1. {r \in Root : map[r] # 0} \subseteq Root
    OBVIOUS
<1>2. /\ IsFiniteSet({r \in Root : map[r] # 0})
      /\ Cardinality({r \in Root : map[r] # 0}) <= Cardinality(Root)
    BY <1>1, FS_Subset, CapConstants
<1>3. Cardinality(Root) \in Nat /\ Cardinality({r \in Root : map[r] # 0}) \in Nat
    BY <1>2, FS_CardinalityType, CapConstants
<1> QED BY <1>2, <1>3 DEF Entries

LEMMA CapInitTypes == CapInit => CapTypeOK
<1> SUFFICES ASSUME CapInit PROVE CapTypeOK
    OBVIOUS
<1>1. NoCaps \in Caps
    BY CapConstants DEF NoCaps, Caps
<1>2. root \in [Session -> Root]
    BY CapConstants DEF CapInit
<1>3. Cardinality(Root) \in Nat
    BY FS_CardinalityType, CapConstants
<1> QED BY <1>1, <1>2, <1>3, CapConstants DEF CapInit, CapTypeOK

(* What a lookup returns is a SID, of the session's root.                  *)
LEMMA ReturnTypes ==
    ASSUME CapTypeOK, NEW s \in Session, NEW sid \in 1..MaxSid, Return(s, sid)
    PROVE  /\ granted' \in [Root -> SUBSET (1..MaxSid)]
           /\ pc' \in [Session -> {"idle", "read", "truncate", "write", "run"}]
           /\ role' \in [Session -> {"helper", "capture"}]
           /\ todo' \in [Session -> SUBSET Root] /\ root' \in [Session -> Root]
           /\ mine' \in [Session -> Caps] /\ token' \in [Session -> Caps]
<1> USE CapConstants DEF CapTypeOK
<1>1. mine' \in [Session -> Caps]
    BY DEF Return, Caps, NoCaps
<1>2. granted' \in [Root -> SUBSET (1..MaxSid)]
    <2>1. granted[root[s]] \cup {sid} \in SUBSET (1..MaxSid)
        OBVIOUS
    <2>2. \/ granted' = granted
          \/ granted' = [granted EXCEPT ![root[s]] = granted[root[s]] \cup {sid}]
        BY DEF Return
    <2> QED BY <2>1, <2>2
<1>3. token' \in [Session -> Caps]
    <2>1. [token[s] EXCEPT ![root[s]] = sid] \in Caps
        BY DEF Caps
    <2>2. token' = token \/ token' = [token EXCEPT ![s] = [token[s] EXCEPT ![root[s]] = sid]]
        BY DEF Return
    <2> QED BY <2>1, <2>2
<1>4. /\ pc' \in [Session -> {"idle", "read", "truncate", "write", "run"}]
      /\ role' \in [Session -> {"helper", "capture"}]
    BY DEF Return, Go
<1>5. todo' \in [Session -> SUBSET Root] /\ root' \in [Session -> Root]
    <2>1. todo[s] \ {root[s]} \in SUBSET Root /\ RootsOf[s] \in SUBSET Root /\ {} \in SUBSET Root
        OBVIOUS
    <2>2. \E left \in SUBSET Root : todo' = [todo EXCEPT ![s] = left]
        BY <2>1 DEF Return
    <2>3. root' = root \/ \E n \in Root : root' = [root EXCEPT ![s] = n]
        BY <2>1 DEF Return
    <2> QED BY <2>2, <2>3, SMTT(60)
<1> QED BY <1>1, <1>2, <1>3, <1>4, <1>5

LEMMA InsertTypes ==
    ASSUME CapTypeOK, NEW s \in Session, NEW old \in Caps, Insert(s, old)
    PROVE  /\ pc' \in [Session -> {"idle", "read", "truncate", "write", "run"}]
           /\ last' = last + 1 /\ last' \in 1..MaxSid /\ mine' \in [Session -> Caps]
           /\ mine'[s] = [old EXCEPT ![root[s]] = last + 1]
<1>1. last' = last + 1 /\ last' \in 1..MaxSid
    BY CapConstants DEF CapTypeOK, Insert
<1>2. [old EXCEPT ![root[s]] = last + 1] \in Caps
    BY <1>1 DEF CapTypeOK, Caps
<1> QED BY <1>1, <1>2 DEF CapTypeOK, Insert, Go

LEMMA CapKeepsTypes ==
    ASSUME CapTypeOK, NEW s \in Session, Start(s) \/ SessionStep(s) \/ Stop(s), UNCHANGED sessions
    PROVE  CapTypeOK'
<1> USE CapConstants DEF CapTypeOK, capFile
<1>1. NoCaps \in Caps
    BY DEF NoCaps, Caps
<1>2. \A map \in Caps : Entries(map) + 1 \in 0..Cardinality(Root) + 1
    BY EntriesBound, FS_CardinalityType
<1>3. \A map \in Caps, r \in Root : map[r] # 0 => map[r] \in 1..MaxSid
    BY DEF Caps
<1>4. disturbed' \in [Session -> BOOLEAN]
    BY DEF Start, SessionStep, Load, Truncate, WriteCaps, Stop, DisturbOthers
<1>5. CASE Start(s)
    BY <1>4, <1>5 DEF Start, Go
<1>6. CASE Load(s)
    <2>1. CASE Parses /\ caps[root[s]] # 0 /\ Return(s, caps[root[s]]) /\ UNCHANGED last
        BY <1>3, <1>4, <1>6, <2>1, ReturnTypes DEF Load
    <2>2. CASE Insert(s, caps) /\ UNCHANGED <<granted, token, role, todo, root>>
        <3>1. last' \in 0..MaxSid /\ mine' \in [Session -> Caps]
              /\ pc' \in [Session -> {"idle", "read", "truncate", "write", "run"}]
            <4> HIDE DEF CapTypeOK
            <4>1. caps \in Caps /\ mine[s] \in Caps
                BY DEF CapTypeOK
            <4>2. last' \in 1..MaxSid /\ mine' \in [Session -> Caps]
                BY <2>2, <4>1, InsertTypes
            <4>3. pc' \in [Session -> {"idle", "read", "truncate", "write", "run"}]
                BY <2>2, <4>1, InsertTypes
            <4> QED BY <4>2, <4>3
        <3> QED BY <1>4, <1>6, <2>2, <3>1 DEF Load
    <2>3. CASE /\ mine' = [mine EXCEPT ![s] = NoCaps] /\ Go(s, "truncate")
               /\ UNCHANGED <<last, granted, token, role, todo, root>>
        BY <1>1, <1>4, <1>6, <2>3 DEF Load, Go
    <2> QED BY <1>6, <2>1, <2>2, <2>3 DEF Load
<1>7. CASE Truncate(s)
    BY <1>1, <1>4, <1>7, FS_CardinalityType DEF Truncate, Go
<1>8. CASE WriteCaps(s)
    <2>1. caps' \in Caps /\ length' \in 0..Cardinality(Root) + 1
        BY <1>2, <1>8 DEF WriteCaps
    <2>2. CASE Insert(s, mine[s]) /\ UNCHANGED <<granted, token, role, todo, root>>
        <3>1. last' \in 0..MaxSid /\ mine' \in [Session -> Caps]
              /\ pc' \in [Session -> {"idle", "read", "truncate", "write", "run"}]
            <4> HIDE DEF CapTypeOK
            <4>1. caps \in Caps /\ mine[s] \in Caps
                BY DEF CapTypeOK
            <4>2. last' \in 1..MaxSid /\ mine' \in [Session -> Caps]
                BY <2>2, <4>1, InsertTypes
            <4>3. pc' \in [Session -> {"idle", "read", "truncate", "write", "run"}]
                BY <2>2, <4>1, InsertTypes
            <4> QED BY <4>2, <4>3
        <3> QED BY <1>4, <1>8, <2>1, <2>2, <3>1 DEF WriteCaps
    <2>3. CASE mine[s][root[s]] # 0 /\ Return(s, mine[s][root[s]]) /\ UNCHANGED last
        BY <1>3, <1>4, <1>8, <2>1, <2>3, ReturnTypes DEF WriteCaps
    <2> QED BY <1>8, <2>2, <2>3 DEF WriteCaps
<1>9. CASE Stop(s)
    BY <1>1, <1>4, <1>9 DEF Stop, Go
<1> QED BY <1>5, <1>6, <1>7, <1>8, <1>9 DEF SessionStep

(* A step gives a root no SID but a new one, which no root had.            *)
LEMMA NamesKept ==
    ASSUME CapTypeOK, NEW s \in Session, Start(s) \/ SessionStep(s) \/ Stop(s),
           NEW sid \in 1..MaxSid, NEW r \in Root, Names(sid, r)'
    PROVE  Names(sid, r) \/ (sid = last + 1 /\ last' = last + 1 /\ r = root[s])
<1> USE DEF CapTypeOK, Names, NoCaps, Caps, capFile
<1>1. CASE Start(s)
    BY <1>1 DEF Start
<1>2. ASSUME NEW map \in Caps, Return(s, map[root[s]]),
             \A q \in Root : map[q] = sid => Names(sid, q),
             caps' = map \/ caps' = caps
      PROVE  Names(sid, r)
    <2>1. CASE caps'[r] = sid
        BY <1>2, <2>1
    <2>2. CASE sid \in granted'[r]
        <3>1. sid \in granted[r] \/ (r = root[s] /\ sid = map[r])
            BY <1>2, <2>2 DEF Return
        <3> QED BY <1>2, <3>1
    <2>3. ASSUME NEW o \in Session, mine'[o][r] = sid PROVE Names(sid, r)
        BY <1>2, <2>3 DEF Return
    <2>4. ASSUME NEW o \in Session, token'[o][r] = sid PROVE Names(sid, r)
        BY <1>2, <2>4 DEF Return
    <2> QED BY <2>1, <2>2, <2>3, <2>4
<1>3. ASSUME NEW map \in Caps, Insert(s, map), UNCHANGED <<granted, token>>,
             \A q \in Root : map[q] = sid => Names(sid, q),
             caps' = map \/ caps' = caps
      PROVE  Names(sid, r) \/ (sid = last + 1 /\ last' = last + 1 /\ r = root[s])
    BY <1>3 DEF Insert
<1>4. CASE Load(s)
    <2>1. \A q \in Root : caps[q] = sid => Names(sid, q)
        OBVIOUS
    <2>2. CASE mine' = [mine EXCEPT ![s] = NoCaps] /\ UNCHANGED <<granted, token>>
        BY <1>4, <2>2 DEF Load
    <2> QED BY <1>2, <1>3, <1>4, <2>1, <2>2 DEF Load
<1>5. CASE Truncate(s)
    BY <1>5 DEF Truncate
<1>6. CASE WriteCaps(s)
    <2>1. \A q \in Root : mine[s][q] = sid => Names(sid, q)
        OBVIOUS
    <2> QED BY <1>2, <1>3, <1>6, <2>1 DEF WriteCaps
<1>7. CASE Stop(s)
    BY <1>7 DEF Stop
<1> QED BY <1>1, <1>4, <1>5, <1>6, <1>7 DEF SessionStep

LEMMA OneRootKept ==
    ASSUME CapTypeOK, Drawn, OneRoot, NEW s \in Session, Start(s) \/ SessionStep(s) \/ Stop(s)
    PROVE  Drawn' /\ OneRoot'
<1>1. last' \in {last, last + 1} /\ last \in Nat
    BY CapConstants DEF CapTypeOK, Start, SessionStep, Load, Truncate, WriteCaps, Stop, Return, Insert
<1>2. Drawn'
    BY <1>1, NamesKept DEF Drawn
<1>3. ASSUME NEW sid \in 1..MaxSid, NEW r \in Root, NEW q \in Root, Names(sid, r)', Names(sid, q)'
      PROVE  r = q
    <2>1. ~(Names(sid, r) /\ sid = last + 1) /\ ~(Names(sid, q) /\ sid = last + 1)
        BY <1>1 DEF Drawn
    <2>2. Names(sid, r) /\ Names(sid, q) => r = q
        BY DEF OneRoot
    <2> QED BY <1>3, <2>1, <2>2, NamesKept
<1> QED BY <1>2, <1>3 DEF OneRoot

(* A session's step leaves another one its place; it takes nothing off a   *)
(* root, and who is not disturbed finds the file as it was.                *)
LEMMA OtherSession ==
    ASSUME CapTypeOK, NEW s \in Session, Start(s) \/ SessionStep(s) \/ Stop(s),
           NEW o \in Session, o # s
    PROVE  /\ pc'[o] = pc[o] /\ role'[o] = role[o] /\ todo'[o] = todo[o] /\ root'[o] = root[o]
           /\ mine'[o] = mine[o] /\ token'[o] = token[o]
           /\ \A r \in Root : granted[r] \subseteq granted'[r]
           /\ pc[o] # "idle" /\ ~disturbed'[o] => ~disturbed[o] /\ UNCHANGED capFile
<1> USE DEF CapTypeOK, capFile
<1>1. CASE Start(s)
    BY <1>1 DEF Start, Go
<1>2. CASE Load(s)
    BY <1>2 DEF Load, Return, Insert, Go
<1>3. CASE Truncate(s)
    BY <1>3 DEF Truncate, DisturbOthers, Go
<1>4. CASE WriteCaps(s)
    <2>1. pc[o] # "idle" => disturbed'[o]
        BY <1>4 DEF WriteCaps, DisturbOthers
    <2>2. CASE Insert(s, mine[s]) /\ UNCHANGED <<granted, token, role, todo, root>>
        BY <1>4, <2>1, <2>2 DEF WriteCaps, Insert, Go
    <2>3. CASE Return(s, mine[s][root[s]])
        BY <1>4, <2>1, <2>3 DEF WriteCaps, Return, Go
    <2> QED BY <1>4, <2>2, <2>3 DEF WriteCaps
<1>5. CASE Stop(s)
    BY <1>5 DEF Stop, Go
<1> QED BY <1>1, <1>2, <1>3, <1>4, <1>5 DEF SessionStep

LEMMA LookupsKept ==
    ASSUME CapTypeOK, NEW s \in Session, Lookups(s), Start(s) \/ SessionStep(s) \/ Stop(s)
    PROVE  Lookups(s)'
<1> USE CapConstants DEF CapTypeOK, Lookups
<1>1. CASE Start(s)
    BY <1>1 DEF Start, Go
<1>2. ASSUME NEW sid, Return(s, sid)
      PROVE  Lookups(s)'
    BY <1>2 DEF Return, Go
<1>3. ASSUME NEW map, Insert(s, map), UNCHANGED <<role, todo, root>>, pc[s] \in {"read", "write"}
      PROVE  Lookups(s)'
    BY <1>3 DEF Insert, Go
<1>4. CASE Load(s)
    <2>1. CASE Go(s, "truncate") /\ UNCHANGED <<role, todo, root>>
        BY <1>4, <2>1 DEF Load, Go
    <2> QED BY <1>2, <1>3, <1>4, <2>1 DEF Load
<1>5. CASE Truncate(s)
    BY <1>5 DEF Truncate, Go
<1>6. CASE WriteCaps(s)
    BY <1>2, <1>3, <1>6 DEF WriteCaps
<1>7. CASE Stop(s)
    BY <1>7 DEF Stop, Go
<1> QED BY <1>1, <1>4, <1>5, <1>6, <1>7 DEF SessionStep

(* A lookup that returns what the file says of the root keeps the session   *)
(* steady: the helper grants it, the capture has it granted already.        *)
LEMMA ReturnSteady ==
    ASSUME CapTypeOK, NEW s \in Session, Lookups(s), Return(s, caps'[root[s]]), pc[s] # "idle",
           root[s] \in todo[s], Parses', caps' \in Caps, Granted(s, RootsOf[s] \ todo[s], caps'),
           role[s] = "capture" => Granted(s, RootsOf[s], caps')
                                    /\ Granted(s, RootsOf[s] \ todo[s], token[s])
    PROVE  Steady(s)'
<1> DEFINE done == RootsOf[s] \ todo[s]
<1>1. done \subseteq Root /\ RootsOf[s] \subseteq Root /\ root[s] \in RootsOf[s]
    BY CapConstants DEF Lookups
<1>2. CASE role[s] = "helper"
    <2>1. \A r \in Root : granted'[r] = IF r = root[s] THEN granted[r] \cup {caps'[r]} ELSE granted[r]
        BY <1>2 DEF CapTypeOK, Return
    <2>2. \A r \in done \cup {root[s]} : caps'[r] \in granted'[r]
        BY <1>1, <2>1 DEF Granted
    <2>3. CASE /\ Go(s, "read") /\ role' = role
               /\ todo' = [todo EXCEPT ![s] = todo[s] \ {root[s]}]
        <3>1. pc'[s] = "read" /\ role'[s] = "helper" /\ todo'[s] = todo[s] \ {root[s]}
            BY <1>2, <2>3 DEF CapTypeOK, Go
        <3>2. RootsOf[s] \ todo'[s] = done \cup {root[s]}
            BY <1>1, <3>1
        <3> QED BY <2>2, <3>1, <3>2 DEF Steady, Granted
    <2>4. CASE /\ Go(s, "read") /\ todo[s] \ {root[s]} = {}
               /\ todo' = [todo EXCEPT ![s] = RootsOf[s]]
               /\ role' = [role EXCEPT ![s] = "capture"]
        <3>1. pc'[s] = "read" /\ role'[s] = "capture" /\ todo'[s] = RootsOf[s]
            BY <2>4 DEF CapTypeOK, Go
        <3>2. \A r \in RootsOf[s] : caps'[r] \in granted'[r]
            <4>1. RootsOf[s] = done \cup {root[s]}
                BY <1>1, <2>4
            <4> QED BY <2>2, <4>1
        <3> QED BY <3>1, <3>2 DEF Steady, Granted
    <2> QED BY <1>2, <2>3, <2>4 DEF Return
<1>3. CASE role[s] = "capture"
    <2>1. granted' = granted /\ token' = [token EXCEPT ![s] = [token[s] EXCEPT ![root[s]] = caps'[root[s]]]]
        BY <1>3 DEF Return
    <2>2. \A r \in Root : token'[s][r] = IF r = root[s] THEN caps'[r] ELSE token[s][r]
        BY <2>1 DEF CapTypeOK, Caps
    <2>3. Granted(s, RootsOf[s], caps)'
        BY <1>3, <2>1 DEF Granted
    <2>4. \A r \in done \cup {root[s]} : token'[s][r] \in granted'[r]
        BY <1>1, <1>3, <2>1, <2>2 DEF Granted
    <2>5. /\ role'[s] = "capture" /\ todo'[s] = todo[s] \ {root[s]}
          /\ pc'[s] \in {"read", "run"}
        BY <1>3 DEF CapTypeOK, Return, Go
    <2>6. RootsOf[s] \ todo'[s] = done \cup {root[s]}
        BY <1>1, <2>5
    <2> QED BY <2>3, <2>4, <2>5, <2>6 DEF Steady, Granted
<1> QED BY <1>2, <1>3 DEF CapTypeOK

(* A session that writes is the helper, and keeps what it has granted.      *)
LEMMA InsertSteady ==
    ASSUME CapTypeOK, NEW s \in Session, Lookups(s), NEW map \in Caps, Insert(s, map),
           UNCHANGED <<granted, role, todo>>, role[s] = "helper", root[s] \in todo[s],
           Granted(s, RootsOf[s] \ todo[s], map)
    PROVE  Steady(s)'
<1>1. /\ pc'[s] = "truncate" /\ role'[s] = "helper" /\ todo'[s] = todo[s]
      /\ \A r \in RootsOf[s] \ todo[s] : mine'[s][r] = map[r]
    BY CapConstants DEF CapTypeOK, Caps, Insert, Go
<1> QED BY <1>1 DEF Steady, Granted

LEMMA SteadyKept ==
    ASSUME CapTypeOK, NEW s \in Session, Lookups(s), Start(s) \/ SessionStep(s) \/ Stop(s),
           pc[s] # "idle" /\ ~disturbed[s] => Steady(s),
           pc'[s] # "idle", ~disturbed'[s]
    PROVE  Steady(s)'
<1>1. CASE Start(s)
    <2>1. pc'[s] = "read" /\ role'[s] = "helper" /\ todo'[s] = RootsOf[s]
        BY <1>1 DEF CapTypeOK, Start, Go, Lookups
    <2> QED BY <2>1 DEF Steady
<1>2. CASE Load(s)
    <2>1. /\ pc[s] = "read" /\ ~disturbed[s] /\ Steady(s) /\ root[s] \in todo[s]
          /\ UNCHANGED capFile /\ todo[s] \subseteq RootsOf[s]
        BY <1>2 DEF Load, Lookups
    <2>2. CASE Parses /\ caps[root[s]] # 0 /\ Return(s, caps[root[s]])
        <3>1. Granted(s, RootsOf[s] \ todo[s], caps)
            BY <2>1 DEF Steady, Granted
        <3>2. role[s] = "capture" => Granted(s, RootsOf[s], caps)
                                       /\ Granted(s, RootsOf[s] \ todo[s], token[s])
            BY <2>1 DEF Steady
        <3>3. caps' = caps /\ Parses'
            BY <2>1, <2>2 DEF Parses, capFile
        <3>4. caps \in Caps
            BY DEF CapTypeOK
        <3> QED BY <2>1, <2>2, <3>1, <3>2, <3>3, <3>4, ReturnSteady
    <2>3. CASE /\ Parses /\ caps[root[s]] = 0 /\ Insert(s, caps)
               /\ UNCHANGED <<granted, token, role, todo, root>>
        <3>1. Granted(s, RootsOf[s] \ todo[s], caps) /\ caps \in Caps
            BY <2>1 DEF Steady, Granted, CapTypeOK
        <3>2. role[s] = "helper"
            <4>1. SUFFICES ASSUME role[s] # "helper" PROVE FALSE
                OBVIOUS
            <4>2. caps[root[s]] \in granted[root[s]] /\ root[s] \in Root
                BY <2>1, <4>1, CapConstants DEF Steady, Granted, CapTypeOK
            <4>3. 0 \notin granted[root[s]]
                BY <4>2 DEF CapTypeOK
            <4> QED BY <2>3, <4>2, <4>3
        <3> QED BY <2>1, <2>3, <3>1, <3>2, InsertSteady
    <2>4. CASE /\ ~Parses /\ mine' = [mine EXCEPT ![s] = NoCaps] /\ Go(s, "truncate")
               /\ UNCHANGED <<granted, role, todo>>
        <3>1. role[s] = "helper" /\ RootsOf[s] \ todo[s] = {}
            BY <2>1, <2>4 DEF Steady
        <3>2. pc'[s] = "truncate" /\ role'[s] = "helper" /\ todo'[s] = todo[s]
            BY <2>4, <3>1 DEF CapTypeOK, Go
        <3> QED BY <3>1, <3>2 DEF Steady, Granted
    <2> QED BY <1>2, <2>2, <2>3, <2>4 DEF Load
<1>3. CASE Truncate(s)
    <2>1. /\ Steady(s) /\ pc[s] = "truncate" /\ pc'[s] = "write" /\ length' = 0
          /\ UNCHANGED <<granted, role, todo, mine>>
        BY <1>3 DEF Truncate, DisturbOthers, Go, CapTypeOK
    <2> QED BY <2>1 DEF Steady, Granted
<1>4. CASE WriteCaps(s)
    <2>1. /\ Steady(s) /\ pc[s] = "write" /\ root[s] \in todo[s]
          /\ caps' = mine[s] /\ mine[s] \in Caps /\ role[s] = "helper" /\ length = 0
        BY <1>4 DEF WriteCaps, DisturbOthers, CapTypeOK, Lookups, Steady
    <2>2. Granted(s, RootsOf[s] \ todo[s], mine[s])
        BY <2>1 DEF Steady
    <2>3. Parses'
        <3>1. Entries(mine[s]) \in Nat
            BY <2>1, EntriesBound
        <3>2. length' = Entries(mine[s]) + 1
            BY <1>4, <2>1, <3>1 DEF WriteCaps
        <3> QED BY <2>1, <3>2 DEF Parses, Entries
    <2>4. CASE Insert(s, mine[s]) /\ UNCHANGED <<granted, token, role, todo, root>>
        BY <2>1, <2>2, <2>4, InsertSteady
    <2>5. CASE Return(s, mine[s][root[s]])
        BY <2>1, <2>2, <2>3, <2>5, ReturnSteady
    <2> QED BY <1>4, <2>4, <2>5 DEF WriteCaps
<1>5. CASE Stop(s)
    BY <1>5 DEF Stop, Go, CapTypeOK
<1> QED BY <1>1, <1>2, <1>3, <1>4, <1>5 DEF SessionStep

LEMMA CapFactsKept ==
    ASSUME CapTypeOK, CapFacts, NEW s \in Session, Start(s) \/ SessionStep(s) \/ Stop(s)
    PROVE  CapFacts'
<1>1. Drawn' /\ OneRoot'
    BY OneRootKept DEF CapFacts
<1>2. Lookups(s)' /\ (pc'[s] # "idle" /\ ~disturbed'[s] => Steady(s)')
    BY LookupsKept, SteadyKept DEF CapFacts
<1>3. ASSUME NEW o \in Session, o # s
      PROVE  Lookups(o)' /\ (pc'[o] # "idle" /\ ~disturbed'[o] => Steady(o)')
    <2>1. /\ pc'[o] = pc[o] /\ role'[o] = role[o] /\ todo'[o] = todo[o] /\ root'[o] = root[o]
          /\ mine'[o] = mine[o] /\ token'[o] = token[o]
          /\ \A r \in Root : granted[r] \subseteq granted'[r]
          /\ pc[o] # "idle" /\ ~disturbed'[o] => ~disturbed[o] /\ UNCHANGED capFile
        BY <1>3, OtherSession
    <2>2. Lookups(o)'
        BY <2>1 DEF CapFacts, Lookups
    <2>3. ASSUME pc'[o] # "idle", ~disturbed'[o] PROVE Steady(o)'
        <3>1. Steady(o) /\ UNCHANGED capFile /\ RootsOf[o] \subseteq Root
            BY <2>1, <2>3, CapConstants DEF CapFacts
        <3>2. \A done \in SUBSET Root : /\ Granted(o, done, caps) => Granted(o, done, caps)'
                                        /\ Granted(o, done, mine[o]) => Granted(o, done, mine[o])'
                                        /\ Granted(o, done, token[o]) => Granted(o, done, token[o])'
            BY <2>1, <3>1 DEF Granted, capFile
        <3>3. Parses => Parses'
            BY <3>1 DEF Parses, capFile, Entries
        <3>4. length' = length
            BY <3>1 DEF capFile
        <3> QED BY <2>1, <3>1, <3>2, <3>3, <3>4 DEF Steady
    <2> QED BY <2>2, <2>3
<1> QED BY <1>1, <1>2, <1>3 DEF CapFacts
----------------------------------------------------------------------------
LEMMA InitHome == Init => CapTypeOK /\ CapFacts /\ CopyTypeOK /\ CopyFacts
<1> SUFFICES ASSUME Init PROVE CapTypeOK /\ CapFacts /\ CopyTypeOK /\ CopyFacts
    OBVIOUS
<1>1. CapTypeOK
    BY CapInitTypes DEF Init
<1>2. CapFacts
    <2>1. \A sid \in 1..MaxSid, r \in Root : ~Names(sid, r)
        BY DEF Init, CapInit, Names, NoCaps
    <2>2. \A s \in Session : Lookups(s) /\ pc[s] = "idle"
        BY DEF Init, CapInit, Lookups
    <2> QED BY <2>1, <2>2 DEF CapFacts, Drawn, OneRoot
<1>3. source \in File /\ source # None /\ setting \in Settings
    <2>1. 0 \in 0..MaxUpdates /\ None \notin File
        BY CopyAssumption
    <2>2. [build |-> 0, len |-> 0, time |-> 0, whole |-> TRUE] \in File
        BY <2>1 DEF File
    <2> QED BY <2>1, <2>2 DEF Init, CopyInit
<1>4. CopyTypeOK
    BY <1>3, CopyAssumption DEF Init, CopyInit, CopyTypeOK, Steps, Copying
<1>5. SourceFacts /\ Dated(copy) /\ WholeImage
    BY CopyAssumption DEF Init, CopyInit, SourceFacts, Dated, WholeImage
<1>6. /\ \A p \in Processes : Dated(opened[p]) /\ Dated(temp[p])
      /\ \A p \in Processes : stage[p] = "idle" /\ ~cached[p]
    BY DEF Init, CopyInit, Dated
<1>7. Stamped
    BY DEF Init, CopyInit, Stamped
<1> HIDE DEF Init
<1> QED BY <1>1, <1>2, <1>4, <1>5, <1>6, <1>7 DEF CopyFacts, Copying, InUse, GoneBriefly

(* A home's two files are in order at every step: the SIDs of the roots    *)
(* (load_or_create_cap_sids) and the copy of the runner                    *)
(* (copy_from_source_if_needed).                                           *)
THEOREM HomeInvariant == Spec => [](CapTypeOK /\ CapFacts /\ CopyTypeOK /\ CopyFacts)
<1> DEFINE Inv == CapTypeOK /\ CapFacts /\ CopyTypeOK /\ CopyFacts
<1>1. Init => Inv
    BY InitHome
<1>2. Inv /\ [Next /\ UNCHANGED chosen]_<<vars, chosen>> => Inv'
    <2> SUFFICES ASSUME Inv, [Next /\ UNCHANGED chosen]_<<vars, chosen>> PROVE Inv'
        OBVIOUS
    <2>1. UNCHANGED <<sessions, setting>>
        BY DEF chosen
    <2>2. ASSUME UNCHANGED capVars PROVE CapTypeOK' /\ CapFacts'
        <3>1. CapTypeOK'
            BY <2>1, <2>2 DEF CapTypeOK, capVars
        <3>2. (\A s \in Session : Lookups(s)') /\ Drawn' /\ OneRoot'
            BY <2>2 DEF CapFacts, capVars, Lookups, Drawn, OneRoot, Names
        <3>3. \A s \in Session : Steady(s) => Steady(s)'
            BY <2>2 DEF capVars, Steady, Granted, Parses, Entries
        <3> QED BY <2>2, <3>1, <3>2, <3>3 DEF CapFacts, capVars
    <2>3. ASSUME UNCHANGED copyVars PROVE CopyTypeOK' /\ CopyFacts'
        <3>1. CopyTypeOK'
            BY <2>1, <2>3 DEF CopyTypeOK, copyVars
        <3>2. SourceFacts' /\ Dated(copy)' /\ WholeImage' /\ Stamped'
            BY <2>1, <2>3 DEF CopyFacts, copyVars, SourceFacts, Dated, WholeImage, Stamped
        <3>3. GoneBriefly' /\ (InUse => copy # None)'
            BY <2>1, <2>3 DEF CopyFacts, copyVars, GoneBriefly, InUse
        <3>4. /\ (\A p \in Processes : Dated(opened[p]) /\ Dated(temp[p]))'
              /\ (\A p \in Processes : stage[p] = "write" => InMaking(opened[p]))'
              /\ (\A p \in Processes : stage[p] \in Copying \ {"write"} => InMaking(temp[p]))'
            BY <2>1, <2>3 DEF CopyFacts, copyVars, Dated, InMaking
        <3> QED BY <3>1, <3>2, <3>3, <3>4 DEF CopyFacts
    <2>4. CASE CapNext /\ UNCHANGED copyVars
        BY <2>1, <2>3, <2>4, CapKeepsTypes, CapFactsKept DEF CapNext
    <2>5. CASE CopyNext /\ UNCHANGED capVars
        BY <2>1, <2>2, <2>5, CopyKeepsTypes, CopyFactsKept
    <2> QED BY <2>2, <2>3, <2>4, <2>5 DEF Next, vars
<1> QED BY <1>1, <1>2, PTL DEF Spec

(* What an undisturbed session has in its token has been granted on each   *)
(* of its roots, and no session has a SID that opens a root of another     *)
(* (workspace_write_cap_sid_for_root), however many share the home.        *)
THEOREM TokenSafety == Spec => []TokenExact
<1>1. CapTypeOK /\ CapFacts => TokenExact
    <2> SUFFICES ASSUME CapTypeOK, CapFacts PROVE TokenExact
        OBVIOUS
    <2>1. TokenGranted
        BY DEF CapFacts, Lookups, Steady, Granted, TokenGranted, Running
    <2>2. ASSUME NEW s \in Running, NEW r \in Root \ RootsOf[s], NEW q \in RootsOf[s],
                 token[s][q] \in granted[r]
          PROVE  FALSE
        <3>1. /\ q \in Root /\ s \in Session /\ granted[r] \subseteq 1..MaxSid
            BY CapConstants DEF CapTypeOK, Running
        <3>2. Names(token[s][q], r) /\ Names(token[s][q], q)
            BY <2>2, <3>1 DEF Names
        <3> QED BY <2>2, <3>1, <3>2 DEF CapFacts, OneRoot
    <2> QED BY <2>1, <2>2 DEF TokenExact, NoOtherRoot
<1> QED BY <1>1, HomeInvariant, PTL

(* Whoever dies or fails, the copy of the runner is whole; it is gone only *)
(* for the moment of its replacement, and one that passes for fresh is the *)
(* build beside the package if the last update came with a new length, or  *)
(* with a time later than any copy's (copy_from_source_if_needed,          *)
(* destination_is_fresh).                                                  *)
THEOREM CopySafety == Spec => []CopySound
<1>1. CopyTypeOK /\ CopyFacts => CopySound
    <2> SUFFICES ASSUME CopyTypeOK, CopyFacts, Fresh,
                        \/ source.len = source.build
                        \/ source.time = source.build /\ ~setting.midCopy
                 PROVE  copy.build = source.build
        BY DEF CopyFacts, CopySound, FreshIsCurrent
    <2>1. copy # None /\ copy.len = source.len /\ copy.time >= source.time
        BY DEF Fresh
    <2>2. /\ copy.len \in Int /\ copy.time \in Int /\ copy.build \in Int
          /\ source.len \in Int /\ source.time \in Int /\ source.build \in Int
        BY <2>1, CopyAssumption DEF CopyTypeOK, File
    <2>3. copy.len <= copy.build /\ copy.build <= source.build
        BY <2>1 DEF CopyFacts, Dated
    <2>4. ~setting.midCopy => copy.time <= copy.build
        BY <2>1 DEF CopyFacts, Stamped
    <2> QED BY <2>1, <2>2, <2>3, <2>4
<1> QED BY <1>1, HomeInvariant, PTL
=============================================================================

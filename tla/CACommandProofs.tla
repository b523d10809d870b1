--------------------------- MODULE CACommandProofs ----------------------------
(***************************************************************************)
(* Theorems about CACommand for any number of runs that do not overlap:    *)
(* whatever fails or is killed, the files of a run that has finished and   *)
(* the root it used stay.  (Runs that overlap break this: see the          *)
(* configuration CAConcurrent.)                                            *)
(***************************************************************************)
EXTENDS CACommand, TLAPS

\* The writing half of a run, from the first os.Stat on.
Writing == {"statCrt", "statKey", "makeDir", "openCrt", "writeCrt", "openKey", "writeKey",
            "remove"}

\* A run is an init or an issue from its start on, and only an issue reads.
CommandInv ==
    \A r \in Runs : /\ at[r] = "idle" <=> cmd[r] = "none"
                    /\ at[r] \in {"readCrt", "readKey", "sign"} => cmd[r] = "issue"

\* A run that has signed has both halves of the CA.
KeyInv ==
    \A r \in Runs : cmd[r] = "issue" /\ at[r] \in Writing \cup {"done"}
                      => caCrt[r] \in Runs /\ caKey[r] = caCrt[r]

OneAtATime == \A q, r \in Runs : at[q] \notin Ended /\ at[r] \notin Ended => q = r

\* What a run has found and written so far, if nobody else writes.
WrittenInv ==
    \A r \in Runs :
      LET crt == files[Dir(r)]["crt"]
          key == files[Dir(r)]["key"]
      IN  /\ at[r] = "statKey" => crt = "absent"
          /\ at[r] \in {"makeDir", "openCrt"} => crt = "absent" /\ key = "absent"
          /\ at[r] = "writeCrt" => crt = "torn" /\ key = "absent"
          /\ at[r] = "openKey" => crt = r /\ key = "absent"
          /\ at[r] = "writeKey" => crt = r /\ key = "torn"
          /\ at[r] = "remove" => crt = r /\ key \in {"absent", "torn"}

\* What an issue has read is still there, and what it has signed with stays.
ReadInv ==
    \A r \in Runs :
      /\ at[r] \in {"readKey", "sign"} => caCrt[r] = files["ca"]["crt"]
      /\ at[r] = "sign" => caKey[r] = files["ca"]["key"]
      /\ cmd[r] = "issue" /\ at[r] \in Writing \cup {"done"}
           => files["ca"]["crt"] = caKey[r] /\ files["ca"]["key"] = caKey[r]

\* CreatedKept, file by file.
KeptInv ==
    \A r \in Runs : at[r] = "done" => files[Dir(r)]["crt"] = r /\ files[Dir(r)]["key"] = r

\* The part that holds for overlapping runs too.
CABasic == CATypeOK /\ CommandInv /\ KeyInv

CAInv == CABasic /\ OneAtATime /\ WrittenInv /\ ReadInv /\ KeptInv

\* The command starts with the invariant.
LEMMA CAInitInv == CAInit => CAInv
<1> SUFFICES ASSUME CAInit PROVE CAInv
  OBVIOUS
<1> USE CAAssumption DEF CAInit, Ended, Writing
<1>1. CATypeOK
  BY DEF CATypeOK, Contents
<1>2. CommandInv /\ KeyInv /\ OneAtATime
  BY DEF CommandInv, KeyInv, OneAtATime
<1>3. WrittenInv /\ ReadInv /\ KeptInv
  BY DEF WrittenInv, ReadInv, KeptInv
<1> QED
  BY <1>1, <1>2, <1>3 DEF CAInv, CABasic

\* What a single run may do.
RunStep(r) == \/ Start(r) \/ ReadCrt(r) \/ ReadKey(r) \/ Sign(r) \/ Stat(r) \/ MakeDir(r)
              \/ WriteCrt(r) \/ WriteKey(r) \/ RemoveCrt(r) \/ Kill(r)

\* Every step keeps types and commands, whether or not runs overlap.
LEMMA BasicRunInv ==
    ASSUME CABasic, NEW r \in Runs, RunStep(r)
    PROVE  CABasic'
<1> USE CAAssumption DEF CABasic, CATypeOK, Contents, Ended, CommandInv, KeyInv, Writing, Go
<1>1. CASE Start(r)
  BY <1>1 DEF Start, Dir
<1>2. CASE ReadCrt(r)
  BY <1>2 DEF ReadCrt, Dir
<1>3. CASE ReadKey(r)
  BY <1>3 DEF ReadKey, Dir, Permitted
<1>4. CASE Sign(r)
  BY <1>4 DEF Sign, Dir, UsableCA
<1>5. CASE Stat(r)
  BY <1>5 DEF Stat, Dir
<1>6. CASE MakeDir(r)
  BY <1>6 DEF MakeDir, Dir
<1>7. CASE WriteCrt(r)
  BY <1>7 DEF WriteCrt, Dir, Put
<1>8. CASE WriteKey(r)
  BY <1>8 DEF WriteKey, Dir, Put
<1>9. CASE RemoveCrt(r)
  BY <1>9 DEF RemoveCrt, Dir, Put
<1>10. CASE Kill(r)
  BY <1>10 DEF Kill, Dir
<1> QED
  BY <1>1, <1>2, <1>3, <1>4, <1>5, <1>6, <1>7, <1>8, <1>9, <1>10 DEF RunStep

\* A step of one run among runs that do not overlap: nobody else is between its
\* checks and its writes, and whoever writes has found the directory without the
\* files that a finished run has left there.
LEMMA SerialRunInv ==
    ASSUME CAInv, Serial, NEW r \in Runs, RunStep(r)
    PROVE  OneAtATime' /\ WrittenInv' /\ ReadInv' /\ KeptInv'
<1>0. \A q \in Runs : q # r => at[q] \in Ended /\ at'[q] = at[q]
  BY DEF CAInv, CABasic, CATypeOK, OneAtATime, RunStep, Start, ReadCrt, ReadKey, Sign, Stat, MakeDir,
         WriteCrt, WriteKey, RemoveCrt, Kill, Go, Ended
<1>1. OneAtATime'
  BY <1>0 DEF OneAtATime
<1> USE <1>0, CAAssumption
    DEF CAInv, CABasic, CATypeOK, Contents, Ended, Writing, Go
<1>2. CASE Start(r)
  <2>1. WrittenInv'
    BY <1>2 DEF Start, Dir, WrittenInv, CommandInv
  <2>2. ReadInv'
    BY <1>2 DEF Start, Dir, WrittenInv, ReadInv, CommandInv, KeyInv
  <2>3. KeptInv'
    BY <1>2 DEF Start, Dir, WrittenInv, KeptInv, CommandInv
  <2> QED
    BY <1>1, <2>1, <2>2, <2>3
<1>3. CASE ReadCrt(r)
  <2>1. WrittenInv'
    BY <1>3 DEF ReadCrt, Dir, WrittenInv, CommandInv
  <2>2. ReadInv'
    BY <1>3 DEF ReadCrt, Dir, WrittenInv, ReadInv, CommandInv, KeyInv
  <2>3. KeptInv'
    BY <1>3 DEF ReadCrt, Dir, WrittenInv, KeptInv, CommandInv
  <2> QED
    BY <1>1, <2>1, <2>2, <2>3
<1>4. CASE ReadKey(r)
  <2>1. WrittenInv'
    BY <1>4 DEF ReadKey, Dir, WrittenInv, CommandInv, Permitted
  <2>2. ReadInv'
    BY <1>4 DEF ReadKey, Dir, WrittenInv, ReadInv, CommandInv, KeyInv, Permitted
  <2>3. KeptInv'
    BY <1>4 DEF ReadKey, Dir, WrittenInv, KeptInv, CommandInv, Permitted
  <2> QED
    BY <1>1, <2>1, <2>2, <2>3
<1>5. CASE Sign(r)
  <2>1. WrittenInv'
    BY <1>5 DEF Sign, Dir, WrittenInv, CommandInv, UsableCA
  <2>2. ReadInv'
    BY <1>5 DEF Sign, Dir, WrittenInv, ReadInv, CommandInv, KeyInv, UsableCA
  <2>3. KeptInv'
    BY <1>5 DEF Sign, Dir, WrittenInv, KeptInv, CommandInv, UsableCA
  <2> QED
    BY <1>1, <2>1, <2>2, <2>3
<1>6. CASE Stat(r)
  <2>1. WrittenInv'
    BY <1>6 DEF Stat, Dir, WrittenInv, CommandInv
  <2>2. ReadInv'
    BY <1>6 DEF Stat, Dir, WrittenInv, ReadInv, CommandInv, KeyInv
  <2>3. KeptInv'
    BY <1>6 DEF Stat, Dir, WrittenInv, KeptInv, CommandInv
  <2> QED
    BY <1>1, <2>1, <2>2, <2>3
<1>7. CASE MakeDir(r)
  <2>1. WrittenInv'
    BY <1>7 DEF MakeDir, Dir, WrittenInv, CommandInv
  <2>2. ReadInv'
    BY <1>7 DEF MakeDir, Dir, WrittenInv, ReadInv, CommandInv, KeyInv
  <2>3. KeptInv'
    BY <1>7 DEF MakeDir, Dir, WrittenInv, KeptInv, CommandInv
  <2> QED
    BY <1>1, <2>1, <2>2, <2>3
<1>8. CASE WriteCrt(r)
  <2>1. WrittenInv'
    BY <1>8 DEF WriteCrt, Dir, WrittenInv, CommandInv, Put
  <2>2. ReadInv'
    BY <1>8 DEF WriteCrt, Dir, WrittenInv, ReadInv, CommandInv, KeyInv, Put
  <2>3. KeptInv'
    BY <1>8 DEF WriteCrt, Dir, WrittenInv, KeptInv, CommandInv, Put
  <2> QED
    BY <1>1, <2>1, <2>2, <2>3
<1>9. CASE WriteKey(r)
  <2>1. WrittenInv'
    BY <1>9 DEF WriteKey, Dir, WrittenInv, CommandInv, Put
  <2>2. ReadInv'
    BY <1>9 DEF WriteKey, Dir, WrittenInv, ReadInv, CommandInv, KeyInv, Put
  <2>3. KeptInv'
    BY <1>9 DEF WriteKey, Dir, WrittenInv, KeptInv, CommandInv, Put
  <2> QED
    BY <1>1, <2>1, <2>2, <2>3
<1>10. CASE RemoveCrt(r)
  <2>1. WrittenInv'
    BY <1>10 DEF RemoveCrt, Dir, WrittenInv, CommandInv, Put
  <2>2. ReadInv'
    BY <1>10 DEF RemoveCrt, Dir, WrittenInv, ReadInv, CommandInv, KeyInv, Put
  <2>3. KeptInv'
    BY <1>10 DEF RemoveCrt, Dir, WrittenInv, KeptInv, CommandInv, Put
  <2> QED
    BY <1>1, <2>1, <2>2, <2>3
<1>11. CASE Kill(r)
  <2>1. WrittenInv'
    BY <1>11 DEF Kill, Dir, WrittenInv, CommandInv
  <2>2. ReadInv'
    BY <1>11 DEF Kill, Dir, WrittenInv, ReadInv, CommandInv, KeyInv
  <2>3. KeptInv'
    BY <1>11 DEF Kill, Dir, WrittenInv, KeptInv, CommandInv
  <2> QED
    BY <1>1, <2>1, <2>2, <2>3
<1> QED
  BY <1>2, <1>3, <1>4, <1>5, <1>6, <1>7, <1>8, <1>9, <1>10, <1>11 DEF RunStep

\* Every step keeps types and commands, and, if runs do not overlap, the rest.
LEMMA CANextInv ==
    /\ CABasic /\ [CANext]_caVars => CABasic'
    /\ CAInv /\ Serial /\ [CANext]_caVars => CAInv'
<1>1. ASSUME CABasic, [CANext]_caVars PROVE CABasic'
  <2>1. CASE UNCHANGED caVars
    BY <1>1, <2>1 DEF caVars, CABasic, CATypeOK, CommandInv, KeyInv
  <2>2. CASE Chmod
    BY <1>1, <2>2 DEF Chmod, CABasic, CATypeOK, CommandInv, KeyInv
  <2> QED
    BY <1>1, <2>1, <2>2, BasicRunInv DEF CANext, RunStep
<1>2. ASSUME CAInv, Serial, [CANext]_caVars PROVE CAInv'
  <2>1. CASE UNCHANGED <<files, cmd, at, caCrt, caKey>>
    BY <1>1, <1>2, <2>1 DEF CAInv, OneAtATime, WrittenInv, ReadInv, KeptInv, Dir
  <2>2. ASSUME NEW r \in Runs, RunStep(r) PROVE CAInv'
    BY <1>1, <1>2, <2>2, SerialRunInv DEF CAInv
  <2> QED
    BY <1>2, <2>1, <2>2 DEF CANext, RunStep, Chmod, caVars
<1> QED
  BY <1>1, <1>2

\* Type correctness, for runs that overlap too: nothing is ever signed with the
\* remains of a key.
THEOREM CATypeCorrect == CASpec => []CATypeOK
<1>1. CAInit => CABasic
  BY CAInitInv DEF CAInv
<1>2. CABasic => CATypeOK
  BY DEF CABasic
<1> QED
  BY <1>1, <1>2, CANextInv, PTL DEF CASpec

\* The invariant of runs that do not overlap.
LEMMA CAInvariant == ASSUME Serial PROVE CASpec => []CAInv
<1>1. CAInv /\ [CANext]_caVars => CAInv'
  BY CANextInv
<1> QED
  BY <1>1, CAInitInv, PTL DEF CASpec

\* What a run has reported as created is never replaced or damaged by later runs,
\* failed and killed ones included.
THEOREM CACreatedKept == ASSUME Serial PROVE CASpec => []CreatedKept
<1>1. CAInv => CreatedKept
  <2> SUFFICES ASSUME CAInv, NEW r \in Runs, at[r] = "done"
               PROVE  files[Dir(r)] = [f \in {"crt", "key"} |-> r]
    BY DEF CreatedKept
  <2>1. files[Dir(r)] \in [{"crt", "key"} -> Contents]
    BY DEF CAInv, CABasic, CATypeOK, Dir
  <2> QED
    BY <2>1 DEF CAInv, KeptInv
<1> QED
  BY <1>1, CAInvariant, PTL

\* The root that has signed a certificate stays on disk.
THEOREM CAChainVerifies == ASSUME Serial PROVE CASpec => []ChainVerifies
<1>1. CAInv => ChainVerifies
  BY DEF CAInv, ReadInv, ChainVerifies
<1> QED
  BY <1>1, CAInvariant, PTL

==============================================================================

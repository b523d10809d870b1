------------------------------ MODULE CACommand -------------------------------
(***************************************************************************)
(* The certificate authority command (cmd/ca, ca/pki.go): runs of `init`   *)
(* and `issue` over the files ca.crt, ca.key and tls.crt, tls.key, with    *)
(* writes that fail and runs that are killed between any two steps.        *)
(*                                                                         *)
(* A certificate or key is the run that generated it, so two files match   *)
(* when they hold the same run.  os.WriteFile creates or truncates the     *)
(* file and then writes it; in between it is torn, and a failed write      *)
(* leaves it so.  Cryptography, validity and names are left out.           *)
(***************************************************************************)

CONSTANTS
    Runs,        \* executions of the command
    Serial       \* no run starts before the others have ended

ASSUME CAAssumption == Serial \in BOOLEAN /\ {"absent", "torn"} \cap Runs = {}

VARIABLES
    files,       \* files[d][f]: contents of file f in directory d
    loose,       \* ca.key is readable by others
    cmd,         \* cmd[r]: which command r is
    at,          \* at[r]: where r is
    caCrt,       \* caCrt[r], caKey[r]: what r has read of the CA
    caKey

caVars == <<files, loose, cmd, at, caCrt, caKey>>

Contents == {"absent", "torn"} \cup Runs

Ended == {"idle", "done", "failed", "killed"}

CAInit == /\ files = [d \in {"ca", "out"} |-> [f \in {"crt", "key"} |-> "absent"]]
          /\ loose = FALSE
          /\ cmd = [r \in Runs |-> "none"]
          /\ at = [r \in Runs |-> "idle"]
          /\ caCrt = [r \in Runs |-> "absent"]
          /\ caKey = [r \in Runs |-> "absent"]

Dir(r) == IF cmd[r] = "init" THEN "ca" ELSE "out"

Go(r, from, to) == at[r] = from /\ at' = [at EXCEPT ![r] = to]

-----------------------------------------------------------------------------

\* CompleteArgs and Execute
Start(r) ==
    /\ Serial => \A q \in Runs : at[q] \in Ended
    /\ \/ Go(r, "idle", "statCrt") /\ cmd' = [cmd EXCEPT ![r] = "init"]
       \/ Go(r, "idle", "readCrt") /\ cmd' = [cmd EXCEPT ![r] = "issue"]
    /\ UNCHANGED <<files, loose, caCrt, caKey>>

\* executeIssue: os.ReadFile of ca.crt
ReadCrt(r) ==
    /\ Go(r, "readCrt", IF files["ca"]["crt"] = "absent" THEN "failed" ELSE "readKey")
    /\ caCrt' = [caCrt EXCEPT ![r] = files["ca"]["crt"]]
    /\ UNCHANGED <<files, loose, cmd, caKey>>

\* CheckPrivateKeyPermissions; a key that is not there has none.
Permitted == ~loose /\ files["ca"]["key"] # "absent"

\* The check, and os.ReadFile of ca.key.
ReadKey(r) ==
    /\ Go(r, "readKey", IF Permitted THEN "sign" ELSE "failed")
    /\ caKey' = [caKey EXCEPT ![r] = files["ca"]["key"]]
    /\ UNCHANGED <<files, loose, cmd, caCrt>>

\* Fault: the certificate is parsed, the key is taken as it is.
UsableCAUnchecked(r) == caCrt[r] # "torn"

\* parseCAKeyPair takes both; CreateCertificate refuses a key that is not the
\* parent's.
UsableCA(r) == caCrt[r] \in Runs /\ caKey[r] = caCrt[r]

\* IssueCert; an invalid -addr is another way to fail.
Sign(r) ==
    /\ \/ Go(r, "sign", "failed")
       \/ UsableCA(r) /\ Go(r, "sign", "statCrt")
    /\ UNCHANGED <<files, loose, cmd, caCrt, caKey>>

\* Fault: existing files are not looked for.
StatSkipped(r) ==
    /\ \/ Go(r, "statCrt", "statKey")
       \/ Go(r, "statKey", "makeDir")
    /\ UNCHANGED <<files, loose, cmd, caCrt, caKey>>

\* os.Stat of both files, "refusing to overwrite"
Stat(r) ==
    /\ \/ Go(r, "statCrt", IF files[Dir(r)]["crt"] # "absent" THEN "failed" ELSE "statKey")
       \/ Go(r, "statKey", IF files[Dir(r)]["key"] # "absent" THEN "failed" ELSE "makeDir")
    /\ UNCHANGED <<files, loose, cmd, caCrt, caKey>>

\* GenerateCA (in init) and MkdirAll
MakeDir(r) ==
    /\ Go(r, "makeDir", "openCrt") \/ Go(r, "makeDir", "failed")
    /\ UNCHANGED <<files, loose, cmd, caCrt, caKey>>

Put(r, f, c) == files' = [files EXCEPT ![Dir(r)][f] = c]

\* writeKeyPair, the certificate
WriteCrt(r) ==
    /\ \/ Go(r, "openCrt", "writeCrt") /\ Put(r, "crt", "torn")
       \/ Go(r, "openCrt", "failed") /\ UNCHANGED files
       \/ Go(r, "writeCrt", "openKey") /\ Put(r, "crt", r)
       \/ Go(r, "writeCrt", "failed") /\ UNCHANGED files
    /\ UNCHANGED <<loose, cmd, caCrt, caKey>>

\* Fault: the failure to write the key is not reported.
WriteKeyUnchecked(r) ==
    /\ \/ Go(r, "openKey", "writeKey") /\ Put(r, "key", "torn")
       \/ Go(r, "openKey", "done") /\ UNCHANGED files
       \/ Go(r, "writeKey", "done") /\ Put(r, "key", r)
       \/ Go(r, "writeKey", "done") /\ UNCHANGED files
    /\ UNCHANGED <<loose, cmd, caCrt, caKey>>

\* writeKeyPair, the key
WriteKey(r) ==
    /\ \/ Go(r, "openKey", "writeKey") /\ Put(r, "key", "torn")
       \/ Go(r, "openKey", "remove") /\ UNCHANGED files
       \/ Go(r, "writeKey", "done") /\ Put(r, "key", r)
       \/ Go(r, "writeKey", "remove") /\ UNCHANGED files
    /\ UNCHANGED <<loose, cmd, caCrt, caKey>>

\* os.Remove of the certificate whose key could not be written
RemoveCrt(r) ==
    /\ Go(r, "remove", "failed")
    /\ Put(r, "crt", "absent")
    /\ UNCHANGED <<loose, cmd, caCrt, caKey>>

Kill(r) ==
    /\ at[r] \notin Ended
    /\ at' = [at EXCEPT ![r] = "killed"]
    /\ UNCHANGED <<files, loose, cmd, caCrt, caKey>>

\* "a backup restore, a misconfigured deployment, or a stray chmod"
Chmod ==
    /\ files["ca"]["key"] # "absent"
    /\ loose' = ~loose
    /\ UNCHANGED <<files, cmd, at, caCrt, caKey>>

-----------------------------------------------------------------------------

CANext == \/ \E r \in Runs : \/ Start(r) \/ ReadCrt(r) \/ ReadKey(r) \/ Sign(r) \/ Stat(r)
                             \/ MakeDir(r) \/ WriteCrt(r) \/ WriteKey(r) \/ RemoveCrt(r)
                             \/ Kill(r)
          \/ Chmod

CASpec == CAInit /\ [][CANext]_caVars

-----------------------------------------------------------------------------
(* Properties.                                                             *)

\* Every variable has the type its counterpart has; what has been signed was
\* signed with a key, not with the remains of one.
CATypeOK ==
    /\ files \in [{"ca", "out"} -> [{"crt", "key"} -> Contents]]
    /\ loose \in BOOLEAN
    /\ cmd \in [Runs -> {"none", "init", "issue"}]
    /\ at \in [Runs -> Ended \cup {"readCrt", "readKey", "sign", "statCrt", "statKey", "makeDir",
                                   "openCrt", "writeCrt", "openKey", "writeKey", "remove"}]
    /\ caCrt \in [Runs -> Contents] /\ caKey \in [Runs -> Contents]
    /\ \A r \in Runs : cmd[r] = "issue" /\ at[r] \in {"statKey", "openCrt", "done"} => caKey[r] \in Runs

\* What a run has reported as created is on disk, complete and matching, for good:
\* later runs, failed and killed ones included, neither replace nor damage it.
\* This is what the command means by "refusing to overwrite your root of trust".
CreatedKept ==
    \A r \in Runs : at[r] = "done" => files[Dir(r)] = [f \in {"crt", "key"} |-> r]

\* A certificate that was issued is verified by the root on disk: no failed, killed
\* or repeated init has put another root in its place.
ChainVerifies ==
    \A r \in Runs : cmd[r] = "issue" /\ at[r] = "done" => files["ca"]["crt"] = caKey[r]

\* "a failed init/issue doesn't leave a half-written, keyless certificate behind"
NoKeylessCertificate ==
    \A r \in Runs : at[r] = "failed" /\ (\A q \in Runs \ {r} : at[q] = "idle")
        => ~(files[Dir(r)]["crt"] # "absent" /\ files[Dir(r)]["key"] = "absent")

==============================================================================

------------------------ MODULE CertificateAuthority ------------------------
(***************************************************************************)
(* marsala mitm ca init: init_ca (src/crates/marsala/src/certs.rs).        *)
(*                                                                         *)
(* The certificate and the key are two files.  Each is made by create_new, *)
(* empty, and then written; between any two steps the process may be       *)
(* killed, another may run, and the operator may delete a file.            *)
(***************************************************************************)
EXTENDS Naturals, FiniteSets

CONSTANT Runs         \* the processes that run init_ca

ASSUME RunsAssumption == "nobody" \notin Runs

VARIABLES
  at,         \* what a run does next; "end" when it returned or was killed
  cert,       \* the file at ca_cert_path
  key,        \* the file at ca_key_path
  disturbed   \* history: a file was deleted while a run was under way

authority == <<at, cert, key, disturbed>>

NoFile == [of |-> "nobody", whole |-> FALSE]
Empty(r) == [of |-> r, whole |-> FALSE]
Whole(r) == [of |-> r, whole |-> TRUE]

AuthorityInit ==
  /\ at = [r \in Runs |-> "cert absent"]
  /\ cert = NoFile /\ key = NoFile /\ disturbed = FALSE

Goes(r, from, to) == at[r] = from /\ at' = [at EXCEPT ![r] = to]

\* ensure_target_absent: a file there, whole or not, ends the run.
FindAbsent(r, file, from, to) == Goes(r, from, IF file = NoFile THEN to ELSE "end")

CertAbsent(r) ==
  /\ FindAbsent(r, cert, "cert absent", "key absent")
  /\ UNCHANGED <<cert, key, disturbed>>

\* Mutant: only the certificate is looked for.
KeyUnseen(r) ==
  /\ Goes(r, "key absent", "create cert")
  /\ UNCHANGED <<cert, key, disturbed>>

\* The directories are made and the pair is generated; either may fail.
KeyAbsent(r) ==
  /\ \/ FindAbsent(r, key, "key absent", "create cert")
     \/ Goes(r, "key absent", "end")
  /\ UNCHANGED <<cert, key, disturbed>>

\* Mutant: the file is opened with create and truncate.
Openable(file) == TRUE

\* create_new: a file that is there, whole or not, is left as it is.
Creatable(file) == file = NoFile

\* write_new_public_file, write_new_private_file.
CreateCert(r) ==
  /\ IF Creatable(cert)
     THEN Goes(r, "create cert", "write cert") /\ cert' = Empty(r)
     ELSE Goes(r, "create cert", "end") /\ UNCHANGED cert
  /\ UNCHANGED <<key, disturbed>>

\* A file that was deleted is written where nobody finds it.
WriteCert(r) ==
  /\ Goes(r, "write cert", "create key")
  /\ cert' = IF cert = Empty(r) THEN Whole(r) ELSE cert
  /\ UNCHANGED <<key, disturbed>>

CreateKey(r) ==
  /\ IF Creatable(key)
     THEN Goes(r, "create key", "write key") /\ key' = Empty(r)
     ELSE Goes(r, "create key", "end") /\ UNCHANGED key
  /\ UNCHANGED <<cert, disturbed>>

WriteKey(r) ==
  /\ Goes(r, "write key", "end")
  /\ key' = IF key = Empty(r) THEN Whole(r) ELSE key
  /\ UNCHANGED <<cert, disturbed>>

\* An error of the file system, or a kill: what was done stays.
StopRun(r) ==
  /\ at[r] # "end" /\ at' = [at EXCEPT ![r] = "end"]
  /\ UNCHANGED <<cert, key, disturbed>>

Delete ==
  /\ \/ cert # NoFile /\ cert' = NoFile /\ key' = key
     \/ key # NoFile /\ key' = NoFile /\ cert' = cert
  /\ disturbed' = (disturbed \/ \E r \in Runs : at[r] \notin {"cert absent", "end"})
  /\ UNCHANGED at

AuthorityNext ==
  \/ \E r \in Runs :
       \/ CertAbsent(r) \/ KeyAbsent(r) \/ CreateCert(r) \/ WriteCert(r)
       \/ CreateKey(r) \/ WriteKey(r) \/ StopRun(r)
  \/ Delete

AuthoritySpec == AuthorityInit /\ [][AuthorityNext]_authority

-----------------------------------------------------------------------------
\* A key that is whole is the key of the certificate, however many runs there
\* were at a time, wherever they were stopped, and whatever was deleted in
\* between: a run that is sure of two free names has both or leaves one file
\* that stops the next.
PairMatches == ~disturbed /\ key # NoFile /\ cert # NoFile => key.of = cert.of

=============================================================================

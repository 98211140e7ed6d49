----------------------------- MODULE Certificates -----------------------------
(***************************************************************************)
(* How the server comes by its certificates each time it starts            *)
(* (wormhole/Program.cs, CertificateHelper.cs): a root and a certificate   *)
(* issued by it are read from files, or made and written to files, one     *)
(* write after the other, and none of them atomic.  The server may be      *)
(* stopped at any point, and writes may fail, which nobody looks at.       *)
(***************************************************************************)
EXTENDS Integers

CONSTANTS Names,           \* names and addresses a machine may have
          PartOf,          \* <<n, m>>: the text of n is part of that of m
          Day, Year,       \* the margin and the life of a certificate
          RootYears,       \* the life of a root
          Zone,            \* local time less UTC
          Failures,        \* sets of files that may fail to be written
          MaxTime,         \* bound: how late it gets
          MaxIssued,       \* bound: certificates ever made
          None,            \* null, or no file
          Torn             \* what is in a file that was cut short

ASSUME LivesAssumption == {Day, Year, RootYears} \subseteq Nat \ {0}
ASSUME ZoneAssumption == Zone \in Int

Issued == [key : Nat, issuer : Nat, names : SUBSET Names,
           notBefore : Int, notAfter : Int]

ASSUME AbsentAssumption == {None, Torn} \cap Issued = {}

Files == {"ca.pfx", "ca.cer", "cer", "pfx", "pem", "key"}

ASSUME FailuresAssumption == Failures \subseteq SUBSET Files

VARIABLES files,           \* what is in each file: a certificate, Torn, None
          failing,         \* the files that may fail to be written
          store,           \* the certificates installed as trusted
          now,             \* the time, UTC
          names,           \* the names and addresses of the machine
          issued,          \* how many certificates were made
          root,            \* rootCertificate
          certificate,     \* certificate
          at               \* where Program.cs is

vars == <<files, failing, store, now, names, issued, root, certificate, at>>

\* The order of the writes, and what follows each.
After(file) ==
  CASE file = "ca.pfx" -> "ca.cer"
    [] file = "ca.cer" -> "import"
    [] file = "cer" -> "pfx"
    [] file = "pfx" -> "pem"
    [] file = "pem" -> "key"
    [] file = "key" -> "verify"

Init ==
  /\ files = [f \in Files |-> None]
  /\ failing \in Failures
  /\ store = {}
  /\ now = 0
  /\ names \in (SUBSET Names) \ {{}}
  /\ issued = 0
  /\ root = None /\ certificate = None
  /\ at = "down"

\* Mutant: a file that was cut short is read as well.
TryImport_Unchecked(file) == files[file]

\* What is read from a file: nothing when it is missing or cut short.
TryImport(file) == IF files[file] = Torn THEN None ELSE files[file]

\* Names are looked for in the text of the certificate's names.
Covers(c) == \A n \in names : \E m \in c.names : n = m \/ <<n, m>> \in PartOf

\* NotAfter is in local time and compared with UTC.
Validate(c) == now <= c.notAfter + Zone /\ Covers(c)

EarlierOf(a, b) == IF a < b THEN a ELSE b
LaterOf(a, b) == IF a > b THEN a ELSE b

-----------------------------------------------------------------------------
\* Mutant: a root is only taken when it will last for another year.
StartUp_RenewsRoot ==
  /\ at = "down"
  /\ root' = TryImport("ca.pfx")
  /\ at' = IF root' = None \/ now + Year > root'.notAfter THEN "root" ELSE "import"
  /\ UNCHANGED <<files, failing, store, now, names, issued, certificate>>

StartUp ==
  /\ at = "down"
  /\ root' = TryImport("ca.pfx")
  /\ at' = IF root' = None THEN "root" ELSE "import"
  /\ UNCHANGED <<files, failing, store, now, names, issued, certificate>>

CreateRoot ==
  /\ at = "root" /\ issued < MaxIssued
  /\ issued' = issued + 1
  /\ root' = [key |-> issued', issuer |-> issued', names |-> {},
              notBefore |-> now - Day, notAfter |-> now + RootYears]
  /\ at' = "ca.pfx"
  /\ UNCHANGED <<files, failing, store, now, names, certificate>>

Import ==
  /\ at = "import"
  /\ certificate' = TryImport("pfx")
  /\ at' = IF certificate' # None /\ Validate(certificate')
             THEN "verify" ELSE "create"
  /\ UNCHANGED <<files, failing, store, now, names, issued, root>>

\* Mutant: the certificate may outlive its root.
ValidUntil_Year == now + Year

ValidUntil == EarlierOf(root.notAfter, now + Year)

Child == [key |-> issued + 1, issuer |-> root.key, names |-> names,
          notBefore |-> LaterOf(root.notBefore, now - Day),
          notAfter |-> ValidUntil]

\* What the library refuses to issue.
Refused(c) ==
  \/ c.notAfter < c.notBefore
  \/ c.notAfter > root.notAfter
  \/ c.notBefore < root.notBefore

\* The exception ends the program.
Create ==
  /\ at = "create" /\ issued < MaxIssued
  /\ IF Refused(Child)
       THEN /\ at' = "failed"
            /\ UNCHANGED <<issued, certificate>>
       ELSE /\ certificate' = Child
            /\ issued' = issued + 1
            /\ at' = "cer"
  /\ UNCHANGED <<files, failing, store, now, names, root>>

\* One write; when it fails the file is as it was or cut short, and the
\* result of TryExport is not looked at.
TryExport(file) ==
  /\ at = file
  /\ LET c == IF file \in {"ca.pfx", "ca.cer"} THEN root ELSE certificate
     IN  \/ files' = [files EXCEPT ![file] = c]
         \/ /\ file \in failing
            /\ files' \in {files, [files EXCEPT ![file] = Torn]}
  /\ at' = After(file)
  /\ UNCHANGED <<failing, store, now, names, issued, root, certificate>>

\* Whether a certificate verifies is for the machine to say.
Verify ==
  /\ at = "verify"
  /\ store' \in {store, store \union {certificate}}
  /\ at' = "serving"
  /\ UNCHANGED <<files, failing, now, names, issued, root, certificate>>

\* The process ends at any point; a file being written is whole, as it was,
\* or cut short.
Stop ==
  /\ at # "down"
  /\ files' \in {files} \union
                (IF at \in Files THEN {[files EXCEPT ![at] = Torn]} ELSE {})
  /\ at' = "down"
  /\ root' = None /\ certificate' = None
  /\ UNCHANGED <<failing, store, now, names, issued>>

\* Time passes.
Pass ==
  /\ now < MaxTime
  /\ now' = now + 1
  /\ UNCHANGED <<files, failing, store, names, issued, root, certificate, at>>

\* The machine gets other names and addresses while the server is down.
Rename ==
  /\ at = "down"
  /\ names' \in (SUBSET Names) \ {{}, names}
  /\ UNCHANGED <<files, failing, store, now, issued, root, certificate, at>>

Next ==
  \/ StartUp \/ CreateRoot \/ Import \/ Create
  \/ \E file \in Files : TryExport(file)
  \/ Verify \/ Stop
  \/ Pass \/ Rename

Spec == Init /\ [][Next]_vars

-----------------------------------------------------------------------------
Locations ==
  Files \union {"down", "root", "import", "create", "verify", "serving", "failed"}

\* The server only serves with a root and a certificate at hand, and no two
\* certificates have the same key.
TypeOK ==
  /\ files \in [Files -> Issued \union {Torn, None}] /\ failing \subseteq Files
  /\ store \subseteq Issued
  /\ now \in Nat /\ names \in (SUBSET Names) \ {{}} /\ issued \in Nat
  /\ root \in Issued \union {None} /\ certificate \in Issued \union {None}
  /\ at \in Locations
  /\ at \in {"verify", "serving"} => root # None /\ certificate # None
  /\ \A f, g \in Files :
       files[f] \in Issued /\ files[g] \in Issued /\ files[f].key = files[g].key
       => files[f] = files[g]

\* Wherever earlier starts were stopped, the certificate served was issued by
\* the root that is kept in wormhole-ca.pfx (Program.cs:9 comes before 16), as
\* long as that file can be written.
ServedChains ==
  at = "serving" /\ "ca.pfx" \notin failing =>
    files["ca.pfx"] \in Issued /\ certificate.issuer = files["ca.pfx"].key

\* Wherever earlier starts were stopped and whatever was not written, a start
\* ends with an exception only when the root has expired for a day and more
\* (CertificateHelper.cs:91-93).
FailsOnlyExpired == at = "failed" => now > root.notAfter + Day

\* A root that can be read is never replaced by another: the users have
\* installed it (Program.cs:6).
RootKept ==
  [][files["ca.pfx"] \in Issued => files'["ca.pfx"] = files["ca.pfx"]]_vars
=============================================================================

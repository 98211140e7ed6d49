-------------------------- MODULE CertificatesProofs --------------------------
(***************************************************************************)
(* What the server's starts keep to, wherever earlier ones were stopped,   *)
(* whichever files cannot be written, and whatever the machine is called:  *)
(* for any names, lives of certificates and difference to UTC.             *)
(***************************************************************************)
EXTENDS Certificates, TLAPS

\* The certificates there are, in files or in the program.
Kept == {files[f] : f \in Files} \cup {root, certificate}

Types ==
  /\ files \in [Files -> Issued \cup {Torn, None}] /\ failing \subseteq Files
  /\ store \subseteq Issued
  /\ now \in Nat /\ names \in (SUBSET Names) \ {{}} /\ issued \in Nat
  /\ root \in Issued \cup {None} /\ certificate \in Issued \cup {None}
  /\ at \in Locations

\* What the program has at hand where it is.
AtHand ==
  /\ at \in Locations \ {"down", "root"} => root \in Issued
  /\ at \in {"cer", "pfx", "pem", "key", "verify", "serving"} =>
       certificate \in Issued

\* Keys are numbered through, so two certificates never have the same.
KeysApart ==
  /\ \A c \in Kept \cap Issued : c.key <= issued
  /\ \A c, d \in Kept \cap Issued : c.key = d.key => c = d

(***************************************************************************)
(* A root is only made while there is none to read, and once one is in its *)
(* file it is the one the program uses.                                    *)
(***************************************************************************)
RootRead ==
  /\ at \in {"root", "ca.pfx"} => files["ca.pfx"] \notin Issued
  /\ at \notin {"down", "root", "ca.pfx"} =>
       \/ files["ca.pfx"] = root
       \/ "ca.pfx" \in failing

\* As long as the root's file can be written, the certificate in its file and
\* the one in use were issued by the root in its file.
Chained ==
  "ca.pfx" \notin failing =>
    \A c \in {files["pfx"], certificate} \cap Issued :
      /\ files["ca.pfx"] \in Issued
      /\ c.issuer = files["ca.pfx"].key

\* A root is valid from before it was made, and for longer than a day.
RootsValid ==
  \A c \in {files["ca.pfx"], root} \cap Issued :
    /\ c.notBefore <= now
    /\ c.notBefore <= c.notAfter

CertificatesInv ==
  /\ Types /\ AtHand /\ KeysApart /\ RootRead /\ Chained /\ RootsValid
  /\ FailsOnlyExpired

-----------------------------------------------------------------------------
\* Before the first start there are no files.
LEMMA CertificatesInit == Init => CertificatesInv
BY AbsentAssumption, FailuresAssumption
   DEF Init, CertificatesInv, Types, Files, AtHand, KeysApart, Kept, RootRead,
       Chained, RootsValid, FailsOnlyExpired, Locations

\* What is read from a file is a certificate, and the one in it, or nothing.
LEMMA ReadFromFile ==
  ASSUME Types, NEW file \in Files
  PROVE  /\ TryImport(file) \in Issued \cup {None}
         /\ TryImport(file) # None => TryImport(file) = files[file]
         /\ TryImport(file) = None => files[file] \notin Issued
BY AbsentAssumption DEF Types, TryImport

\* Where nothing is made, keys stay apart: what is kept was kept before.
LEMMA NothingMade ==
  ASSUME KeysApart, UNCHANGED issued, Kept' \cap Issued \subseteq Kept
  PROVE  KeysApart'
BY DEF KeysApart

\* Where one is made, its key is new.
LEMMA OneMade ==
  ASSUME Types, KeysApart, NEW c \in Issued, c.key = issued + 1,
         issued' = issued + 1, Kept' \cap Issued \subseteq Kept \cup {c}
  PROVE  KeysApart'
<1>1. \A d \in Kept \cap Issued : d.key \in Nat /\ d.key <= issued
  BY DEF KeysApart, Issued
<1>2. issued \in Nat
  BY DEF Types
<1>3. \A d \in Kept' \cap Issued : d = c \/ d \in Kept \cap Issued
  OBVIOUS
<1> QED
  BY <1>1, <1>2, <1>3 DEF KeysApart

-----------------------------------------------------------------------------
\* The root is read, or has to be made (Program.cs:9).
LEMMA StartUpKeeps ==
  ASSUME CertificatesInv, StartUp
  PROVE  CertificatesInv'
<1> USE DEF CertificatesInv
<1>1. /\ root' \in Issued \cup {None}
      /\ root' # None => root' = files["ca.pfx"] /\ at' = "import"
      /\ root' = None => files["ca.pfx"] \notin Issued /\ at' = "root"
      /\ UNCHANGED <<files, failing, store, now, names, issued, certificate>>
  BY ReadFromFile DEF StartUp, Files
<1>2. Types' /\ AtHand'
  BY <1>1 DEF Types, Locations, AtHand
<1>3. KeysApart'
  <2>1. Kept' \cap Issued \subseteq Kept
    BY <1>1, AbsentAssumption DEF Kept, Files
  <2> QED
    BY <1>1, <2>1, NothingMade
<1>4. RootRead' /\ Chained' /\ FailsOnlyExpired'
  BY <1>1 DEF RootRead, Chained, FailsOnlyExpired
<1>5. RootsValid'
  BY <1>1, AbsentAssumption DEF RootsValid
<1> QED
  BY <1>2, <1>3, <1>4, <1>5

\* A root is made, valid for years (CertificateHelper.cs:91-100).
LEMMA CreateRootKeeps ==
  ASSUME CertificatesInv, CreateRoot
  PROVE  CertificatesInv'
<1> USE DEF CertificatesInv
<1> DEFINE made == [key |-> issued + 1, issuer |-> issued + 1, names |-> {},
                    notBefore |-> now - Day, notAfter |-> now + RootYears]
<1>1. /\ at = "root" /\ at' = "ca.pfx" /\ root' = made /\ issued' = issued + 1
      /\ UNCHANGED <<files, failing, store, now, names, certificate>>
  BY DEF CreateRoot
<1>2. /\ made \in Issued
      /\ made.notBefore <= now /\ made.notBefore <= made.notAfter
  BY LivesAssumption DEF Types, Issued
<1>3. Types' /\ AtHand'
  BY <1>1, <1>2 DEF Types, Locations, Files, AtHand
<1>4. KeysApart'
  <2>1. Kept' \cap Issued \subseteq Kept \cup {made}
    BY <1>1 DEF Kept
  <2>2. made.key = issued + 1
    OBVIOUS
  <2> HIDE DEF made
  <2> QED
    BY <1>1, <1>2, <2>1, <2>2, OneMade
<1>5. RootRead' /\ Chained' /\ FailsOnlyExpired'
  BY <1>1 DEF RootRead, Chained, FailsOnlyExpired
<1> HIDE DEF made
<1>6. RootsValid'
  BY <1>1, <1>2 DEF RootsValid
<1> QED
  BY <1>3, <1>4, <1>5, <1>6

\* The certificate is read and kept, or another is to be made
\* (CertificateHelper.cs:21-42).
LEMMA ImportKeeps ==
  ASSUME CertificatesInv, Import
  PROVE  CertificatesInv'
<1> USE DEF CertificatesInv
<1>1. /\ at = "import" /\ at' \in {"verify", "create"}
      /\ certificate' \in Issued \cup {None}
      /\ certificate' # None => certificate' = files["pfx"]
      /\ at' = "verify" => certificate' # None
      /\ UNCHANGED <<files, failing, store, now, names, issued, root>>
  BY ReadFromFile DEF Import, Files
<1>2. Types' /\ AtHand'
  BY <1>1 DEF Types, Locations, AtHand
<1>3. KeysApart'
  <2>1. Kept' \cap Issued \subseteq Kept
    BY <1>1, AbsentAssumption DEF Kept, Files
  <2> QED
    BY <1>1, <2>1, NothingMade
<1>4. Chained'
  BY <1>1, AbsentAssumption DEF Chained
<1>5. RootRead' /\ RootsValid' /\ FailsOnlyExpired'
  BY <1>1 DEF RootRead, RootsValid, FailsOnlyExpired, Locations
<1> QED
  BY <1>2, <1>3, <1>4, <1>5

\* The library refuses to issue under a root only if that has expired: else a
\* certificate ends after it begins, and within the root's life.
LEMMA RefusedExpired ==
  ASSUME Types, root \in Issued, root.notBefore <= now,
         root.notBefore <= root.notAfter, Refused(Child)
  PROVE  now > root.notAfter + Day
<1>1. /\ now \in Nat /\ Day \in Nat /\ Year \in Nat
      /\ root.notBefore \in Int /\ root.notAfter \in Int
  BY LivesAssumption DEF Types, Issued
<1> QED
  BY <1>1 DEF Refused, Child, ValidUntil, EarlierOf, LaterOf

LEMMA CreateKeeps ==
  ASSUME CertificatesInv, Create
  PROVE  CertificatesInv'
<1> USE DEF CertificatesInv
<1>1. /\ at = "create" /\ root \in Issued
      /\ UNCHANGED <<files, failing, store, now, names, root>>
  BY DEF Create, AtHand, Locations
<1>2. CASE Refused(Child) /\ at' = "failed" /\ UNCHANGED <<issued, certificate>>
  <2>1. Types' /\ AtHand' /\ RootRead' /\ Chained' /\ RootsValid'
    BY <1>1, <1>2 DEF Types, Locations, AtHand, RootRead, Chained, RootsValid
  <2>2. KeysApart'
    BY <1>1, <1>2 DEF KeysApart, Kept
  <2>3. FailsOnlyExpired'
    <3>1. root.notBefore <= now /\ root.notBefore <= root.notAfter
      BY <1>1 DEF RootsValid
    <3> QED
      BY <1>1, <1>2, <3>1, RefusedExpired DEF FailsOnlyExpired
  <2> QED
    BY <2>1, <2>2, <2>3
<1>3. CASE certificate' = Child /\ issued' = issued + 1 /\ at' = "cer"
  <2>1. Child \in Issued /\ Child.key = issued + 1 /\ Child.issuer = root.key
    BY <1>1, LivesAssumption
       DEF Child, ValidUntil, EarlierOf, LaterOf, Types, Issued
  <2>2. Types' /\ AtHand'
    BY <1>1, <1>3, <2>1 DEF Types, Locations, Files, AtHand
  <2>3. KeysApart'
    <3>1. Kept' \cap Issued \subseteq Kept \cup {Child}
      BY <1>1, <1>3 DEF Kept
    <3> QED
      BY <1>3, <2>1, <3>1, OneMade
  <2>4. Chained'
    <3>1. "ca.pfx" \notin failing => files["ca.pfx"] = root
      BY <1>1 DEF RootRead
    <3> QED
      BY <1>1, <1>3, <2>1, <3>1 DEF Chained
  <2>5. RootRead' /\ RootsValid' /\ FailsOnlyExpired'
    BY <1>1, <1>3 DEF RootRead, RootsValid, FailsOnlyExpired
  <2> QED
    BY <2>2, <2>3, <2>4, <2>5
<1> QED
  BY <1>2, <1>3 DEF Create

\* A file is written, or not, or cut short: its certificate is one at hand
\* (CertificateHelper.cs:44-66, 133-205).
LEMMA TryExportKeeps ==
  ASSUME CertificatesInv, NEW file \in Files, TryExport(file)
  PROVE  CertificatesInv'
<1> USE DEF CertificatesInv
<1> DEFINE c == IF file \in {"ca.pfx", "ca.cer"} THEN root ELSE certificate
<1>1. /\ at = file /\ at' = After(file)
      /\ UNCHANGED <<failing, store, now, names, issued, root, certificate>>
  BY DEF TryExport
<1>2. PICK written \in {c, files[file], Torn} :
        /\ files' = [files EXCEPT ![file] = written]
        /\ written # c => file \in failing
  BY DEF TryExport, Types
<1>3. c \in Issued /\ c \in {root, certificate}
  BY <1>1 DEF Files, Locations, AtHand
<1>4. /\ files' \in [Files -> Issued \cup {Torn, None}]
      /\ \A f \in Files : files'[f] = IF f = file THEN written ELSE files[f]
  BY <1>2, <1>3 DEF Types
<1>5. /\ at' \in Files \cup {"import", "verify"} /\ at' # "ca.pfx"
      /\ at' \in {"cer", "pfx", "pem", "key", "verify"} =>
           at \in {"cer", "pfx", "pem", "key"}
  BY <1>1 DEF After, Files
<1>6. Types' /\ AtHand'
  BY <1>1, <1>4, <1>5 DEF Types, Locations, Files, AtHand
<1>7. KeysApart'
  <2>1. Kept' \cap Issued \subseteq Kept
    BY <1>1, <1>2, <1>3, <1>4, AbsentAssumption DEF Kept
  <2> QED
    BY <1>1, <2>1, NothingMade
<1>8. CASE file = "ca.pfx"
  <2>1. /\ files'["ca.pfx"] \in {root, Torn, files["ca.pfx"]}
        /\ files'["ca.pfx"] = root \/ "ca.pfx" \in failing
        /\ files'["pfx"] = files["pfx"]
    BY <1>2, <1>4, <1>8 DEF Files
  <2>2. RootRead' /\ FailsOnlyExpired'
    BY <1>1, <1>5, <2>1 DEF RootRead, Files, FailsOnlyExpired
  <2>3. Chained'
    BY <1>1, <1>8, <2>1 DEF Chained, RootRead
  <2>4. RootsValid'
    BY <1>1, <2>1, AbsentAssumption DEF RootsValid
  <2> QED
    BY <1>6, <1>7, <2>2, <2>3, <2>4
<1>9. CASE file # "ca.pfx"
  <2>1. /\ files'["ca.pfx"] = files["ca.pfx"]
        /\ files'["pfx"] \in {files["pfx"], certificate, Torn}
    BY <1>2, <1>4, <1>9 DEF Files
  <2>2. RootRead' /\ RootsValid' /\ FailsOnlyExpired'
    BY <1>1, <1>5, <1>9, <2>1 DEF RootRead, Files, RootsValid, FailsOnlyExpired
  <2>3. Chained'
    BY <1>1, <2>1, AbsentAssumption DEF Chained
  <2> QED
    BY <1>6, <1>7, <2>2, <2>3
<1> QED
  BY <1>8, <1>9

\* The program ends; a file being written may be cut short.
LEMMA StopKeeps ==
  ASSUME CertificatesInv, Stop
  PROVE  CertificatesInv'
<1> USE DEF CertificatesInv
<1>1. /\ at' = "down" /\ root' = None /\ certificate' = None
      /\ UNCHANGED <<failing, store, now, names, issued>>
  BY DEF Stop
<1>2. /\ files' \in [Files -> Issued \cup {Torn, None}]
      /\ \A f \in Files : \/ files'[f] = files[f]
                          \/ files'[f] = Torn /\ at = f
  BY DEF Stop, Types
<1>3. Types' /\ AtHand'
  BY <1>1, <1>2 DEF Types, Locations, AtHand
<1>4. KeysApart'
  <2>1. Kept' \cap Issued \subseteq Kept
    BY <1>1, <1>2, AbsentAssumption DEF Kept
  <2> QED
    BY <1>1, <2>1, NothingMade
<1>5. Chained'
  <2>1. /\ files'["pfx"] \in {files["pfx"], Torn}
        /\ files'["ca.pfx"] = files["ca.pfx"] \/ files["ca.pfx"] \notin Issued
    BY <1>2 DEF Files, RootRead
  <2> QED
    BY <1>1, <2>1, AbsentAssumption DEF Chained
<1>6. RootsValid'
  BY <1>1, <1>2, AbsentAssumption DEF RootsValid, Files
<1>7. RootRead' /\ FailsOnlyExpired'
  BY <1>1 DEF RootRead, FailsOnlyExpired
<1> QED
  BY <1>3, <1>4, <1>5, <1>6, <1>7

\* Verifying, time that passes, and new names touch no certificate.
LEMMA OthersKeep ==
  ASSUME CertificatesInv, Verify \/ Pass \/ Rename
  PROVE  CertificatesInv'
<1> USE DEF CertificatesInv
<1>1. /\ UNCHANGED <<files, failing, issued, root, certificate>>
      /\ now' \in Nat /\ now <= now'
      /\ at' = at \/ (at = "verify" /\ at' = "serving")
  BY DEF Verify, Pass, Rename, Types
<1>2. store' \subseteq Issued /\ names' \in (SUBSET Names) \ {{}}
  <2>1. CASE Verify
    <3>1. certificate \in Issued
      BY <2>1 DEF Verify, AtHand
    <3> QED
      BY <2>1, <3>1 DEF Verify, Types
  <2>2. CASE Pass \/ Rename
    BY <2>2 DEF Pass, Rename, Types
  <2> QED
    BY <2>1, <2>2
<1>3. Types' /\ AtHand'
  BY <1>1, <1>2 DEF Types, Locations, AtHand
<1>4. KeysApart' /\ RootRead' /\ Chained'
  BY <1>1 DEF KeysApart, Kept, RootRead, Chained
<1>5. RootsValid'
  <2>1. \A c \in Issued : c.notBefore \in Int
    BY DEF Issued
  <2> QED
    BY <1>1, <2>1 DEF RootsValid, Types
<1>6. FailsOnlyExpired'
  <2>1. at = "failed" => root.notAfter \in Int /\ Day \in Nat
    BY LivesAssumption DEF AtHand, Locations, Issued
  <2> QED
    BY <1>1, <2>1 DEF FailsOnlyExpired, Types
<1> QED
  BY <1>3, <1>4, <1>5, <1>6

-----------------------------------------------------------------------------
LEMMA CertificatesStep == CertificatesInv /\ [Next]_vars => CertificatesInv'
<1> SUFFICES ASSUME CertificatesInv, [Next]_vars
             PROVE  CertificatesInv'
  OBVIOUS
<1>1. CASE \E file \in Files : TryExport(file)
  BY <1>1, TryExportKeeps
<1>2. CASE StartUp \/ CreateRoot \/ Import \/ Create
  BY <1>2, StartUpKeeps, CreateRootKeeps, ImportKeeps, CreateKeeps
<1>3. CASE Verify \/ Stop \/ Pass \/ Rename
  BY <1>3, StopKeeps, OthersKeep
<1>4. CASE UNCHANGED vars
  BY <1>4 DEF vars, CertificatesInv, Types, AtHand, KeysApart, Kept, RootRead,
              Chained, RootsValid, FailsOnlyExpired
<1> QED
  BY <1>1, <1>2, <1>3, <1>4 DEF Next

(***************************************************************************)
(* The root in use is the one in its file and valid, the certificate in    *)
(* use is issued by it, and keys are never used twice.                     *)
(***************************************************************************)
THEOREM CertificatesInvariant == Spec => []CertificatesInv
BY CertificatesInit, CertificatesStep, PTL DEF Spec

\* Files and variables keep their types, the server serves with a root and a
\* certificate at hand, and no two certificates in files have the same key.
THEOREM CertificateTypes == Spec => []TypeOK
<1>1. CertificatesInv => TypeOK
  BY AbsentAssumption
     DEF CertificatesInv, Types, AtHand, KeysApart, Kept, Locations, TypeOK
<1> QED
  BY <1>1, CertificatesInvariant, PTL

(***************************************************************************)
(* The certificate served was issued by the root that is in wormhole-      *)
(* ca.pfx, wherever earlier starts were stopped (Program.cs:9-16).         *)
(***************************************************************************)
THEOREM ChainServed == Spec => []ServedChains
<1>1. CertificatesInv => ServedChains
  BY DEF CertificatesInv, AtHand, Chained, ServedChains
<1> QED
  BY <1>1, CertificatesInvariant, PTL

(***************************************************************************)
(* A start ends with an exception only when the root has expired for more  *)
(* than the margin of a day (CertificateHelper.cs:91-93).                  *)
(***************************************************************************)
THEOREM OnlyExpiredFails == Spec => []FailsOnlyExpired
<1>1. CertificatesInv => FailsOnlyExpired
  BY DEF CertificatesInv
<1> QED
  BY <1>1, CertificatesInvariant, PTL

(***************************************************************************)
(* A root that can be read is never replaced (Program.cs:6): its file is   *)
(* only written, or cut short, after none could be read from it.           *)
(***************************************************************************)
THEOREM RootNeverReplaced == Spec => RootKept
<1>1. CertificatesInv /\ [Next]_vars =>
        [files["ca.pfx"] \in Issued => files'["ca.pfx"] = files["ca.pfx"]]_vars
  <2> SUFFICES ASSUME CertificatesInv, Next, files["ca.pfx"] \in Issued
               PROVE  files'["ca.pfx"] = files["ca.pfx"]
    OBVIOUS
  <2>1. at # "ca.pfx"
    BY DEF CertificatesInv, RootRead
  <2>2. ASSUME NEW file \in Files, TryExport(file)
        PROVE  files'["ca.pfx"] = files["ca.pfx"]
    <3>1. file # "ca.pfx"
      BY <2>1, <2>2 DEF TryExport
    <3>2. files' = files \/ \E c : files' = [files EXCEPT ![file] = c]
      BY <2>2 DEF TryExport
    <3> QED
      BY <3>1, <3>2 DEF CertificatesInv, Types, Files
  <2>3. CASE Stop
    <3>1. files' = files \/ files' = [files EXCEPT ![at] = Torn]
      BY <2>3 DEF Stop
    <3> QED
      BY <2>1, <3>1 DEF CertificatesInv, Types, Files
  <2>4. CASE StartUp \/ CreateRoot \/ Import \/ Create \/ Verify \/ Pass \/ Rename
    BY <2>4 DEF StartUp, CreateRoot, Import, Create, Verify, Pass, Rename
  <2> QED
    BY <2>2, <2>3, <2>4 DEF Next
<1> QED
  BY <1>1, CertificatesInvariant, PTL DEF Spec, RootKept
=============================================================================

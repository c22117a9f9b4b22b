---------------------------- MODULE SignedEvidence ----------------------------
(***************************************************************************)
(* What the server keeps as evidence of a signature, and how it tells      *)
(* later whether the evidence still holds: the uploaded PDFs under         *)
(* storage/documents, the HSM key and the certificates, the detached       *)
(* signature, the PAdES PDFs under storage/signed and their rows           *)
(* (app/services/document_service.py, hsm_service.py, pades_service.py,    *)
(* the second half of app/api/signing.py, app/api/signatures.py).          *)
(*                                                                         *)
(* A content stands for its own SHA-256: two contents are equal when their *)
(* digests are.  Who may sign what, and the queue's rows, are the business *)
(* of SignatureQueue; here any stored document may be signed at any time.  *)
(* The SIGNATURE_STARTED event takes the lock of the audit chain before    *)
(* the HSM is called and keeps it until the transaction ends, so at most   *)
(* one call is between the two: job is not a function of the worker.  A    *)
(* call that has hashed its document and waits for the lock changes        *)
(* nothing; it is the job from its hash on.                                *)
(*                                                                         *)
(* A content has a last page, on which sign_pdf looks for a place for the  *)
(* visible signature (SignatureBox); without one the signature is refused. *)
(*                                                                         *)
(* Disks fail, backups are restored, keys and certificates are replaced    *)
(* while the server runs: the actions of the last section.                 *)
(***************************************************************************)
EXTENDS SignatureBox, FiniteSets

CONSTANTS
  Documents,     \* ids of documents (uuid4, also the name of the file)
  Signatures,    \* ids of document_signatures, in the order of created_at
  Contents,      \* PDFs somebody may upload
  Keys,          \* RSA keys the HSM may hold under the configured label
  Certificates,  \* signing certificates
  Tsas,          \* certificates of timestamping authorities
  Anchors,       \* trust anchors: the last certificate of a chain file
  KeyOf,         \* the public key of a signing certificate
  IssuerOf,      \* the anchor a certificate chains to
  PageOf,        \* the last page of a content, then its ancestors
  Historical,    \* signatures from before PAdES, on the first document
  Lost,          \* what is left of a file that vanished
  MaxChanges,    \* bound of what happens behind the server's back
  None           \* SQL NULL, or no file

ASSUME EvidenceAssumption ==
  /\ Signatures \subseteq Nat
  /\ Historical \subseteq Signatures
  /\ KeyOf \in [Certificates -> Keys]
  /\ IssuerOf \in [Certificates \cup Tsas -> Anchors]
  /\ PageOf \in [Contents -> Seq(Nodes)]
  /\ Lost \notin Contents
  /\ None \notin Signatures \cup Contents \cup {Lost} \cup Tsas \cup Anchors
  /\ MaxChanges \in Nat

Profiles == {"PAdES-B-B", "PAdES-B-T"}

\* Detached signature: the key that made it and the digest it is over.
Detached == [key: Keys, over: Contents]

\* A signed PDF: the base revision it extends, the certificate and the key of
\* its CMS signature, its timestamp, and what has become of the file since.
Pdf == [content: Contents, cert: Certificates, key: Keys,
        tsa: Tsas \cup {None}, state: {"intact", "spoiled", "lost"}]

SignatureRow == [document: Documents, hash: Contents, detached: Detached,
                 profile: Profiles \cup {None}, cert: Certificates \cup {None},
                 tsa: Tsas \cup {None}]

\* What _load_certificate_material and _tsa_validation_context read.
Material == [key: Keys, cert: Certificates, anchor: Anchors,
             tsaAnchor: Anchors \cup {None}]

Steps == {"idle", "hashed", "detached", "written", "published"}

Job == [step: Steps, document: Documents \cup {None},
        signature: Signatures \cup {None}, hash: Contents \cup {None},
        detached: Detached \cup {None}, pdf: Pdf \cup {None}]

Causes == {"none", "hsm", "mismatch", "tsa settings", "tsa silent",
           "unvalidated", "page or storage"}

\* NULL is none of these records, and no profile.
ASSUME EvidenceRowAssumption ==
  None \notin SignatureRow \cup Pdf \cup Detached \cup Profiles

VARIABLES
  docFile,    \* storage/documents
  docRow,     \* Document.document_hash
  uploading,  \* documents whose upload has written the file, not committed
  material,   \* the HSM key and the certificate files
  profile,    \* Settings.pades_profile, read once per process
  job,        \* the /sign call that holds the audit lock
  temps,      \* signatures whose .pdf.tmp is in storage/signed
  pdf,        \* final files in storage/signed
  row,        \* rows of document_signatures
  event,      \* what the audit trail says of a refused /sign, and its cause
  disturbed,  \* history: signatures under way while something below changed
  doubtful,   \* history: signatures whose commit nobody could confirm
  changes     \* how often something happened behind the server's back

documents == <<docFile, docRow, uploading>>
signed == <<temps, pdf, row>>
history == <<disturbed, doubtful, changes>>
vars == <<documents, material, profile, job, signed, event, history>>

NoJob == [step |-> "idle", document |-> None, signature |-> None,
          hash |-> None, detached |-> None, pdf |-> None]

NoEvent == [type |-> "NONE", cause |-> "none"]

TypeOK ==
  /\ docFile \in [Documents -> Contents \cup {Lost, None}]
  /\ docRow \in [Documents -> Contents \cup {None}]
  /\ uploading \subseteq Documents
  /\ material \in Material
  /\ profile \in Profiles
  /\ job \in Job
  /\ temps \subseteq Signatures
  /\ pdf \in [Signatures -> Pdf \cup {None}]
  /\ row \in [Signatures -> SignatureRow \cup {None}]
  /\ event.cause \in Causes
  /\ disturbed \subseteq Signatures
  /\ doubtful \subseteq Signatures
  /\ changes \in 0 .. MaxChanges

\* A new server, or one that already holds a document with signatures from
\* before PAdES: the migrations left their new columns NULL.
Init ==
  \E m \in Material, p \in Profiles, d \in Documents \cup {None},
     c \in Contents :
    /\ material = m
    /\ KeyOf[m.cert] = m.key
    /\ profile = p
    /\ docFile = [e \in Documents |-> IF e = d THEN c ELSE None]
    /\ docRow = [e \in Documents |-> IF e = d THEN c ELSE None]
    /\ uploading = {}
    /\ job = NoJob
    /\ temps = {}
    /\ pdf = [g \in Signatures |-> None]
    /\ row = [g \in Signatures |->
                IF g \in Historical /\ d # None
                  THEN [document |-> d, hash |-> c,
                        detached |-> [key |-> m.key, over |-> c],
                        profile |-> None, cert |-> None, tsa |-> None]
                  ELSE None]
    /\ event = NoEvent
    /\ disturbed = {}
    /\ doubtful = {}
    /\ changes = 0

-----------------------------------------------------------------------------
(* Upload: store_document, then the commit of the route *)

\* The file is written under a new name and hashed on the way.  Too large,
\* empty or unreadable uploads leave nothing behind.
StoreDocument(d, c) ==
  /\ docFile[d] = None
  /\ docFile' = [docFile EXCEPT ![d] = c]
  /\ uploading' = uploading \cup {d}
  /\ UNCHANGED <<docRow, material, profile, job, signed, event, history>>

\* The row, DOCUMENT_UPLOADED and DOCUMENT_ASSIGNED are committed together.
UploadCommit(d) ==
  /\ d \in uploading
  /\ docRow' = [docRow EXCEPT ![d] = docFile[d]]
  /\ uploading' = uploading \ {d}
  /\ UNCHANGED <<docFile, material, profile, job, signed, event, history>>

\* The flush, an event or the commit fails: the row is gone, the file stays.
UploadFails(d) ==
  /\ d \in uploading
  /\ uploading' = uploading \ {d}
  /\ UNCHANGED <<docFile, docRow, material, profile, job, signed, event,
                 history>>

-----------------------------------------------------------------------------
(* Certificates: _load_certificate_material, _verify_with_material *)

\* The certificate is of the key the HSM holds now.
MaterialMatches(m) == KeyOf[m.cert] = m.key

\* B-T needs a TSA anchor before anything is opened.
TsaConfigured(m, p) == p = "PAdES-B-T" => m.tsaAnchor # None

\* timestamp_requirement_met and actual_profile = expected_profile.
TimestampMeets(f, m, p) ==
  IF p = "PAdES-B-T" THEN f.tsa # None /\ IssuerOf[f.tsa] = m.tsaAnchor
                     ELSE f.tsa = None

\* Mutation: only the signed byte range is validated, not the coverage.
ValidatesAnyCoverage(f, m, p) ==
  /\ f.state # "lost"
  /\ KeyOf[f.cert] = f.key
  /\ IssuerOf[f.cert] = m.anchor
  /\ f.cert = m.cert
  /\ TimestampMeets(f, m, p)

\* The file validates under material m as profile p: intact and covered to
\* its end, signed with the key of its certificate, which is the installed
\* one and trusted, with the timestamp the profile asks for.
Validates(f, m, p) ==
  /\ f.state = "intact"
  /\ KeyOf[f.cert] = f.key
  /\ IssuerOf[f.cert] = m.anchor
  /\ f.cert = m.cert
  /\ TimestampMeets(f, m, p)

-----------------------------------------------------------------------------
(* POST /sign, from the hash of the stored file to the commit *)

UnusedName(g) ==
  row[g] = None /\ pdf[g] = None /\ g \notin temps \cup doubtful

\* Mutation: the hash of the row is trusted, the file is not read.
StoredIsWhatTheRowSays(d) == docRow[d] # None

\* The digest of the file on the disk is the row's, which the session and the
\* device named too.
StoredIsIntact(d) == docRow[d] # None /\ docFile[d] = docRow[d]

HashDocument(d, g) ==
  /\ job.step = "idle"
  /\ StoredIsIntact(d)
  /\ UnusedName(g)
  /\ job' = [NoJob EXCEPT !.step = "hashed", !.document = d,
                          !.signature = g, !.hash = docRow[d]]
  /\ event' = NoEvent
  /\ UNCHANGED <<documents, material, profile, signed, history>>

\* The HSM signs the digest that was just computed.
HsmSign ==
  /\ job.step = "hashed"
  /\ job' = [job EXCEPT !.step = "detached",
                        !.detached = [key |-> material.key, over |-> job.hash]]
  /\ UNCHANGED <<documents, material, profile, signed, event, history>>

\* reject_sign after the nonce: roll back and record, the queue's request is
\* left as it is.
Refuse(type, cause) ==
  /\ job' = NoJob
  /\ event' = [type |-> type, cause |-> cause]

HsmFails ==
  /\ job.step = "hashed"
  /\ Refuse("SIGNATURE_FAILED", "hsm")
  /\ UNCHANGED <<documents, material, profile, signed, history>>

\* _configured_profile
ConfiguredProfile == profile

SourceOpens == docFile[job.document] \in Contents

\* The visible signature finds a place on the last page.
HasRoom(c) == VisibleSignatureBox(PageOf[c]) # Refused

PageHasRoom == SourceOpens /\ HasRoom(docFile[job.document])

\* The timestamps a signature may get: in B-T whatever the TSA answers with.
Timestamps(p) == IF p = "PAdES-B-T" THEN Tsas ELSE {None}

\* The PDF sign_pdf writes.  It opens the stored file again.
NewPdf(tsa) == [content |-> docFile[job.document], cert |-> material.cert,
                key |-> material.key, tsa |-> tsa, state |-> "intact"]

\* sign_pdf: into the temporary file, then validated like any signed PDF.
\* The PKCS#11 session of the signer is opened right after the key was
\* compared, with the same key.
PadesSign(tsa) ==
  /\ job.step = "detached"
  /\ MaterialMatches(material)
  /\ TsaConfigured(material, ConfiguredProfile)
  /\ tsa \in Timestamps(ConfiguredProfile)
  /\ PageHasRoom
  /\ Validates(NewPdf(tsa), material, ConfiguredProfile)
  /\ job' = [job EXCEPT !.step = "written", !.pdf = NewPdf(tsa)]
  /\ temps' = temps \cup {job.signature}
  /\ UNCHANGED <<documents, material, profile, pdf, row, event, history>>

\* Why sign_pdf failed, in the order it looks.
PadesCause(cause) ==
  CASE ~MaterialMatches(material) -> cause = "mismatch"
    [] ~TsaConfigured(material, ConfiguredProfile) /\ MaterialMatches(material)
         -> cause = "tsa settings"
    [] OTHER ->
         \/ cause = "page or storage"
         \/ /\ cause = "tsa silent"
            /\ PageHasRoom
            /\ ConfiguredProfile = "PAdES-B-T"
         \/ /\ cause = "unvalidated"
            /\ PageHasRoom
            /\ \E tsa \in Timestamps(ConfiguredProfile) :
                 ~Validates(NewPdf(tsa), material, ConfiguredProfile)

\* The route looks for "tsa" or "timestamp" in the text of the error.  Only
\* the errors about the settings of the TSA carry one of the words: whatever
\* pyHanko raises becomes "PAdES generation failed".
NamesTheTsa(cause) == cause = "tsa settings"

\* The temporary and the final file are removed.
PadesFails(cause) ==
  /\ job.step = "detached"
  /\ PadesCause(cause)
  /\ Refuse(IF NamesTheTsa(cause) THEN "TSA_TIMESTAMP_FAILED"
                                  ELSE "PADES_VALIDATION_FAILED", cause)
  /\ UNCHANGED <<documents, material, profile, signed, history>>

\* os.replace: the file has its final name before the row exists.
Publish ==
  /\ job.step = "written"
  /\ pdf' = [pdf EXCEPT ![job.signature] = job.pdf]
  /\ temps' = temps \ {job.signature}
  /\ job' = [job EXCEPT !.step = "published"]
  /\ UNCHANGED <<documents, material, profile, row, event, history>>

\* os.replace fails.
PublishFails ==
  /\ job.step = "written"
  /\ temps' = temps \ {job.signature}
  /\ Refuse("PADES_VALIDATION_FAILED", "page or storage")
  /\ UNCHANGED <<documents, material, profile, pdf, row, history>>

NewRow == [document |-> job.document, hash |-> job.hash,
           detached |-> job.detached,
           profile |-> IF job.pdf.tsa = None THEN "PAdES-B-B"
                                            ELSE "PAdES-B-T",
           cert |-> job.pdf.cert, tsa |-> job.pdf.tsa]

Commit ==
  /\ job.step = "published"
  /\ row' = [row EXCEPT ![job.signature] = NewRow]
  /\ job' = NoJob
  /\ UNCHANGED <<documents, material, profile, temps, pdf, event, history>>

\* Mutation: the published file is forgotten.
RecordFailsLeavingFile ==
  /\ job.step = "published"
  /\ job' = NoJob
  /\ UNCHANGED <<documents, material, profile, signed, event, history>>

\* The flush, the queue's update or an event fails: rolled back, file removed.
RecordFails ==
  /\ job.step = "published"
  /\ pdf' = [pdf EXCEPT ![job.signature] = None]
  /\ job' = NoJob
  /\ UNCHANGED <<documents, material, profile, temps, row, event, history>>

\* Mutation: a failed commit is taken for a rollback.
CommitInDoubtUndone(applied) ==
  /\ job.step = "published"
  /\ row' = IF applied THEN [row EXCEPT ![job.signature] = NewRow] ELSE row
  /\ pdf' = [pdf EXCEPT ![job.signature] = None]
  /\ doubtful' = doubtful \cup {job.signature}
  /\ job' = NoJob
  /\ UNCHANGED <<documents, material, profile, temps, event, disturbed,
                 changes>>

\* COMMIT raises: it may have been applied all the same, so the file stays.
CommitInDoubt(applied) ==
  /\ job.step = "published"
  /\ row' = IF applied THEN [row EXCEPT ![job.signature] = NewRow] ELSE row
  /\ doubtful' = doubtful \cup {job.signature}
  /\ job' = NoJob
  /\ UNCHANGED <<documents, material, profile, temps, pdf, event, disturbed,
                 changes>>

-----------------------------------------------------------------------------
(* GET /verify: read only *)

\* The stored document, re-hashed, is what its row and the signature say.
HashHolds(g) ==
  LET d == row[g].document IN
  docFile[d] = docRow[d] /\ docFile[d] = row[g].hash

\* The detached signature, against the public key the HSM holds now.
DetachedHolds(g) ==
  row[g].detached = [key |-> material.key, over |-> row[g].hash]

\* Mutation: the configured profile is expected.
ExpectedByConfiguration(g) == IF row[g].profile = None THEN None ELSE profile

\* The profile the row names, not the configured one.
ExpectedProfile(g) == row[g].profile

\* The signed PDF, for a row that has one; a material that cannot be loaded is
\* an error, not a verdict.
PadesHolds(g) ==
  row[g].profile # None =>
    /\ pdf[g] # None
    /\ MaterialMatches(material)
    /\ TsaConfigured(material, ExpectedProfile(g))
    /\ Validates(pdf[g], material, ExpectedProfile(g))
    /\ pdf[g].cert = row[g].cert
    /\ row[g].profile = "PAdES-B-T" => pdf[g].tsa = row[g].tsa

\* "valid": true
VerifiesAsValid(g) == HashHolds(g) /\ DetachedHolds(g) /\ PadesHolds(g)

-----------------------------------------------------------------------------
(* GET /user/documents/{id}/signed *)

\* Mutation: ORDER BY created_at without DESC.
EarliestOf(R) == {g \in R : \A h \in R : g <= h}

\* ORDER BY created_at DESC LIMIT 1
LatestOf(R) == {g \in R : \A h \in R : h <= g}

\* The file the owner is given: of the last signature with a PDF, if it is
\* still there.
SignedFilesOf(d) ==
  LET R == {g \in Signatures : /\ row[g] # None
                               /\ row[g].document = d
                               /\ row[g].profile # None}
  IN {g \in LatestOf(R) : pdf[g] # None /\ pdf[g].state # "lost"}

-----------------------------------------------------------------------------
(* Crashes, disks and operators *)

\* The process ends and starts again, perhaps with another profile.
Restart(p) ==
  /\ changes < MaxChanges
  /\ changes' = changes + 1
  /\ profile' = p
  /\ uploading' = {}
  /\ doubtful' = doubtful \cup ({job.signature} \ {None})
  /\ job' = NoJob
  /\ UNCHANGED <<docFile, docRow, material, signed, event, disturbed>>

Disturb ==
  /\ changes < MaxChanges
  /\ changes' = changes + 1
  /\ disturbed' = disturbed \cup ({job.signature} \ {None})
  /\ UNCHANGED doubtful

\* The HSM key is replaced, or one of the certificate files.
ReplaceMaterial(m) ==
  /\ Cardinality({x \in DOMAIN m : m[x] # material[x]}) = 1
  /\ material' = m
  /\ Disturb
  /\ UNCHANGED <<documents, profile, job, signed, event>>

\* A stored document is overwritten, lost, or restored from a backup.
RewriteDocument(d, c) ==
  /\ docRow[d] # None
  /\ docFile[d] # c
  /\ docFile' = [docFile EXCEPT ![d] = c]
  /\ Disturb
  /\ UNCHANGED <<docRow, uploading, material, profile, job, signed, event>>

\* A signed PDF is damaged or lost.
DamagePdf(g, s) ==
  /\ row[g] # None /\ pdf[g] # None
  /\ pdf[g].state = "intact"
  /\ pdf' = [pdf EXCEPT ![g].state = s]
  /\ Disturb
  /\ UNCHANGED <<documents, material, profile, job, temps, row, event>>

-----------------------------------------------------------------------------
Upload == \E d \in Documents : \/ \E c \in Contents : StoreDocument(d, c)
                               \/ UploadCommit(d)
                               \/ UploadFails(d)

Sign == \/ \E d \in Documents, g \in Signatures : HashDocument(d, g)
        \/ HsmSign
        \/ HsmFails
        \/ \E tsa \in Tsas \cup {None} : PadesSign(tsa)
        \/ \E cause \in Causes : PadesFails(cause)
        \/ Publish
        \/ PublishFails
        \/ Commit
        \/ RecordFails
        \/ \E applied \in BOOLEAN : CommitInDoubt(applied)

Behind == \/ \E p \in Profiles : Restart(p)
          \/ \E m \in Material : ReplaceMaterial(m)
          \/ \E d \in Documents, c \in Contents \cup {Lost} :
               RewriteDocument(d, c)
          \/ \E g \in Signatures, s \in {"spoiled", "lost"} : DamagePdf(g, s)

Next == Upload \/ Sign \/ Behind

Spec == Init /\ [][Next]_vars

-----------------------------------------------------------------------------
(* Properties *)

\* A row never points to a file that was not there when it was committed, or
\* that the server itself removed: not even when the commit failed and was
\* applied all the same.
RowHasItsFiles ==
  /\ \A d \in Documents : docRow[d] # None => docFile[d] # None
  /\ \A g \in Signatures :
       row[g] # None /\ row[g].profile # None => pdf[g] # None

\* An upload under way has its file and no row yet.
UploadsInv ==
  \A d \in uploading : docFile[d] \in Contents /\ docRow[d] = None

\* The call under way signs the content of a document's row, under a name of
\* its own, and what it holds in memory fits what it has written so far.
JobInv ==
  LET g == job.signature IN
  IF job.step = "idle" THEN g = None
  ELSE
    /\ job.document \in Documents /\ g \in Signatures
    /\ job.hash \in Contents /\ docRow[job.document] = job.hash
    /\ row[g] = None /\ g \notin doubtful
    /\ g \in temps <=> job.step = "written"
    /\ pdf[g] = IF job.step = "published" THEN job.pdf ELSE None
    /\ g \notin disturbed => docFile[job.document] = job.hash
    /\ job.step # "hashed" =>
         /\ job.detached \in Detached /\ job.detached.over = job.hash
         /\ g \notin disturbed => job.detached.key = material.key
    /\ job.step \in {"written", "published"} =>
         /\ job.pdf \in Pdf
         /\ KeyOf[job.pdf.cert] = job.pdf.key
         /\ HasRoom(job.pdf.content)
         /\ g \notin disturbed => /\ job.pdf.content = job.hash
                                  /\ job.pdf.key = job.detached.key

\* A row is of the content its document was uploaded with, and names what is
\* in its signed PDF.
RowsInv ==
  \A g \in Signatures : row[g] # None =>
    /\ docRow[row[g].document] = row[g].hash
    /\ row[g].detached.over = row[g].hash
    /\ row[g].profile # None =>
         /\ KeyOf[pdf[g].cert] = pdf[g].key
         /\ HasRoom(pdf[g].content)
         /\ pdf[g].cert = row[g].cert
         /\ pdf[g].tsa = row[g].tsa
         /\ row[g].profile = "PAdES-B-B" <=> pdf[g].tsa = None
         /\ g \notin disturbed => /\ pdf[g].content = row[g].hash
                                  /\ pdf[g].key = row[g].detached.key

\* A signed PDF, or a temporary one, that no row names and no call works on is
\* what a crash or a commit in doubt left: no refusal leaves one.
OrphansOnlyInDoubt ==
  \A g \in Signatures :
    (row[g] = None /\ (pdf[g] # None \/ g \in temps))
      => g \in doubtful \/ job.signature = g

\* Files and rows keep their types and each row its files, whatever fails:
\* together with what the call under way and the uploads leave behind, this
\* is preserved by every step.
EvidenceInv == /\ TypeOK /\ RowHasItsFiles /\ UploadsInv
               /\ JobInv /\ RowsInv /\ OrphansOnlyInDoubt

\* The PDF, the detached signature and the row are of one and the same
\* content, although /sign opens the stored file twice: unless the file or the
\* key changed between the two.
OneContentSigned ==
  \A g \in Signatures :
    row[g] # None /\ row[g].profile # None /\ g \notin disturbed =>
      /\ pdf[g].content = row[g].hash
      /\ row[g].detached = [key |-> pdf[g].key, over |-> row[g].hash]
      /\ docRow[row[g].document] = row[g].hash

\* What was signed verifies, whatever the server is configured for meanwhile,
\* while the files are what they were and the material is the signer's.
SignedVerifies ==
  \A g \in Signatures :
    /\ row[g] # None /\ g \notin disturbed
    /\ docFile[row[g].document] = row[g].hash
    /\ material.key = row[g].detached.key
    /\ row[g].profile # None =>
         /\ pdf[g].state = "intact"
         /\ material.cert = row[g].cert
         /\ material.anchor = IssuerOf[row[g].cert]
         /\ row[g].tsa # None => material.tsaAnchor = IssuerOf[row[g].tsa]
    => VerifiesAsValid(g)

\* What verifies as valid is whole: the stored document is the one that was
\* hashed, and the signed PDF covers that document, unless the stored file was
\* changed in the middle of the signature.
ValidIsWhole ==
  \A g \in Signatures :
    row[g] # None /\ VerifiesAsValid(g) =>
      /\ docFile[row[g].document] = row[g].detached.over
      /\ row[g].profile # None =>
           /\ pdf[g].state = "intact"
           /\ pdf[g].content = docFile[row[g].document] \/ g \in disturbed

\* The owner is offered the last signature of the document and no older one,
\* unless its file vanished.
OwnerGetsTheLastSignature ==
  \A g \in Signatures :
    /\ row[g] # None /\ row[g].profile # None /\ pdf[g].state # "lost"
    /\ \A h \in Signatures : row[h] # None /\ row[h].profile # None
                             /\ row[h].document = row[g].document => h <= g
    => /\ SignedFilesOf(row[g].document) = {g}
       /\ g \notin disturbed => pdf[g].content = docRow[row[g].document]

\* What tests/test_audit_hardening.py says of a TSA that does not answer: the
\* refusal is recorded as TSA_TIMESTAMP_FAILED.
TsaFailureIsNamed ==
  event.cause = "tsa silent" => event.type = "TSA_TIMESTAMP_FAILED"
===============================================================================

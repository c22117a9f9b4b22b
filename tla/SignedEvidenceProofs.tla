------------------------- MODULE SignedEvidenceProofs -------------------------
(***************************************************************************)
(* What is kept as evidence of a signature holds together, for any number  *)
(* of documents, signatures, keys, certificates and changes behind the     *)
(* server's back.                                                          *)
(***************************************************************************)
EXTENDS SignedEvidence, TLAPS

-----------------------------------------------------------------------------
(* The visible signature lies on its page, and every page of four points   *)
(* by four gets one.                                                       *)

\* Rounding to whole points moves a length by less than a point.
LEMMA Rounding ==
  ASSUME NEW x \in Int
  PROVE  /\ Floor(x) \in Int /\ Ceil(x) \in Int
         /\ Point * Floor(x) <= x /\ x < Point * Floor(x) + Point
         /\ Point * Ceil(x) >= x /\ x > Point * Ceil(x) - Point
  BY DEF Floor, Ceil, Point

\* The margin is one point at least, and leaves more than two points of any
\* side of four points.
LEMMA MarginIsSmall ==
  ASSUME NEW w \in Int, NEW h \in Int, w >= MinimumSide, h >= MinimumSide
  PROVE  /\ Margin(w, h) \in Int
         /\ Margin(w, h) >= Point
         /\ 25 * w - 2 * Margin(w, h) >= 2 * Point
         /\ 25 * h - 2 * Margin(w, h) >= 2 * Point
  BY DEF Margin, Least, Most, SignatureMargin, MinimumSide, Point

\* Between two margins there is room for a point, inside the side.
LEMMA RoomBetweenMargins ==
  ASSUME NEW low \in Int, NEW high \in Int, NEW margin \in Int,
         margin >= Point, 25 * (high - low) - 2 * margin >= 2 * Point
  PROVE  LET l == Limits(low, high, margin) IN
         /\ l.low \in Int /\ l.high \in Int
         /\ l.high > l.low
         /\ 100 * l.low >= low + 100
         /\ 100 * l.high <= high - 100
<1> DEFINE a == 25 * low + margin
           b == 25 * high - margin
<1>1. a \in Int /\ b \in Int /\ b - a >= 2 * Point
  BY DEF Point
<1>2. /\ Ceil(a) \in Int /\ Point * Ceil(a) >= a /\ a > Point * Ceil(a) - Point
      /\ Floor(b) \in Int /\ Point * Floor(b) <= b
      /\ b < Point * Floor(b) + Point
  BY <1>1, Rounding
<1>3. Floor(b) > Ceil(a)
  BY <1>1, <1>2 DEF Point
<1>4. 100 * Ceil(a) >= low + 100 /\ 100 * Floor(b) <= high - 100
  BY <1>2 DEF Point
<1> QED BY <1>2, <1>3, <1>4 DEF Limits

\* The corners of a rectangle in the order of the page.
LEMMA Corners ==
  ASSUME NEW b \in Boxes
  PROVE  /\ {Left(b), Right(b), Bottom(b), Top(b)} \subseteq Int
         /\ Left(b) <= Right(b) /\ Bottom(b) <= Top(b)
  BY BoxAssumption DEF Left, Right, Bottom, Top, Least, Most

Fits(r, b) ==
  /\ 100 * r.left >= Left(b) + 100
  /\ 100 * r.right <= Right(b) - 100
  /\ 100 * r.bottom >= Bottom(b) + 100
  /\ 100 * r.top <= Top(b) - 100
  /\ r.right - r.left \in 1 .. SignatureWidth
  /\ r.top - r.bottom \in 1 .. SignatureHeight

Tiny(b) ==
  Right(b) - Left(b) < MinimumSide \/ Top(b) - Bottom(b) < MinimumSide

\* What _visible_signature_box computes for one page box: a page of four
\* points by four is never refused, and the signature fits on it.
THEOREM BoxFits ==
  ASSUME NEW b \in Boxes
  PROVE  \/ Tiny(b) /\ SignatureBoxIn(b) = Refused
         \/ ~ Tiny(b) /\ SignatureBoxIn(b) # Refused
              /\ Fits(SignatureBoxIn(b), b)
<1> DEFINE w == Right(b) - Left(b)
           h == Top(b) - Bottom(b)
           x == Limits(Left(b), Right(b), Margin(w, h))
           y == Limits(Bottom(b), Top(b), Margin(w, h))
<1>1. {Left(b), Right(b), Bottom(b), Top(b), w, h} \subseteq Int
  BY Corners
<1>2. CASE Tiny(b)
  BY <1>2 DEF Tiny, SignatureBoxIn
<1>3. CASE ~ Tiny(b)
  <2>1. w >= MinimumSide /\ h >= MinimumSide
    BY <1>1, <1>3 DEF Tiny, MinimumSide
  <2>2. /\ Margin(w, h) \in Int /\ Margin(w, h) >= Point
        /\ 25 * w - 2 * Margin(w, h) >= 2 * Point
        /\ 25 * h - 2 * Margin(w, h) >= 2 * Point
    BY <1>1, <2>1, MarginIsSmall
  <2>3. /\ x.low \in Int /\ x.high \in Int /\ x.high > x.low
        /\ 100 * x.low >= Left(b) + 100 /\ 100 * x.high <= Right(b) - 100
    BY <1>1, <2>2, RoomBetweenMargins
  <2>4. /\ y.low \in Int /\ y.high \in Int /\ y.high > y.low
        /\ 100 * y.low >= Bottom(b) + 100 /\ 100 * y.high <= Top(b) - 100
    BY <1>1, <2>2, RoomBetweenMargins
  <2> HIDE DEF x, y
  <2>5. Fits(Place(x, y), b)
    BY <1>1, <2>3, <2>4
    DEF Fits, Place, Least, SignatureWidth, SignatureHeight
  <2>6. Place(x, y) # Refused
    BY DEF Place, Refused
  <2>7. SignatureBoxIn(b) = Place(x, y)
    BY <1>1, <2>1, <2>3, <2>4 DEF SignatureBoxIn, MinimumSide, x, y
  <2> QED BY <1>3, <2>5, <2>6, <2>7
<1> QED BY <1>2, <1>3

USE EvidenceAssumption, EvidenceRowAssumption

-----------------------------------------------------------------------------
(* Types                                                                   *)

LEMMA TypesOfRecords ==
  /\ NoJob \in Job /\ NoJob.step = "idle" /\ NoJob.signature = None
  /\ \A type, cause : [type |-> type, cause |-> cause].cause = cause
BY DEF NoJob, Job, Steps

\* The PDF that sign_pdf writes.
LEMMA WrittenPdf ==
  ASSUME TypeOK, NEW tsa, PadesSign(tsa)
  PROVE  /\ NewPdf(tsa) \in Pdf
         /\ NewPdf(tsa).content = docFile[job.document]
         /\ NewPdf(tsa).key = material.key
         /\ KeyOf[NewPdf(tsa).cert] = NewPdf(tsa).key
         /\ HasRoom(NewPdf(tsa).content)
<1>1. docFile[job.document] \in Contents
  BY DEF PadesSign, PageHasRoom, SourceOpens
<1>2. tsa \in Tsas \cup {None}
  BY DEF PadesSign, Timestamps
<1>3. material \in Material
  BY DEF TypeOK
<1>4. NewPdf(tsa) \in Pdf
  BY <1>1, <1>2, <1>3 DEF NewPdf, Pdf, Material
<1> QED
  BY <1>4 DEF PadesSign, NewPdf, MaterialMatches, PageHasRoom

\* The row that a commit writes.
LEMMA WrittenRow ==
  ASSUME TypeOK, JobInv, job.step = "published"
  PROVE  /\ NewRow \in SignatureRow
         /\ NewRow.document = job.document /\ NewRow.hash = job.hash
         /\ NewRow.detached = job.detached
         /\ NewRow.profile # None
         /\ NewRow.profile = "PAdES-B-B" <=> job.pdf.tsa = None
         /\ NewRow.cert = job.pdf.cert /\ NewRow.tsa = job.pdf.tsa
<1>1. /\ job.document \in Documents /\ job.hash \in Contents
      /\ job.detached \in Detached /\ job.pdf \in Pdf
  BY DEF JobInv
<1> QED
  BY <1>1 DEF NewRow, SignatureRow, Profiles, Pdf

-----------------------------------------------------------------------------
(* Each part of the invariant                                              *)

LEMMA TypeStep == TypeOK /\ JobInv /\ UploadsInv /\ [Next]_vars => TypeOK'
<1> SUFFICES ASSUME TypeOK, JobInv, UploadsInv, [Next]_vars PROVE TypeOK'
  OBVIOUS
<1> USE DEF documents, signed, history
<1>t. /\ job \in Job /\ changes \in 0 .. MaxChanges /\ material \in Material
      /\ docRow \in [Documents -> Contents \cup {None}]
      /\ docFile \in [Documents -> Contents \cup {Lost, None}]
      /\ row \in [Signatures -> SignatureRow \cup {None}]
      /\ pdf \in [Signatures -> Pdf \cup {None}]
  BY DEF TypeOK
<1>j. /\ job.step \in Steps
      /\ job.signature \in Signatures \cup {None}
      /\ {job.signature} \ {None} \subseteq Signatures
      /\ job.pdf \in Pdf \cup {None}
  BY <1>t DEF Job
<1>n. NoJob \in Job
  BY TypesOfRecords
<1>e. ASSUME NEW type, NEW cause \in Causes, Refuse(type, cause)
      PROVE  job' \in Job /\ event'.cause \in Causes
  BY <1>n, <1>e DEF Refuse
<1>u. ASSUME Upload PROVE TypeOK'
  <2>1. ASSUME NEW d \in Documents, NEW c \in Contents, StoreDocument(d, c)
        PROVE  TypeOK'
    BY <2>1, <1>t DEF StoreDocument, TypeOK
  <2>2. ASSUME NEW d \in Documents, UploadCommit(d) PROVE TypeOK'
    BY <2>2, <1>t DEF UploadCommit, TypeOK, UploadsInv
  <2>3. ASSUME NEW d \in Documents, UploadFails(d) PROVE TypeOK'
    BY <2>3 DEF UploadFails, TypeOK
  <2> QED
    BY <1>u, <2>1, <2>2, <2>3 DEF Upload
<1>1. ASSUME NEW d \in Documents, NEW g \in Signatures, HashDocument(d, g)
      PROVE  TypeOK'
  <2>1. docRow[d] \in Contents
    BY <1>1, <1>t DEF HashDocument, StoredIsIntact
  <2>2. job' \in Job
    BY <1>1, <2>1, <1>n DEF HashDocument, Job, Steps, NoJob
  <2>3. event'.cause \in Causes
    BY <1>1 DEF HashDocument, NoEvent, Causes
  <2> QED
    BY <1>1, <2>2, <2>3 DEF HashDocument, TypeOK
<1>2. ASSUME HsmSign PROVE TypeOK'
  <2>1. [key |-> material.key, over |-> job.hash] \in Detached
    BY <1>2, <1>t DEF HsmSign, JobInv, Material, Detached
  <2>2. job' \in Job
    BY <1>2, <1>t, <2>1 DEF HsmSign, Job, Steps
  <2> QED
    BY <1>2, <2>2 DEF HsmSign, TypeOK
<1>3. ASSUME HsmFails PROVE TypeOK'
  BY <1>3, <1>e DEF HsmFails, TypeOK, Causes
<1>4. ASSUME NEW tsa \in Tsas \cup {None}, PadesSign(tsa) PROVE TypeOK'
  <2>1. NewPdf(tsa) \in Pdf
    BY <1>4, WrittenPdf
  <2>2. job' \in Job
    BY <1>4, <1>t, <2>1 DEF PadesSign, Job, Steps
  <2>3. job.signature \in Signatures
    BY <1>4 DEF PadesSign, JobInv
  <2> QED
    BY <1>4, <2>2, <2>3 DEF PadesSign, TypeOK
<1>5. ASSUME NEW cause \in Causes, PadesFails(cause) PROVE TypeOK'
  BY <1>5, <1>e DEF PadesFails, TypeOK
<1>6. ASSUME Publish PROVE TypeOK'
  <2>1. job' \in Job
    BY <1>6, <1>t DEF Publish, Job, Steps
  <2>2. pdf' \in [Signatures -> Pdf \cup {None}]
    BY <1>6, <1>t, <1>j DEF Publish
  <2> QED
    BY <1>6, <2>1, <2>2 DEF Publish, TypeOK
<1>7. ASSUME PublishFails PROVE TypeOK'
  BY <1>7, <1>e DEF PublishFails, TypeOK, Causes
<1>8. ASSUME \/ Commit \/ RecordFails
             \/ \E applied \in BOOLEAN : CommitInDoubt(applied)
      PROVE  TypeOK'
  <2>1. job.step = "published" /\ NewRow \in SignatureRow
    BY <1>8, WrittenRow DEF Commit, RecordFails, CommitInDoubt
  <2>2. job.signature \in Signatures
    BY <2>1 DEF JobInv
  <2>3. /\ row' \in [Signatures -> SignatureRow \cup {None}]
        /\ pdf' \in [Signatures -> Pdf \cup {None}]
    <3>1. CASE Commit
      BY <3>1, <1>t, <2>1 DEF Commit
    <3>2. CASE RecordFails
      BY <3>2, <1>t, <2>1 DEF RecordFails
    <3>3. CASE \E applied \in BOOLEAN : CommitInDoubt(applied)
      <4>1. PICK applied \in BOOLEAN : CommitInDoubt(applied)
        BY <3>3
      <4> QED
        BY <4>1, <1>t, <2>1 DEF CommitInDoubt
    <3> QED
      BY <1>8, <3>1, <3>2, <3>3
  <2>4. job' \in Job /\ doubtful' \subseteq Signatures
    BY <1>8, <1>n, <2>2 DEF Commit, RecordFails, CommitInDoubt, TypeOK
  <2> QED
    BY <1>8, <2>3, <2>4 DEF Commit, RecordFails, CommitInDoubt, TypeOK
<1>c. changes < MaxChanges => changes + 1 \in 0 .. MaxChanges
  BY <1>t
<1>9. ASSUME NEW p \in Profiles, Restart(p) PROVE TypeOK'
  BY <1>9, <1>c, <1>j, <1>n DEF Restart, TypeOK
<1>d. ASSUME Disturb
      PROVE  /\ changes' \in 0 .. MaxChanges /\ disturbed' \subseteq Signatures
             /\ doubtful' \subseteq Signatures
  BY <1>d, <1>c, <1>j DEF Disturb, TypeOK
<1>10. ASSUME NEW m \in Material, ReplaceMaterial(m) PROVE TypeOK'
  BY <1>10, <1>d DEF ReplaceMaterial, TypeOK
<1>11. ASSUME NEW d \in Documents, NEW c \in Contents \cup {Lost},
              RewriteDocument(d, c)
       PROVE  TypeOK'
  <2>1. docFile' \in [Documents -> Contents \cup {Lost, None}]
    BY <1>11, <1>t DEF RewriteDocument
  <2> QED
    BY <1>11, <2>1, <1>d DEF RewriteDocument, TypeOK
<1>12. ASSUME NEW g \in Signatures, NEW s \in {"spoiled", "lost"},
              DamagePdf(g, s)
       PROVE  TypeOK'
  <2>1. pdf[g] \in Pdf
    BY <1>12, <1>t DEF DamagePdf
  <2>2. [pdf[g] EXCEPT !.state = s] \in Pdf
    BY <2>1 DEF Pdf
  <2>3. pdf' \in [Signatures -> Pdf \cup {None}]
    BY <1>12, <1>t, <2>2 DEF DamagePdf
  <2> QED
    BY <1>12, <2>3, <1>d DEF DamagePdf, TypeOK
<1>s. CASE UNCHANGED vars
  BY <1>s DEF vars, TypeOK
<1> QED
  BY <1>u, <1>1, <1>2, <1>3, <1>4, <1>5, <1>6, <1>7, <1>8, <1>9, <1>10,
     <1>11, <1>12, <1>s
  DEF Next, Sign, Behind

\* The row of a document never changes, and the histories only grow.
LEMMA Kept ==
  ASSUME TypeOK, UploadsInv, [Next]_vars
  PROVE  /\ \A d \in Documents : docRow[d] # None => docRow'[d] = docRow[d]
         /\ disturbed \subseteq disturbed' /\ doubtful \subseteq doubtful'
<1> USE DEF documents, signed, history
<1>1. CASE Upload
  BY <1>1 DEF Upload, StoreDocument, UploadCommit, UploadFails, UploadsInv,
     TypeOK
<1>2. CASE Sign
  BY <1>2 DEF Sign, HashDocument, HsmSign, HsmFails, PadesSign, PadesFails,
     Publish, PublishFails, Commit, RecordFails, CommitInDoubt
<1>3. CASE Behind
  BY <1>3 DEF Behind, Restart, ReplaceMaterial, RewriteDocument, DamagePdf,
     Disturb
<1>4. CASE UNCHANGED vars
  BY <1>4 DEF vars
<1> QED
  BY <1>1, <1>2, <1>3, <1>4 DEF Next

\* What a change behind the server's back finds under way is marked.
LEMMA Marked ==
  ASSUME job.step # "idle", JobInv, Disturb
  PROVE  job.signature \in disturbed' /\ doubtful' = doubtful
BY DEF JobInv, Disturb

\* What is left of a damaged PDF still says what it was.
LEMMA Damaged ==
  ASSUME TypeOK, NEW g \in Signatures, NEW s \in {"spoiled", "lost"},
         DamagePdf(g, s)
  PROVE  /\ pdf[g] \in Pdf /\ pdf' = [pdf EXCEPT ![g] = pdf'[g]]
         /\ pdf'[g] \in Pdf
         /\ pdf'[g].content = pdf[g].content /\ pdf'[g].cert = pdf[g].cert
         /\ pdf'[g].key = pdf[g].key /\ pdf'[g].tsa = pdf[g].tsa
<1>1. pdf[g] \in Pdf /\ pdf \in [Signatures -> Pdf \cup {None}]
  BY DEF DamagePdf, TypeOK
<1>2. pdf' = [pdf EXCEPT ![g] = [pdf[g] EXCEPT !.state = s]]
  BY DEF DamagePdf
<1>3. pdf'[g] = [pdf[g] EXCEPT !.state = s]
  BY <1>1, <1>2
<1>4. [pdf[g] EXCEPT !.state = s] \in Pdf
  BY <1>1 DEF Pdf
<1> QED
  BY <1>1, <1>2, <1>3, <1>4 DEF Pdf

LEMMA FilesStep ==
  ASSUME EvidenceInv, [Next]_vars
  PROVE  RowHasItsFiles' /\ UploadsInv'
<1> USE DEF documents, signed, history
<1> DEFINE Docs == \A d \in Documents : docRow[d] # None => docFile[d] # None
           Pdfs == \A g \in Signatures :
                     row[g] # None /\ row[g].profile # None => pdf[g] # None
<1>i. TypeOK /\ RowHasItsFiles /\ UploadsInv /\ JobInv
  BY DEF EvidenceInv
<1>t. /\ docFile \in [Documents -> Contents \cup {Lost, None}]
      /\ docRow \in [Documents -> Contents \cup {None}]
      /\ row \in [Signatures -> SignatureRow \cup {None}]
      /\ pdf \in [Signatures -> Pdf \cup {None}]
      /\ uploading \subseteq Documents
  BY <1>i DEF TypeOK
<1>1. UploadsInv' /\ Docs'
  <2>1. CASE Upload
    <3>1. ASSUME NEW d \in Documents, NEW c \in Contents, StoreDocument(d, c)
          PROVE  UploadsInv' /\ Docs'
      <4>1. docRow[d] = None
        BY <3>1, <1>i DEF StoreDocument, RowHasItsFiles
      <4> QED
        BY <3>1, <4>1, <1>i, <1>t
        DEF StoreDocument, RowHasItsFiles, UploadsInv
    <3>2. ASSUME NEW d \in Documents, UploadCommit(d) PROVE UploadsInv' /\ Docs'
      BY <3>2, <1>i, <1>t DEF UploadCommit, RowHasItsFiles, UploadsInv
    <3>3. ASSUME NEW d \in Documents, UploadFails(d) PROVE UploadsInv' /\ Docs'
      BY <3>3, <1>i DEF UploadFails, RowHasItsFiles, UploadsInv
    <3> QED
      BY <2>1, <3>1, <3>2, <3>3 DEF Upload
  <2>2. CASE UNCHANGED <<docFile, docRow>> /\ uploading' \subseteq uploading
    BY <2>2, <1>i DEF RowHasItsFiles, UploadsInv
  <2>3. ASSUME NEW d \in Documents, NEW c \in Contents \cup {Lost},
               RewriteDocument(d, c)
        PROVE  UploadsInv' /\ Docs'
    BY <2>3, <1>i, <1>t DEF RewriteDocument, RowHasItsFiles, UploadsInv
  <2>4. CASE Sign \/ UNCHANGED vars
    <3>1. UNCHANGED documents
      BY <2>4 DEF Sign, HashDocument, HsmSign, HsmFails, PadesSign, PadesFails,
         Publish, PublishFails, Commit, RecordFails, CommitInDoubt, vars
    <3> QED
      BY <2>2, <3>1
  <2> QED
    BY <2>1, <2>2, <2>3, <2>4
    DEF Next, Behind, Restart, ReplaceMaterial, DamagePdf
<1>2. Pdfs'
  <2>1. CASE UNCHANGED <<row, pdf>>
    BY <2>1, <1>i DEF RowHasItsFiles
  <2>2. CASE Publish
    <3>1. /\ job.signature \in Signatures /\ job.pdf \in Pdf
          /\ pdf' = [pdf EXCEPT ![job.signature] = job.pdf] /\ row' = row
      BY <2>2, <1>i DEF Publish, JobInv
    <3> QED
      BY <3>1, <1>i, <1>t DEF RowHasItsFiles
  <2>3. CASE RecordFails
    BY <2>3, <1>i, <1>t DEF RecordFails, RowHasItsFiles, JobInv
  <2>4. CASE Commit \/ \E applied \in BOOLEAN : CommitInDoubt(applied)
    <3>1. /\ job.signature \in Signatures /\ pdf[job.signature] \in Pdf
          /\ pdf' = pdf
          /\ row' \in {row, [row EXCEPT ![job.signature] = NewRow]}
      BY <2>4, <1>i DEF Commit, CommitInDoubt, JobInv
    <3> QED
      BY <3>1, <1>i, <1>t DEF RowHasItsFiles
  <2>5. ASSUME NEW g \in Signatures, NEW s \in {"spoiled", "lost"},
               DamagePdf(g, s)
        PROVE  Pdfs'
    <3>1. pdf'[g] # None /\ pdf' = [pdf EXCEPT ![g] = pdf'[g]] /\ row' = row
      BY <2>5, <1>i, Damaged DEF DamagePdf
    <3> QED
      BY <3>1, <1>i, <1>t DEF RowHasItsFiles
  <2>6. CASE Upload \/ UNCHANGED vars
    BY <2>1, <2>6 DEF Upload, StoreDocument, UploadCommit, UploadFails, vars
  <2> QED
    BY <2>1, <2>2, <2>3, <2>4, <2>5, <2>6
    DEF Next, Sign, Behind, HashDocument, HsmSign, HsmFails, PadesSign,
        PadesFails, PublishFails, Restart, ReplaceMaterial, RewriteDocument
<1> QED
  BY <1>1, <1>2 DEF RowHasItsFiles

LEMMA JobStep == EvidenceInv /\ [Next]_vars => JobInv'
<1> SUFFICES ASSUME EvidenceInv, [Next]_vars PROVE JobInv'
  OBVIOUS
<1> USE DEF documents, signed, history
<1>i. TypeOK /\ RowHasItsFiles /\ UploadsInv /\ JobInv /\ OrphansOnlyInDoubt
  BY DEF EvidenceInv
<1>t. /\ job \in Job /\ material \in Material
      /\ docFile \in [Documents -> Contents \cup {Lost, None}]
      /\ docRow \in [Documents -> Contents \cup {None}]
      /\ pdf \in [Signatures -> Pdf \cup {None}]
  BY <1>i DEF TypeOK
<1>n. ASSUME job' = NoJob PROVE JobInv'
  BY <1>n, TypesOfRecords DEF JobInv
<1>d. job.step # "idle" =>
        /\ job.document \in Documents /\ docRow[job.document] \in Contents
        /\ docFile[job.document] # None
        /\ docRow'[job.document] = docRow[job.document]
        /\ job.signature \in Signatures
  BY <1>i, Kept DEF JobInv, RowHasItsFiles
<1>1. CASE Upload
  <2>1. CASE job.step = "idle"
    BY <1>1, <2>1, <1>i
    DEF Upload, StoreDocument, UploadCommit, UploadFails, JobInv
  <2>2. CASE job.step # "idle"
    <3>1. docFile'[job.document] = docFile[job.document]
      BY <1>1, <2>2, <1>d, <1>t
      DEF Upload, StoreDocument, UploadCommit, UploadFails
    <3>2. UNCHANGED <<material, job, temps, pdf, row, disturbed, doubtful>>
      BY <1>1 DEF Upload, StoreDocument, UploadCommit, UploadFails
    <3> QED
      BY <2>2, <3>1, <3>2, <1>d, <1>i DEF JobInv
  <2> QED
    BY <2>1, <2>2
<1>2. ASSUME NEW d \in Documents, NEW g \in Signatures, HashDocument(d, g)
      PROVE  JobInv'
  <2>1. /\ docRow[d] \in Contents /\ docFile[d] = docRow[d]
        /\ row[g] = None /\ pdf[g] = None /\ g \notin temps \cup doubtful
    BY <1>2, <1>t DEF HashDocument, StoredIsIntact, UnusedName
  <2>2. /\ job'.step = "hashed" /\ job'.document = d /\ job'.signature = g
        /\ job'.hash = docRow[d]
    BY <1>2 DEF HashDocument, NoJob
  <2> QED
    BY <1>2, <2>1, <2>2 DEF HashDocument, JobInv
<1>3. CASE HsmSign
  <2>1. /\ job'.step = "detached" /\ job'.document = job.document
        /\ job'.signature = job.signature /\ job'.hash = job.hash
        /\ job'.detached = [key |-> material.key, over |-> job.hash]
    BY <1>3, <1>t DEF HsmSign, Job
  <2>2. job'.detached \in Detached
    BY <1>3, <2>1, <1>t, <1>i DEF HsmSign, JobInv, Material, Detached
  <2> QED
    BY <1>3, <2>1, <2>2, <1>i DEF HsmSign, JobInv
<1>4. ASSUME NEW tsa \in Tsas \cup {None}, PadesSign(tsa) PROVE JobInv'
  <2>1. /\ job'.step = "written" /\ job'.document = job.document
        /\ job'.signature = job.signature /\ job'.hash = job.hash
        /\ job'.detached = job.detached /\ job'.pdf = NewPdf(tsa)
    BY <1>4, <1>t DEF PadesSign, Job
  <2>2. /\ NewPdf(tsa) \in Pdf /\ KeyOf[NewPdf(tsa).cert] = NewPdf(tsa).key
        /\ NewPdf(tsa).content = docFile[job.document]
        /\ NewPdf(tsa).key = material.key /\ HasRoom(NewPdf(tsa).content)
    BY <1>4, <1>i, WrittenPdf
  <2>3. /\ job.step = "detached" /\ temps' = temps \cup {job.signature}
        /\ UNCHANGED <<documents, material, pdf, row, history>>
    BY <1>4 DEF PadesSign
  <2> QED
    BY <2>1, <2>2, <2>3, <1>i DEF JobInv
<1>5. CASE Publish
  <2>1. /\ job'.step = "published" /\ job'.document = job.document
        /\ job'.signature = job.signature /\ job'.hash = job.hash
        /\ job'.detached = job.detached /\ job'.pdf = job.pdf
    BY <1>5, <1>t DEF Publish, Job
  <2>2. /\ job.step = "written" /\ temps' = temps \ {job.signature}
        /\ pdf'[job.signature] = job.pdf
        /\ UNCHANGED <<documents, material, row, history>>
    BY <1>5, <1>t, <1>d DEF Publish
  <2> QED
    BY <2>1, <2>2, <1>i DEF JobInv
<1>6. CASE HsmFails \/ (\E cause \in Causes : PadesFails(cause))
           \/ PublishFails \/ Commit \/ RecordFails
           \/ (\E applied \in BOOLEAN : CommitInDoubt(applied))
           \/ (\E p \in Profiles : Restart(p))
  BY <1>6, <1>n DEF HsmFails, PadesFails, PublishFails, Refuse, Commit,
     RecordFails, CommitInDoubt, Restart
<1>7. ASSUME Disturb, UNCHANGED <<job, docRow, row, temps>>,
             job.step # "idle" => pdf'[job.signature] = pdf[job.signature]
      PROVE  JobInv'
  BY <1>7, <1>i, Marked DEF JobInv
<1>8. CASE Behind /\ ~ \E p \in Profiles : Restart(p)
  <2>1. ASSUME NEW g \in Signatures, NEW s \in {"spoiled", "lost"},
               DamagePdf(g, s), job.step # "idle"
        PROVE  pdf'[job.signature] = pdf[job.signature]
    BY <2>1, <1>d, <1>i, <1>t DEF DamagePdf, JobInv
  <2> QED
    BY <1>8, <1>7, <2>1
    DEF Behind, ReplaceMaterial, RewriteDocument, DamagePdf
<1>9. CASE UNCHANGED vars
  BY <1>9, <1>i DEF vars, JobInv
<1> QED
  BY <1>1, <1>2, <1>3, <1>4, <1>5, <1>6, <1>8, <1>9 DEF Next, Sign, Behind

LEMMA RowsStep == EvidenceInv /\ [Next]_vars => RowsInv'
<1> SUFFICES ASSUME EvidenceInv, [Next]_vars PROVE RowsInv'
  OBVIOUS
<1> USE DEF documents, signed, history
<1>i. TypeOK /\ UploadsInv /\ JobInv /\ RowsInv /\ RowHasItsFiles
  BY DEF EvidenceInv
<1>t. /\ row \in [Signatures -> SignatureRow \cup {None}]
      /\ pdf \in [Signatures -> Pdf \cup {None}]
      /\ job \in Job
  BY <1>i DEF TypeOK
<1>k. \A g \in Signatures : row[g] # None =>
        /\ docRow'[row[g].document] = docRow[row[g].document]
        /\ g \in disturbed => g \in disturbed'
  <2>1. ASSUME NEW g \in Signatures, row[g] # None
        PROVE  row[g].document \in Documents
               /\ docRow[row[g].document] # None
    BY <2>1, <1>t, <1>i DEF RowsInv, SignatureRow
  <2> QED
    BY <2>1, <1>i, Kept
<1>1. CASE UNCHANGED <<row, pdf>>
  BY <1>1, <1>k, <1>i DEF RowsInv
\* A file that no row names yet comes or goes.
<1>2. CASE Publish \/ RecordFails
  <2>1. /\ job.signature \in Signatures /\ row[job.signature] = None
        /\ row' = row
        /\ \A g \in Signatures \ {job.signature} : pdf'[g] = pdf[g]
    BY <1>2, <1>i, <1>t DEF Publish, RecordFails, JobInv
  <2> QED
    BY <2>1, <1>k, <1>i DEF RowsInv
<1>3. ASSUME NEW g \in Signatures, NEW s \in {"spoiled", "lost"},
             DamagePdf(g, s)
      PROVE  RowsInv'
  <2>1. /\ row' = row
        /\ \A h \in Signatures \ {g} : pdf'[h] = pdf[h]
        /\ pdf'[g].content = pdf[g].content /\ pdf'[g].cert = pdf[g].cert
        /\ pdf'[g].key = pdf[g].key /\ pdf'[g].tsa = pdf[g].tsa
    BY <1>3, <1>i, <1>t, Damaged DEF DamagePdf
  <2> QED
    BY <2>1, <1>k, <1>i DEF RowsInv
<1>4. CASE Commit \/ \E applied \in BOOLEAN : CommitInDoubt(applied)
  <2>1. /\ job.step = "published" /\ job.signature \in Signatures
        /\ pdf' = pdf /\ UNCHANGED <<docRow, disturbed>>
        /\ \/ row' = row
           \/ row' = [row EXCEPT ![job.signature] = NewRow]
    BY <1>4, <1>i DEF Commit, CommitInDoubt, JobInv
  <2>2. CASE row' = row
    BY <2>1, <2>2, <1>1
  <2>3. CASE row' = [row EXCEPT ![job.signature] = NewRow]
    <3>1. /\ row'[job.signature] = NewRow
          /\ \A g \in Signatures \ {job.signature} : row'[g] = row[g]
      BY <2>1, <2>3, <1>t
    <3>2. /\ NewRow.document = job.document /\ NewRow.hash = job.hash
          /\ NewRow.detached = job.detached
          /\ NewRow.profile = "PAdES-B-B" <=> job.pdf.tsa = None
          /\ NewRow.cert = job.pdf.cert /\ NewRow.tsa = job.pdf.tsa
      BY <2>1, <1>i, WrittenRow
    <3>3. /\ pdf[job.signature] = job.pdf
          /\ docRow[job.document] = job.hash
          /\ job.detached.over = job.hash
          /\ KeyOf[job.pdf.cert] = job.pdf.key /\ HasRoom(job.pdf.content)
          /\ job.signature \notin disturbed =>
               /\ job.pdf.content = job.hash
               /\ job.pdf.key = job.detached.key
      BY <2>1, <1>i DEF JobInv
    <3> QED
      BY <2>1, <3>1, <3>2, <3>3, <1>i DEF RowsInv
  <2> QED
    BY <2>1, <2>2, <2>3
<1>5. CASE Upload \/ UNCHANGED vars
  BY <1>1, <1>5 DEF Upload, StoreDocument, UploadCommit, UploadFails, vars
<1> QED
  BY <1>1, <1>2, <1>3, <1>4, <1>5
  DEF Next, Sign, Behind, HashDocument, HsmSign, HsmFails, PadesSign,
      PadesFails, PublishFails, Restart, ReplaceMaterial, RewriteDocument

LEMMA OrphansStep == EvidenceInv /\ [Next]_vars => OrphansOnlyInDoubt'
<1> SUFFICES ASSUME EvidenceInv, [Next]_vars,
                    NEW g \in Signatures,
                    row'[g] = None, pdf'[g] # None \/ g \in temps'
             PROVE  g \in doubtful' \/ job'.signature = g
  BY DEF OrphansOnlyInDoubt
<1> USE DEF documents, signed, history
<1>i. TypeOK /\ UploadsInv /\ JobInv /\ RowHasItsFiles
      /\ OrphansOnlyInDoubt
  BY DEF EvidenceInv
<1>t. /\ row \in [Signatures -> SignatureRow \cup {None}]
      /\ pdf \in [Signatures -> Pdf \cup {None}]
      /\ job \in Job
  BY <1>i DEF TypeOK
<1>k. doubtful \subseteq doubtful'
  BY <1>i, Kept
<1>o. row[g] = None /\ (pdf[g] # None \/ g \in temps)
        => g \in doubtful \/ job.signature = g
  BY <1>i DEF OrphansOnlyInDoubt
<1>1. CASE UNCHANGED <<row, pdf, temps>> /\ job'.signature = job.signature
  BY <1>1, <1>o, <1>k
<1>2. CASE Upload \/ UNCHANGED vars
  BY <1>1, <1>2 DEF Upload, StoreDocument, UploadCommit, UploadFails, vars
\* A call that begins takes a name without a file.
<1>3. ASSUME NEW d \in Documents, NEW h \in Signatures, HashDocument(d, h)
      PROVE  g \in doubtful' \/ job'.signature = g
  BY <1>3, <1>o, <1>k, <1>i DEF HashDocument, JobInv, NoJob
<1>4. CASE HsmSign
  BY <1>1, <1>4, <1>t DEF HsmSign, Job
<1>5. ASSUME NEW tsa \in Tsas \cup {None}, PadesSign(tsa)
      PROVE  g \in doubtful' \/ job'.signature = g
  <2>1. job'.signature = job.signature
    BY <1>5, <1>t DEF PadesSign, Job
  <2> QED
    BY <1>5, <2>1, <1>o, <1>k DEF PadesSign
<1>6. CASE Publish
  <2>1. job'.signature = job.signature
    BY <1>6, <1>t DEF Publish, Job
  <2>2. g # job.signature =>
          row[g] = None /\ (pdf[g] # None \/ g \in temps)
    BY <1>6, <1>t DEF Publish
  <2> QED
    BY <2>1, <2>2, <1>o, <1>k
\* A refusal leaves nothing under the name of its call.
<1>7. CASE HsmFails \/ (\E cause \in Causes : PadesFails(cause))
           \/ PublishFails \/ RecordFails
  <2>1. /\ job.step # "idle" /\ row' = row
        /\ job.signature \notin temps' /\ pdf'[job.signature] = None
        /\ g # job.signature => pdf'[g] = pdf[g]
        /\ temps' \subseteq temps
    BY <1>7, <1>i, <1>t
    DEF HsmFails, PadesFails, PublishFails, RecordFails, JobInv
  <2> QED
    BY <2>1, <1>o, <1>k
<1>8. CASE Commit
  <2>1. g # job.signature
    <3>1. NewRow \in SignatureRow /\ job.signature \in Signatures
      BY <1>8, <1>i, WrittenRow DEF Commit, JobInv
    <3> QED
      BY <1>8, <3>1, <1>t DEF Commit
  <2> QED
    BY <1>8, <2>1, <1>o, <1>k, <1>t DEF Commit
<1>9. ASSUME NEW applied \in BOOLEAN, CommitInDoubt(applied)
      PROVE  g \in doubtful' \/ job'.signature = g
  <2>1. g # job.signature =>
          row[g] = None /\ (pdf[g] # None \/ g \in temps)
    BY <1>9, <1>t DEF CommitInDoubt
  <2> QED
    BY <1>9, <2>1, <1>o DEF CommitInDoubt
<1>10. ASSUME NEW p \in Profiles, Restart(p)
       PROVE  g \in doubtful' \/ job'.signature = g
  BY <1>10, <1>o DEF Restart
<1>11. CASE (\E m \in Material : ReplaceMaterial(m))
            \/ (\E d \in Documents, c \in Contents \cup {Lost} :
                  RewriteDocument(d, c))
  BY <1>1, <1>11 DEF ReplaceMaterial, RewriteDocument
<1>12. ASSUME NEW h \in Signatures, NEW s \in {"spoiled", "lost"},
              DamagePdf(h, s)
       PROVE  g \in doubtful' \/ job'.signature = g
  <2>1. row' = row /\ temps' = temps /\ job' = job /\ g # h
    BY <1>12 DEF DamagePdf
  <2>2. pdf'[g] = pdf[g]
    BY <1>12, <2>1, <1>t DEF DamagePdf
  <2> QED
    BY <2>1, <2>2, <1>o, <1>k
<1> QED
  BY <1>2, <1>3, <1>4, <1>5, <1>6, <1>7, <1>8, <1>9, <1>10, <1>11, <1>12
  DEF Next, Sign, Behind

-----------------------------------------------------------------------------
(* The invariant                                                           *)

\* A new server, or one with signatures from before PAdES.
LEMMA InitEvidence == Init => EvidenceInv
<1> SUFFICES ASSUME Init PROVE EvidenceInv
  OBVIOUS
<1>1. PICK m \in Material, p \in Profiles, d \in Documents \cup {None},
           c \in Contents : Init!(m, p, d, c)
  BY DEF Init
<1>2. \A g \in Signatures :
        row[g] = None \/ /\ d \in Documents
                         /\ row[g] = [document |-> d, hash |-> c,
                              detached |-> [key |-> m.key, over |-> c],
                              profile |-> None, cert |-> None, tsa |-> None]
  BY <1>1
<1>3. [key |-> m.key, over |-> c] \in Detached
  BY DEF Detached, Material
<1>4. row \in [Signatures -> SignatureRow \cup {None}]
  <2>1. \A g \in Signatures : row[g] \in SignatureRow \cup {None}
    BY <1>2, <1>3 DEF SignatureRow
  <2> QED
    BY <1>1, <2>1
<1>5. TypeOK
  BY <1>1, <1>4, TypesOfRecords DEF TypeOK, NoEvent, Causes
<1>6. RowHasItsFiles /\ UploadsInv /\ JobInv /\ OrphansOnlyInDoubt
  BY <1>1, <1>2, TypesOfRecords
  DEF RowHasItsFiles, UploadsInv, JobInv, OrphansOnlyInDoubt
<1>7. RowsInv
  <2>1. d \in Documents => docRow[d] = c
    BY <1>1
  <2> QED
    BY <1>2, <2>1 DEF RowsInv
<1> QED
  BY <1>5, <1>6, <1>7 DEF EvidenceInv

\* Whatever fails, in whatever order: each row has its files, and the call
\* under way, the files and the rows fit each other.
THEOREM EvidenceInvariant == Spec => []EvidenceInv
<1>1. EvidenceInv /\ [Next]_vars => EvidenceInv'
  BY TypeStep, FilesStep, JobStep, RowsStep, OrphansStep DEF EvidenceInv
<1> QED
  BY InitEvidence, <1>1, PTL DEF Spec

\* A file in storage/signed without a row is what a crash or a commit in
\* doubt left, never what a refused /sign left.
THEOREM Orphans == Spec => []OrphansOnlyInDoubt
BY EvidenceInvariant, PTL DEF EvidenceInv

-----------------------------------------------------------------------------
(* What the invariant says of the rows                                     *)

LEMMA ARow ==
  ASSUME EvidenceInv, NEW g \in Signatures, row[g] # None
  PROVE  /\ row[g] \in SignatureRow
         /\ docRow[row[g].document] = row[g].hash
         /\ row[g].detached = [key |-> row[g].detached.key,
                               over |-> row[g].hash]
<1>1. row[g] \in SignatureRow
  BY DEF EvidenceInv, TypeOK
<1>2. row[g].detached \in Detached /\ row[g].detached.over = row[g].hash
  BY <1>1 DEF EvidenceInv, RowsInv, SignatureRow
<1> QED
  BY <1>1, <1>2 DEF Detached, EvidenceInv, RowsInv

LEMMA ItsPdf ==
  ASSUME EvidenceInv, NEW g \in Signatures,
         row[g] # None, row[g].profile # None
  PROVE  /\ pdf[g] \in Pdf
         /\ KeyOf[pdf[g].cert] = pdf[g].key /\ HasRoom(pdf[g].content)
         /\ pdf[g].cert = row[g].cert /\ pdf[g].tsa = row[g].tsa
         /\ row[g].profile \in Profiles
         /\ row[g].profile = "PAdES-B-B" <=> pdf[g].tsa = None
         /\ g \notin disturbed => /\ pdf[g].content = row[g].hash
                                  /\ pdf[g].key = row[g].detached.key
<1>1. pdf[g] \in Pdf
  BY DEF EvidenceInv, TypeOK, RowHasItsFiles
<1>2. row[g].profile \in Profiles
  BY ARow DEF SignatureRow
<1> QED
  BY <1>1, <1>2 DEF EvidenceInv, RowsInv

\* The PDF, the detached signature and the row are of one and the same
\* content, although /sign opens the stored file twice.
THEOREM OneContent == Spec => []OneContentSigned
<1>1. EvidenceInv => OneContentSigned
  <2> SUFFICES ASSUME EvidenceInv, NEW g \in Signatures, row[g] # None,
                      row[g].profile # None, g \notin disturbed
               PROVE  /\ pdf[g].content = row[g].hash
                      /\ row[g].detached = [key |-> pdf[g].key,
                                            over |-> row[g].hash]
                      /\ docRow[row[g].document] = row[g].hash
    BY DEF OneContentSigned
  <2> QED
    BY ARow, ItsPdf
<1> QED
  BY <1>1, EvidenceInvariant, PTL

\* What was signed verifies while the files are what they were and the
\* material is the signer's, whatever profile is configured meanwhile.
THEOREM Verifies == Spec => []SignedVerifies
<1>1. EvidenceInv => SignedVerifies
  <2> SUFFICES ASSUME EvidenceInv, NEW g \in Signatures,
                      row[g] # None, g \notin disturbed,
                      docFile[row[g].document] = row[g].hash,
                      material.key = row[g].detached.key,
                      row[g].profile # None =>
                        /\ pdf[g].state = "intact"
                        /\ material.cert = row[g].cert
                        /\ material.anchor = IssuerOf[row[g].cert]
                        /\ row[g].tsa # None =>
                             material.tsaAnchor = IssuerOf[row[g].tsa]
               PROVE  VerifiesAsValid(g)
    BY DEF SignedVerifies
  <2>1. HashHolds(g) /\ DetachedHolds(g)
    BY ARow DEF HashHolds, DetachedHolds
  <2>2. ASSUME row[g].profile # None PROVE PadesHolds(g)
    <3>1. /\ pdf[g] \in Pdf /\ pdf[g].tsa \in Tsas \cup {None}
          /\ KeyOf[pdf[g].cert] = pdf[g].key
          /\ pdf[g].cert = row[g].cert /\ pdf[g].tsa = row[g].tsa
          /\ row[g].profile \in Profiles
          /\ row[g].profile = "PAdES-B-B" <=> pdf[g].tsa = None
          /\ pdf[g].key = row[g].detached.key
      BY <2>2, ItsPdf DEF Pdf
    <3>2. MaterialMatches(material)
      BY <2>2, <3>1 DEF MaterialMatches
    <3>3. row[g].profile = "PAdES-B-T" =>
            row[g].tsa \in Tsas /\ material.tsaAnchor \in Anchors
      BY <2>2, <3>1
    <3>4. TsaConfigured(material, row[g].profile)
      BY <3>3 DEF TsaConfigured
    <3>5. TimestampMeets(pdf[g], material, row[g].profile)
      BY <2>2, <3>1, <3>3 DEF TimestampMeets, Profiles
    <3>6. Validates(pdf[g], material, row[g].profile)
      BY <2>2, <3>1, <3>5 DEF Validates
    <3> QED
      BY <3>1, <3>2, <3>4, <3>6 DEF PadesHolds, ExpectedProfile
  <2>3. row[g].profile = None => PadesHolds(g)
    BY DEF PadesHolds
  <2> QED
    BY <2>1, <2>2, <2>3 DEF VerifiesAsValid
<1> QED
  BY <1>1, EvidenceInvariant, PTL

\* What verifies as valid is whole: the stored document is the one that was
\* hashed, and an intact signed PDF covers it.
THEOREM Whole == Spec => []ValidIsWhole
<1>1. EvidenceInv => ValidIsWhole
  <2> SUFFICES ASSUME EvidenceInv, NEW g \in Signatures, row[g] # None,
                      VerifiesAsValid(g)
               PROVE  /\ docFile[row[g].document] = row[g].detached.over
                      /\ row[g].profile # None =>
                           /\ pdf[g].state = "intact"
                           /\ \/ pdf[g].content = docFile[row[g].document]
                              \/ g \in disturbed
    BY DEF ValidIsWhole
  <2>1. docFile[row[g].document] = row[g].hash
        /\ row[g].detached.over = row[g].hash
    BY DEF VerifiesAsValid, HashHolds, EvidenceInv, RowsInv
  <2>2. row[g].profile # None => pdf[g].state = "intact"
    BY DEF VerifiesAsValid, PadesHolds, Validates
  <2> QED
    BY <2>1, <2>2, ItsPdf
<1> QED
  BY <1>1, EvidenceInvariant, PTL

\* GET /user/documents/{id}/signed offers the last signature of the document
\* and no older one, over the content the document has had all along.
THEOREM LastSignature == Spec => []OwnerGetsTheLastSignature
<1>1. EvidenceInv => OwnerGetsTheLastSignature
  <2> SUFFICES ASSUME EvidenceInv, NEW g \in Signatures,
                      row[g] # None, row[g].profile # None,
                      pdf[g].state # "lost",
                      \A h \in Signatures :
                        row[h] # None /\ row[h].profile # None
                          /\ row[h].document = row[g].document => h <= g
               PROVE  /\ SignedFilesOf(row[g].document) = {g}
                      /\ g \notin disturbed =>
                           pdf[g].content = docRow[row[g].document]
    BY DEF OwnerGetsTheLastSignature
  <2> DEFINE R == {h \in Signatures : /\ row[h] # None
                                      /\ row[h].document = row[g].document
                                      /\ row[h].profile # None}
  <2>1. g \in R /\ (\A h \in R : h \in Nat /\ h <= g) /\ g \in Nat
    OBVIOUS
  <2>2. LatestOf(R) = {g}
    <3>1. ASSUME NEW h \in LatestOf(R) PROVE h = g
      <4>1. h \in Nat /\ h <= g /\ g <= h
        BY <2>1, <3>1 DEF LatestOf
      <4> QED
        BY <2>1, <4>1
    <3>2. g \in LatestOf(R)
      BY <2>1 DEF LatestOf
    <3> QED
      BY <3>1, <3>2
  <2>3. pdf[g] # None
    BY ItsPdf
  <2>4. SignedFilesOf(row[g].document) = {g}
    BY <2>2, <2>3 DEF SignedFilesOf
  <2> QED
    BY <2>4, ARow, ItsPdf
<1> QED
  BY <1>1, EvidenceInvariant, PTL

-----------------------------------------------------------------------------
(* What sign_pdf draws                                                     *)

\* A visible signature of every signed PDF that a row names.
Drawn ==
  \A g \in Signatures : row[g] # None /\ row[g].profile # None =>
    LET path == PageOf[pdf[g].content] IN
    PageBox(path) \in Boxes /\ Fits(VisibleSignatureBox(path), PageBox(path))

\* sign_pdf never stores a PDF whose signature is cut off by the page, or
\* drawn on a page without a usable box.
THEOREM DrawnOnThePage == Spec => []Drawn
<1>1. EvidenceInv => Drawn
  <2> SUFFICES ASSUME EvidenceInv, NEW g \in Signatures, row[g] # None,
                      row[g].profile # None
               PROVE  LET path == PageOf[pdf[g].content] IN
                      /\ PageBox(path) \in Boxes
                      /\ Fits(VisibleSignatureBox(path), PageBox(path))
    BY DEF Drawn
  <2> DEFINE path == PageOf[pdf[g].content]
  <2>1. VisibleSignatureBox(path) # Refused
    BY ItsPdf DEF HasRoom
  <2>2. /\ PageBox(path) \in Boxes
        /\ VisibleSignatureBox(path) = SignatureBoxIn(PageBox(path))
    BY <2>1 DEF VisibleSignatureBox
  <2> QED
    BY <2>1, <2>2, BoxFits
<1> QED
  BY <1>1, EvidenceInvariant, PTL
===============================================================================

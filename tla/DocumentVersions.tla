-------------------------- MODULE DocumentVersions --------------------------
(***************************************************************************)
(* One stored file (src/src/engines/document): its versions, the client's  *)
(* sign-off or signature of a version, and the indexing of each version's  *)
(* text by the worker.  An upload and a change of the file hold the lock   *)
(* of its document_groups row; a sign-off reads a documents row unlocked   *)
(* and later writes it by id.                                              *)
(*                                                                         *)
(* Vendor gates are approved, except that no OCR service is wired in (as   *)
(* shipped), so a scanned file waits as 'ocr_pending'.  Titles, folders,   *)
(* sharing, legal holds and archiving change nothing here and are left out.*)
(***************************************************************************)
EXTENDS Naturals, Sequences

CONSTANTS
    Contents,     \* the files that can be uploaded, no two with the same bytes
    Requests,     \* requests under way at a time
    Workers,      \* ticks indexing at a time
    MaxVersions,  \* bound on the versions of the file
    MaxAsks,      \* bound on the sign-off tasks ever created
    MaxAttempts   \* extractionMaxAttempts

VARIABLES
    versions, \* the documents rows, with their file and text rows
    group,    \* the document_groups row
    asks,     \* open client sign-off tasks: [doc |-> version, id |-> number]
    asked,    \* sign-off tasks created
    retained, \* the matter's stage, and its intake session closed with it
    request,  \* what each request has read
    worker    \* what each tick is indexing

vars == <<versions, group, asks, asked, retained, request, worker>>

Statuses == {"uploaded", "client_review", "client_approved", "in_review", "superseded", "final"}
AllowedTypes == {"pdf", "jpeg", "png", "tiff", "heic", "plain", "csv", "markdown", "html",
                 "rtf", "doc", "docx", "xls", "xlsx", "eml"}
TextStatuses == {"pending", "extracted", "ocr_pending", "unsupported", "failed", "blocked"}
VersionType == [number : 1..MaxVersions, bytes : Contents, status : Statuses, restricted : BOOLEAN,
                text : TextStatuses, attempts : 0..MaxAttempts]
GroupType == [current : 1..MaxVersions, agreement : BOOLEAN]
Idle == [op |-> "none"]

-----------------------------------------------------------------------------
(* What is uploaded: the magic number of the bytes, what the browser or    *)
(* the file's name says they are, what is found inside, the size, whether  *)
(* the uploader's checksum agrees, and what can be read of the text.       *)

Signatures == {"pdf", "jpeg", "png", "tiff", "heic", "gif", "exe", "ole", "zip", "rtf", "text", "none"}
ContentType == [signature : Signatures, declared : AllowedTypes \cup {"msg", "other"},
                holds : {"docx", "xlsx", "pptx", "html", "other"},
                size : {"empty", "small", "large", "too_large"}, intact : BOOLEAN,
                text : {"layer", "scan", "locked", "damaged"}]
ContentAssumption == Contents \subseteq ContentType

\* The type of the bytes; what is declared only tells apart what the bytes do not.
SniffMimeType(file) ==
    CASE file.signature = "zip" -> IF file.holds \in {"docx", "xlsx", "pptx"} THEN file.holds ELSE "zip"
      [] file.signature = "ole" -> IF file.declared \in {"doc", "xls", "msg"} THEN file.declared ELSE "ole"
      [] file.signature = "text" ->
            IF file.holds = "html" THEN "html"
            ELSE IF file.declared \in {"eml", "csv", "markdown"} THEN file.declared ELSE "plain"
      [] OTHER -> file.signature

CheckUpload(file) ==
    /\ file.size \in {"small", "large"}
    /\ file.intact
    /\ SniffMimeType(file) \in AllowedTypes

\* The Word or Excel file's parts are unzipped, as far as the zip can be read.
OfficeText(file) == IF file.text = "damaged" THEN "failed" ELSE "extracted"
\* A locked PDF cannot be read; one with hardly a letter in it is a scan.
PdfText(file) ==
    CASE file.text = "locked" -> "unsupported"
      [] file.text = "layer" -> "extracted"
      [] OTHER -> "ocr_pending"
ExtractText(file) ==
    LET type == SniffMimeType(file)
    IN  CASE type \in {"plain", "csv", "markdown", "html", "rtf", "eml"} -> "extracted"
          [] type = "pdf" -> PdfText(file)
          [] type \in {"docx", "xlsx"} -> OfficeText(file)
          [] type \in {"jpeg", "png", "tiff", "heic", "gif"} -> "ocr_pending"
          [] OTHER -> "unsupported"

\* A small file is indexed at once, a large one by the worker.
TextOnUpload(file) == IF file.size = "large" THEN "pending" ELSE ExtractText(file)
AttemptsOnUpload(text) == IF text \in {"pending", "blocked"} THEN 0 ELSE 1

-----------------------------------------------------------------------------
\* An ordinary file, or an engagement agreement just sent for signature.
NewFile(agreement, bytes) ==
    [number |-> 1, bytes |-> bytes, restricted |-> FALSE, attempts |-> AttemptsOnUpload(TextOnUpload(bytes)),
     status |-> IF agreement THEN "client_review" ELSE "uploaded", text |-> TextOnUpload(bytes)]

Init ==
    /\ \E agreement \in BOOLEAN, bytes \in {c \in Contents : CheckUpload(c)} :
          /\ versions = <<NewFile(agreement, bytes)>>
          /\ group = [current |-> 1, agreement |-> agreement]
    /\ asks = {} /\ asked = 0
    /\ retained = FALSE
    /\ request = [p \in Requests |-> Idle]
    /\ worker = [w \in Workers |-> Idle]

Current == versions[group.current]
\* Seeded bug: the group row is read without FOR UPDATE.
GroupNotLocked == FALSE

GroupLocked == \E p \in Requests : request[p].op = "upload"

Reads(p, r) ==
    /\ request[p] = Idle
    /\ request' = [request EXCEPT ![p] = r]
    /\ UNCHANGED <<versions, group, asks, asked, retained, worker>>
Done(p) == request' = [request EXCEPT ![p] = Idle]

-----------------------------------------------------------------------------
(* Uploads and changes of the tag.                                         *)

\* The same bytes as the current version make no new one.
BeginUpload(p, bytes) ==
    /\ ~GroupLocked
    /\ Len(versions) < MaxVersions
    /\ CheckUpload(bytes)
    /\ bytes # Current.bytes
    /\ Reads(p, [op |-> "upload", bytes |-> bytes, previous |-> group.current,
                 version |-> Current.number + 1, restricted |-> Current.restricted,
                 supersede |-> Current.status # "superseded"])

\* What the malware scan finds infected is never indexed.
CommitUpload(p) ==
    /\ request[p].op = "upload"
    /\ \E text \in {"blocked", TextOnUpload(request[p].bytes)} :
          versions' = Append(
              [v \in DOMAIN versions |->
                  IF v = request[p].previous /\ request[p].supersede
                  THEN [versions[v] EXCEPT !.status = "superseded"] ELSE versions[v]],
              [number |-> request[p].version, bytes |-> request[p].bytes, status |-> "uploaded",
               restricted |-> request[p].restricted, text |-> text,
               attempts |-> AttemptsOnUpload(text)])
    /\ group' = [group EXCEPT !.current = Len(versions')]
    /\ Done(p)
    /\ UNCHANGED <<asks, asked, retained, worker>>

\* The storage refuses, or the transaction is rolled back.
Abandon(p) ==
    /\ request[p] # Idle
    /\ Done(p)
    /\ UNCHANGED <<versions, group, asks, asked, retained, worker>>

Shareable(version) == ~version.restricted

\* The tag of the current version is changed.
Retag ==
    /\ ~GroupLocked
    /\ versions' = [versions EXCEPT ![group.current].restricted = ~Current.restricted]
    /\ UNCHANGED <<group, asks, asked, retained, request, worker>>

-----------------------------------------------------------------------------
(* The client's sign-off of an ordinary file.                              *)

Writes(v, status) == versions' = [versions EXCEPT ![v].status = status]

ReadForSignoff(p, v) ==
    /\ ~group.agreement /\ asked < MaxAsks
    /\ versions[v].status \in {"uploaded", "in_review"}
    /\ Shareable(versions[v])
    /\ Reads(p, [op |-> "request", doc |-> v])

RequestClientSignoff(p) ==
    /\ request[p].op = "request" /\ asked < MaxAsks
    /\ Writes(request[p].doc, "client_review")
    /\ asks' = asks \cup {[doc |-> request[p].doc, id |-> asked + 1]}
    /\ asked' = asked + 1
    /\ Done(p)
    /\ UNCHANGED <<group, retained, worker>>

OpenAsks(v) == {t \in asks : t.doc = v}

ReadForDecision(p, v) ==
    /\ ~group.agreement
    /\ versions[v].status = "client_review"
    /\ \/ OpenAsks(v) = {} /\ Reads(p, [op |-> "decide", doc |-> v, tasks |-> {}])
       \/ \E t \in OpenAsks(v) : Reads(p, [op |-> "decide", doc |-> v, tasks |-> {t}])

\* Completing a task that has been closed meanwhile fails the whole request.
RecordClientDecision(p, status) ==
    /\ request[p].op = "decide"
    /\ request[p].tasks \subseteq asks
    /\ Writes(request[p].doc, status)
    /\ asks' = asks \ request[p].tasks
    /\ Done(p)
    /\ UNCHANGED <<group, asked, retained, worker>>

-----------------------------------------------------------------------------
(* The signature of an engagement agreement: the client, then the firm.    *)

ReadAgreement(p, v, status, op) ==
    /\ group.agreement
    /\ versions[v].status = status
    /\ Reads(p, [op |-> op, doc |-> v])

RecordClientSignature(p) ==
    /\ request[p].op = "sign"
    /\ Writes(request[p].doc, "client_approved")
    /\ Done(p)
    /\ UNCHANGED <<group, asks, asked, retained, worker>>

RecordFirmCountersignature(p) ==
    /\ request[p].op = "countersign"
    /\ Writes(request[p].doc, "final")
    /\ retained' = TRUE
    /\ Done(p)
    /\ UNCHANGED <<group, asks, asked, worker>>

-----------------------------------------------------------------------------
(* The worker's backlog of texts.                                          *)

ReadText(w, v) ==
    /\ worker[w] = Idle
    /\ versions[v].text = "pending" /\ versions[v].attempts < MaxAttempts
    /\ worker' = [worker EXCEPT ![w] = [op |-> "index", doc |-> v, attempts |-> versions[v].attempts]]
    /\ UNCHANGED <<versions, group, asks, asked, retained, request>>

AttemptsAfter(attempts) == attempts + 1

WriteText(w, text, attempts) ==
    /\ worker[w].op = "index"
    /\ versions' = [versions EXCEPT ![worker[w].doc] = [@ EXCEPT !.text = text, !.attempts = attempts]]
    /\ worker' = [worker EXCEPT ![w] = Idle]
    /\ UNCHANGED <<group, asks, asked, retained, request>>

\* The storage fails once more, or gives bytes with another checksum, or the
\* text is read; waiting for an OCR service is no attempt.
IndexVersionText(w) ==
    /\ worker[w].op = "index"
    /\ LET text == ExtractText(versions[worker[w].doc].bytes)
           attempts == AttemptsAfter(worker[w].attempts)
       IN  \/ WriteText(w, IF attempts >= MaxAttempts THEN "failed" ELSE "pending", attempts)
           \/ WriteText(w, "failed", attempts)
           \/ WriteText(w, text, IF text = "ocr_pending" THEN worker[w].attempts ELSE attempts)

-----------------------------------------------------------------------------
Next ==
    \/ Retag
    \/ \E p \in Requests :
          \/ \E bytes \in Contents : BeginUpload(p, bytes)
          \/ CommitUpload(p) \/ Abandon(p)
          \/ RequestClientSignoff(p)
          \/ \E status \in {"client_approved", "in_review"} : RecordClientDecision(p, status)
          \/ RecordClientSignature(p)
          \/ RecordFirmCountersignature(p)
          \/ \E v \in DOMAIN versions :
                \/ ReadForSignoff(p, v) \/ ReadForDecision(p, v)
                \/ ReadAgreement(p, v, "client_review", "sign")
                \/ ReadAgreement(p, v, "client_approved", "countersign")
    \/ \E w \in Workers :
          \/ \E v \in DOMAIN versions : ReadText(w, v)
          \/ IndexVersionText(w)

Spec == Init /\ [][Next]_vars

\* The tick comes every minute, takes the oldest pending texts, and ends.
Fairness ==
    /\ \A v \in 1..MaxVersions :
          WF_vars(\E w \in Workers : v \in DOMAIN versions /\ ReadText(w, v))
    /\ \A w \in Workers : WF_vars(IndexVersionText(w))
FairSpec == Spec /\ Fairness

-----------------------------------------------------------------------------
(* Properties.                                                             *)

TypeOK ==
    /\ versions \in Seq(VersionType)
    /\ group \in GroupType
    /\ asks \subseteq [doc : 1..MaxVersions, id : 1..MaxAsks]
    /\ retained \in BOOLEAN

\* Concurrent uploads never make two versions of one number, the newest
\* version is the current one, and no version repeats the bytes of the last.
VersionsAreConsecutive ==
    /\ \A v \in DOMAIN versions : versions[v].number = v
    /\ group.current = Len(versions)
    /\ \A v \in 2..Len(versions) : versions[v].bytes # versions[v - 1].bytes

\* However often the storage fails, and whichever ticks index it at the same
\* time, every version's text is settled.
Unsettled(v) == v \in DOMAIN versions /\ versions[v].text = "pending"
IndexingSettles == \A v \in 1..MaxVersions : Unsettled(v) ~> ~Unsettled(v)

\* "The old approval request is withdrawn": what the client is asked to sign
\* off still waits for the answer.
AsksCanBeAnswered == \A t \in asks : versions[t.doc].status = "client_review"
=============================================================================

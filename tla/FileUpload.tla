----------------------------- MODULE FileUpload -----------------------------
(***************************************************************************)
(* One uploaded file: the upload with its scan, metadata and thumbnails,   *)
(* the requests of its user, and the cleanup, over a storage backend that  *)
(* may fail.  Source: src/src/infrastructure/file-upload.                  *)
(*                                                                         *)
(* Code between two awaits is one step; save writes the whole row of the   *)
(* entity at hand, and inserts it again when it is gone.  Contents are     *)
(* reduced to what the scan engines would say of them.                     *)
(***************************************************************************)
EXTENDS Integers, Sequences

CONSTANTS
    FileCalls,    \* requests under way (bound)
    Backends,     \* storage backends that may be configured
    MaxFileCalls, \* bound on requests
    MaxFileFaults \* bound on failures of the storage and the database

ASSUME FileAssumption ==
    /\ Backends \subseteq {"local", "s3", "azure_blob"} /\ Backends # {}
    /\ {MaxFileCalls, MaxFileFaults} \subseteq Nat

VARIABLES
    backend,   \* of the file
    scanVerdict,   \* what the scan engines say of its content
    image,     \* whether it is an image
    fileRow,   \* its row
    object,    \* whether the backend holds it
    thumbs,    \* rows of thumbnails
    upload,    \* the upload: where it is, and the entity in its memory
    fileCall, fileCalls, fileFaults,
    offered,   \* the file validate has last looked at, and the limits it was given
    refusals   \* the errors it found

validationVars == <<offered, refusals>>
fileVars == <<backend, scanVerdict, image, fileRow, object, thumbs, upload, fileCall, fileCalls, fileFaults,
              offered, refusals>>
fixed == <<backend, scanVerdict, image>>

NoFile == [status |-> "none", orphaned |-> FALSE, downloads |-> 0]
NoOffer == [name |-> <<>>, type |-> "none", content |-> "none", size |-> 0, max |-> 0, allowed |-> {}]
FileRow == [status : {"none", "processing", "ready", "infected", "deleted"},
            orphaned : BOOLEAN, downloads : 0..MaxFileCalls]
NoUpload == [pc |-> "idle", row |-> NoFile]

FileInit ==
    /\ backend \in Backends
    /\ scanVerdict \in {"clean", "infected"}
    /\ image \in BOOLEAN
    /\ fileRow = NoFile
    /\ object = FALSE
    /\ thumbs = 0
    /\ upload = [pc |-> "new", mem |-> NoFile, scanned |-> FALSE]
    /\ fileCall = [r \in FileCalls |-> NoUpload]
    /\ fileCalls = 0 /\ fileFaults = 0
    /\ offered = NoOffer
    /\ refusals = {}

Fault == fileFaults < MaxFileFaults /\ fileFaults' = fileFaults + 1
Stored == fileRow # NoFile

-----------------------------------------------------------------------------
(* The storage backends *)

\* LocalStorageBackend throws when it cannot write.
LocalUpload ==
    /\ backend = "local"
    /\ \/ object' = TRUE /\ upload' = [upload EXCEPT !.pc = "row"] /\ UNCHANGED fileFaults
       \/ Fault /\ UNCHANGED object /\ upload' = [upload EXCEPT !.pc = "failed"]

\* S3StorageBackend and AzureBlobStorageBackend hide the error of an upload:
\* the caller goes on as if the object were there.
S3Upload ==
    /\ backend = "s3"
    /\ upload' = [upload EXCEPT !.pc = "row"]
    /\ \/ object' = TRUE /\ UNCHANGED fileFaults
       \/ Fault /\ UNCHANGED object

AzureUpload ==
    /\ backend = "azure_blob"
    /\ upload' = [upload EXCEPT !.pc = "row"]
    /\ \/ object' = TRUE /\ UNCHANGED fileFaults
       \/ Fault /\ UNCHANGED object

\* delete of each: the local one throws, the others hide the error.
LocalDelete == backend = "local" /\ object' = FALSE /\ UNCHANGED fileFaults
S3Delete ==
    /\ backend = "s3"
    /\ \/ object' = FALSE /\ UNCHANGED fileFaults
       \/ Fault /\ UNCHANGED object
AzureDelete ==
    /\ backend = "azure_blob"
    /\ \/ object' = FALSE /\ UNCHANGED fileFaults
       \/ Fault /\ UNCHANGED object
DeleteObject == LocalDelete \/ S3Delete \/ AzureDelete

-----------------------------------------------------------------------------
(* FileStorageService.upload *)

\* After the validation, which refuses a file before anything is stored
StoreObject ==
    /\ upload.pc = "new"
    /\ LocalUpload \/ S3Upload \/ AzureUpload
    /\ UNCHANGED <<fixed, fileRow, thumbs, fileCall, fileCalls>>

\* The first save.  When it fails the object stays behind without a row.
SaveFile ==
    /\ upload.pc = "row"
    /\ \/ /\ upload' = [upload EXCEPT !.pc = "scan", !.mem = [NoFile EXCEPT !.status = "processing"]]
          /\ fileRow' = upload'.mem
          /\ UNCHANGED fileFaults
       \/ Fault /\ upload' = [upload EXCEPT !.pc = "failed"] /\ UNCHANGED fileRow
    /\ UNCHANGED <<fixed, object, thumbs, fileCall, fileCalls>>

\* The engines of SignatureScanEngine: their verdict on the content
Scanned == IF scanVerdict = "clean" THEN "processing" ELSE "infected"

\* scanFile writes the verdict into the entity and saves it, and then the
\* result; either save may throw.
ScanFile(mem, returns) ==
    IF returns THEN fileRow' = mem /\ UNCHANGED fileFaults
    ELSE Fault /\ fileRow' \in {fileRow, mem}

\* What the scan throws is logged, and the upload has no result.
UploadScans ==
    /\ upload.pc = "scan"
    /\ LET mem == [upload.mem EXCEPT !.status = Scanned]
       IN  \E returns \in BOOLEAN :
              /\ ScanFile(mem, returns)
              /\ upload' = [pc |-> "metadata", mem |-> mem, scanned |-> returns]
    /\ UNCHANGED <<fixed, object, thumbs, fileCall, fileCalls>>

\* extractMetadata saves the entity.
ExtractMetadata(mem) ==
    \/ fileRow' = mem /\ UNCHANGED fileFaults
    \/ Fault /\ UNCHANGED fileRow

UploadExtracts ==
    /\ upload.pc = "metadata"
    /\ upload' = [upload EXCEPT !.pc = IF image THEN "thumbnails" ELSE "finish"]
    /\ ExtractMetadata(upload.mem)
    /\ UNCHANGED <<fixed, object, thumbs, fileCall, fileCalls>>

\* generateThumbnail saves a row; the bytes of a thumbnail are not stored
\* anywhere.
GenerateThumbnails ==
    \/ thumbs' = 2 /\ UNCHANGED fileFaults
    \/ Fault /\ thumbs' \in {0, 1}

\* Two thumbnails; the second is not tried when the first throws.
UploadThumbnails ==
    /\ upload.pc = "thumbnails"
    /\ upload' = [upload EXCEPT !.pc = "finish"]
    /\ GenerateThumbnails
    /\ UNCHANGED <<fixed, fileRow, object, fileCall, fileCalls>>

\* Mutant of Finished: a file that has a scan result is ready.
FinishedAnyway == IF upload.scanned THEN [upload.mem EXCEPT !.status = "ready"] ELSE upload.mem

\* Ready unless there is no scan result or it says infected
Finished ==
    IF upload.scanned /\ scanVerdict # "infected" THEN [upload.mem EXCEPT !.status = "ready"]
    ELSE upload.mem

\* The last save, of the entity as the upload has it
FinishUpload ==
    /\ upload.pc = "finish"
    /\ upload' = [upload EXCEPT !.pc = "done"]
    /\ \/ fileRow' = Finished /\ UNCHANGED fileFaults
       \/ Fault /\ UNCHANGED fileRow
    /\ UNCHANGED <<fixed, object, thumbs, fileCall, fileCalls>>

-----------------------------------------------------------------------------
(* Requests: each reads the row (getById) and saves what it has read *)

ReadFile(r, pc) ==
    /\ fileCall[r].pc = "idle"
    /\ fileCalls < MaxFileCalls /\ fileCalls' = fileCalls + 1
    /\ Stored
    /\ fileCall' = [fileCall EXCEPT ![r] = [pc |-> pc, row |-> fileRow]]
    /\ UNCHANGED <<fixed, fileRow, object, thumbs, upload, fileFaults>>

Saves(r, row) ==
    /\ fileRow' = row
    /\ fileCall' = [fileCall EXCEPT ![r] = NoUpload]
    /\ UNCHANGED <<fixed, object, thumbs, upload, fileCalls, fileFaults>>

\* updateMetadata
UpdateMetadata(r) == ReadFile(r, "metadata")
UpdateMetadataSaves(r) == fileCall[r].pc = "metadata" /\ Saves(r, fileCall[r].row)

\* markOrphaned
MarkOrphaned(r) == ReadFile(r, "orphan")
MarkOrphanedSaves(r) ==
    fileCall[r].pc = "orphan" /\ Saves(r, [fileCall[r].row EXCEPT !.orphaned = TRUE])

\* download of a file that is ready, and the count that is saved afterwards
Download(r) == fileRow.status = "ready" /\ ReadFile(r, "download")
DownloadSaves(r) ==
    /\ fileCall[r].pc = "download"
    /\ object
    /\ Saves(r, [fileCall[r].row EXCEPT !.downloads = @ + 1])

\* The backend has no such object.
DownloadFails(r) ==
    /\ fileCall[r].pc = "download"
    /\ ~object
    /\ fileCall' = [fileCall EXCEPT ![r] = NoUpload]
    /\ UNCHANGED <<fixed, fileRow, object, thumbs, upload, fileCalls, fileFaults>>

\* getDownloadUrl, for a file in any state
GetDownloadUrl(r) == ReadFile(r, "url")
GetDownloadUrlSaves(r) ==
    fileCall[r].pc = "url" /\ Saves(r, [fileCall[r].row EXCEPT !.downloads = @ + 1])

\* delete: the object first, the row keeps the status.
DeleteFile(r) == ReadFile(r, "delete")
DeleteFileObject(r) ==
    /\ fileCall[r].pc = "delete"
    /\ DeleteObject
    /\ fileCall' = [fileCall EXCEPT ![r].pc = "deleted"]
    /\ UNCHANGED <<fixed, fileRow, thumbs, upload, fileCalls>>
DeleteFileSaves(r) ==
    fileCall[r].pc = "deleted" /\ Saves(r, [fileCall[r].row EXCEPT !.status = "deleted"])

-----------------------------------------------------------------------------
(* FileCleanupService *)

\* cleanup picks an orphaned, expired or infected file.  Any file may have
\* expired.
Cleanup(r) == ReadFile(r, "cleanup")

\* deleteFileAndThumbnails: the object, the thumbnails, and then the row.
CleanupObject(r) ==
    /\ fileCall[r].pc = "cleanup"
    /\ DeleteObject
    /\ fileCall' = [fileCall EXCEPT ![r].pc = "remove"]
    /\ UNCHANGED <<fixed, fileRow, thumbs, upload, fileCalls>>

CleanupRemoves(r) ==
    /\ fileCall[r].pc = "remove"
    /\ thumbs' = 0
    /\ fileRow' = NoFile
    /\ fileCall' = [fileCall EXCEPT ![r] = NoUpload]
    /\ UNCHANGED <<fixed, object, upload, fileCalls, fileFaults>>

\* A local file that cannot be removed ends the request, of a user or of the
\* cleanup, before it touches the row.
LocalDeleteThrows(r) ==
    /\ fileCall[r].pc \in {"delete", "cleanup"} /\ backend = "local"
    /\ Fault
    /\ fileCall' = [fileCall EXCEPT ![r] = NoUpload]
    /\ UNCHANGED <<fixed, fileRow, object, thumbs, upload, fileCalls>>

FileNext ==
    /\ \/ StoreObject \/ SaveFile \/ UploadScans \/ UploadExtracts \/ UploadThumbnails \/ FinishUpload
       \/ \E r \in FileCalls :
             \/ UpdateMetadata(r) \/ UpdateMetadataSaves(r)
             \/ MarkOrphaned(r) \/ MarkOrphanedSaves(r)
             \/ Download(r) \/ DownloadSaves(r) \/ DownloadFails(r)
             \/ GetDownloadUrl(r) \/ GetDownloadUrlSaves(r)
             \/ DeleteFile(r) \/ DeleteFileObject(r) \/ DeleteFileSaves(r)
             \/ Cleanup(r) \/ CleanupObject(r) \/ CleanupRemoves(r) \/ LocalDeleteThrows(r)
    /\ UNCHANGED validationVars

-----------------------------------------------------------------------------
(* FileValidationService.  A name is the sequence of its parts between dots, *)
(* in lower case; the tables are reduced to types that behave differently,   *)
(* and a content to the format its first bytes belong to.                    *)

DefaultMax == 2
BlockedExtensions == {"exe", "js"}
AllowedMimeTypes ==
    [IMAGE |-> {"image/jpeg", "image/webp"}, DOCUMENT |-> {"application/pdf", "office", "text/plain"},
     VIDEO |-> {"video/mp4", "video/webm"}, AUDIO |-> {"audio/wav", "audio/mp4"},
     ARCHIVE |-> {"application/zip"}]

\* categorizeFile
CategoryOf(type) ==
    IF \E k \in DOMAIN AllowedMimeTypes : type \in AllowedMimeTypes[k]
    THEN CHOOSE k \in DOMAIN AllowedMimeTypes : type \in AllowedMimeTypes[k]
    ELSE "OTHER"

ExtractExtension(name) == IF Len(name) > 1 THEN name[Len(name)] ELSE ""

\* detectMimeTypeFromBuffer: what the first bytes of a format say.  Office
\* documents are zip containers; every RIFF file that is not WebP counts as
\* WebM, which itself is not recognised.
Detected(content) ==
    CASE content = "jpeg" -> "image/jpeg"
      [] content = "webp" -> "image/webp"
      [] content = "riff" -> "video/webm"
      [] content = "pdf" -> "application/pdf"
      [] content = "zip" -> "application/zip"
      [] content = "ftyp" -> "video/mp4"
      [] OTHER -> "unknown"

\* isMimeCompatible; image/jpg is in no table.
Compatible(declared, detected) == detected = "unknown" \/ declared = detected

EffectiveMax(f) == IF f.max = 0 THEN DefaultMax ELSE f.max

\* validate
Refusals(f) ==
    (IF f.size > EffectiveMax(f) THEN {"too large"} ELSE {})
    \cup (IF f.size = 0 THEN {"empty"} ELSE {})
    \cup (IF ExtractExtension(f.name) \in BlockedExtensions THEN {"blocked"} ELSE {})
    \cup (IF CategoryOf(f.type) = "OTHER" THEN {"type"} ELSE {})
    \cup (IF f.allowed # {} /\ CategoryOf(f.type) \notin f.allowed THEN {"category"} ELSE {})
    \cup (IF ~Compatible(f.type, Detected(f.content)) THEN {"content"} ELSE {})
    \cup (IF Len(f.name) > 2 /\ f.name[Len(f.name) - 1] \in BlockedExtensions THEN {"double"} ELSE {})

Contents == {"none", "jpeg", "webp", "riff", "pdf", "zip", "ftyp", "matroska"}
OfferedTypes == UNION {AllowedMimeTypes[k] : k \in DOMAIN AllowedMimeTypes} \cup {"image/jpg"}
OfferedNames == {<<"a">>, <<"a", "b">>, <<"exe", "b">>, <<"a", "exe">>, <<"a", "js", "b">>, <<"js", "a", "b">>,
                 <<"a", "js", "b", "c">>}

\* One file is enough: nothing is kept between two validations.
Validate ==
    /\ offered = NoOffer
    /\ \E n \in OfferedNames, t \in OfferedTypes, k \in Contents, z \in 0..3, x \in {0, 1}, a \in {{}, {"IMAGE"}} :
           /\ (k = "none") <=> (z = 0)
           /\ offered' = [name |-> n, type |-> t, content |-> k, size |-> z, max |-> x, allowed |-> a]
           /\ refusals' = Refusals(offered')
           /\ UNCHANGED <<fixed, fileRow, object, thumbs, upload, fileCall, fileCalls, fileFaults>>

-----------------------------------------------------------------------------
(* Properties *)

\* What the row of a file may hold, and the copies of it that requests have read.
FileTypeOK == {fileRow, upload.mem} \cup {fileCall[r].row : r \in FileCalls} \subseteq FileRow

\* The formats a type is stored in, and the formats several types share
FormatsOf(type) ==
    CASE type = "image/jpeg" -> {"jpeg"}
      [] type = "image/webp" -> {"webp"}
      [] type = "application/pdf" -> {"pdf"}
      [] type \in {"office", "application/zip"} -> {"zip"}
      [] type \in {"video/mp4", "audio/mp4"} -> {"ftyp"}
      [] type = "audio/wav" -> {"riff"}
      [] type = "video/webm" -> {"matroska"}
      [] OTHER -> {}
SharedFormats == {"zip", "ftyp", "riff"}

\* What the validation of detectMimeTypeFromBuffer and isMimeCompatible amounts
\* to over the formats themselves: bytes that belong to another type alone are
\* refused whatever the name and the declared type say, a file with its own
\* bytes is refused for its content only where several types share a format,
\* and an accepted name never ends in a blocked part, nor has one before its
\* extension.
ValidationIsExact ==
    offered # NoOffer =>
        /\ offered.content \in {"jpeg", "webp", "pdf"} /\ offered.content \notin FormatsOf(offered.type)
              => "content" \in refusals
        /\ "content" \in refusals /\ offered.content \in FormatsOf(offered.type)
              => offered.content \in SharedFormats
        /\ refusals = {} => /\ \A i \in (2..Len(offered.name)) \ (2..Len(offered.name) - 2) : offered.name[i] \notin BlockedExtensions
                            /\ offered.size \in 1..EffectiveMax(offered)
                            /\ \E k \in DOMAIN AllowedMimeTypes : offered.type \in AllowedMimeTypes[k]

\* A file the scan found infected is never ready, and so never downloaded,
\* although every request writes back the row it read earlier and any save of
\* the upload may fail.
InfectedIsNeverReady ==
    scanVerdict = "infected" =>
        /\ fileRow.status # "ready"
        /\ \A r \in FileCalls : fileCall[r].pc # "download"

\* Without a failure of the storage or the database no object is left that no
\* row leads to: cleanup takes the object before the row.
NoObjectIsLost ==
    object /\ ~Stored /\ upload.pc \notin {"new", "row"} => fileFaults > 0

\* FileStorageService, FileCleanupService and FileValidationService together:
\* an infected file is never served, no object is lost without a failure, and
\* what is let in is what its bytes say.
FilesAreSound == FileTypeOK /\ InfectedIsNeverReady /\ NoObjectIsLost /\ ValidationIsExact
=============================================================================

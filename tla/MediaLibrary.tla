----------------------------- MODULE MediaLibrary -----------------------------
(***************************************************************************)
(* The files of one upload folder and their Media rows.  An upload stores  *)
(* files, then their rows, then the entity that shows them; a deletion     *)
(* looks at the uses, removes the file and then the row, and a folder is   *)
(* swept as it is found on the disk.  Entities that show one picture keep  *)
(* its URL beside its id: deletions look at the ids alone.                 *)
(***************************************************************************)
EXTENDS Integers, FiniteSets

CONSTANTS
    MaxMedia,          \* bound: ids, of a file and its row, are 1 .. MaxMedia
    Uploads,           \* requests with files in flight together
    MediaDeletions     \* deletions in flight together

ASSUME MediaConstantsOK == MaxMedia \in Nat

VARIABLES
    files,             \* on the disk
    row,               \* the Media rows: whether entityType names the folder
    use,               \* how entities refer to a row, by mediaId
    urls,              \* the files that URL columns still name after their mediaId was set to null
    stored,            \* bound: files ever stored
    uploading,         \* the requests with files
    removing,          \* the deletions
    unsafe,            \* history: files lost under a row, by one of the known ways
    forced             \* history: files whose deletion was forced on entities with their URL

mediaVars == <<files, row, use, urls, stored, uploading, removing, unsafe, forced>>
-------------------------------------------------------------------------------
NoFile == 0

\* "required": productImage, attachments, return images (the row cannot be deleted);
\* "optional": covers, logos, banners, popups (mediaId is set to null; imageUrl, logoUrl,
\* mediaUrl, coverImageUrl or videoUrl, written with it, is what is shown).
Uses == {"required", "optional"}

\* left: files to store, one by one or all together; waiting: stored, without a row; ids:
\* the rows the entity is to refer to; how it does, if there is one, or that the request
\* has failed.
IdleUpload == [left |-> 0, together |-> FALSE, waiting |-> {}, ids |-> {}, kind |-> "none"]

NoEntity(u) == uploading[u].kind \in {"none", "failed"}

IdleRemoval == [phase |-> "idle", todo |-> {}, file |-> NoFile, folder |-> FALSE]

RowIds == DOMAIN row

MediaInit ==
    /\ files = {} /\ row = <<>> /\ stored = 0
    /\ use = [m \in 1 .. MaxMedia |-> {}]
    /\ uploading = [u \in Uploads |-> IdleUpload]
    /\ removing = [d \in MediaDeletions |-> IdleRemoval]
    /\ urls = {} /\ unsafe = {} /\ forced = {}

\* A deletion has checked m and is not done with it.
BeingRemoved(m) == \E d \in MediaDeletions : m \in removing[d].todo \cup {removing[d].file}

InUse(m) == use[m] # {}

\* Faulty: only references that would refuse the deletion count.
CheckRequiredUsage(m) == "required" \in use[m]

CheckMediaUsage(m) == InUse(m)
-------------------------------------------------------------------------------
\* The files of a request have been received.
BeginUpload(u, n, together, kind) ==
    /\ uploading[u] = IdleUpload
    /\ uploading' = [uploading EXCEPT ![u] =
            [IdleUpload EXCEPT !.left = n, !.together = together, !.kind = kind]]
    /\ UNCHANGED <<files, row, use, urls, stored, removing, unsafe, forced>>

\* A logo, cover or banner; for stories a cover and then a video.
EntityUpload(u) == BeginUpload(u, 1, FALSE, "optional")

EntityUploadFields(u) == BeginUpload(u, 2, FALSE, "optional")

\* The attachments of tickets and comments, the images of returns and products.
UploadAttachments(u, n) == BeginUpload(u, n, TRUE, "required")

\* For the library alone.
UploadBulk(u, n) == BeginUpload(u, n, TRUE, "none")

\* saveFileToMedia: storage.save moves the file into its folder; of Promise.all every one
\* before the first row ...
StoreFile(u) ==
    LET r == uploading[u]
        n == IF r.together THEN r.left ELSE 1
    IN  /\ r.left > 0 /\ r.waiting = {} /\ stored + n <= MaxMedia
        /\ stored' = stored + n
        /\ files' = files \cup (stored + 1 .. stored + n)
        /\ uploading' = [uploading EXCEPT ![u] =
                [r EXCEPT !.left = @ - n, !.together = FALSE,
                          !.waiting = stored + 1 .. stored + n]]
        /\ UNCHANGED <<row, use, urls, removing, unsafe, forced>>

\* ... and the row follows; for the library with entityType as it was sent, not in lower case.
CreateMediaRow(u, m, named) ==
    /\ m \in uploading[u].waiting
    /\ named \/ uploading[u].kind = "none"
    /\ row' = [n \in RowIds \cup {m} |-> IF n = m THEN named ELSE row[n]]
    /\ uploading' = [uploading EXCEPT ![u].waiting = @ \ {m},
                                          ![u].ids = IF NoEntity(u) THEN {} ELSE @ \cup {m}]
    /\ UNCHANGED <<files, use, urls, stored, removing, unsafe, forced>>

\* The row is refused: the others of Promise.all go on, those of a story do not, and what
\* has been stored stays.
SavingFails(u, m) ==
    LET r == uploading[u]
    IN  /\ m \in r.waiting
        /\ uploading' = [uploading EXCEPT ![u] =
                IF r.waiting = {m} THEN IdleUpload
                ELSE [r EXCEPT !.waiting = @ \ {m}, !.ids = {}, !.kind = "failed"]]
        /\ UNCHANGED <<files, row, use, urls, stored, removing, unsafe, forced>>

\* References to the rows of ids; a deletion that has looked for them has not seen these.
Referred(ids, kind) ==
    /\ use' = [m \in 1 .. MaxMedia |-> IF m \in ids THEN use[m] \cup {kind} ELSE use[m]]
    /\ unsafe' = unsafe \cup {m \in ids : BeingRemoved(m)}

\* The entity is written with all of them, unless a file or the request was refused; the
\* foreign key asks for the rows, nobody for the files.
FinishUpload(u, accepted) ==
    LET r == uploading[u]
    IN  /\ r # IdleUpload /\ r.left = 0 /\ r.waiting = {}
        /\ IF accepted /\ ~NoEntity(u) /\ r.ids \subseteq RowIds
           THEN Referred(r.ids, r.kind)
           ELSE UNCHANGED <<use, unsafe>>
        /\ uploading' = [uploading EXCEPT ![u] = IdleUpload]
        /\ UNCHANGED <<files, row, urls, stored, removing, forced>>

\* An entity is written with a mediaId that is already in the library: getMediaById or
\* assertMediaOwnedByUser has found the row.
Attach(m, kind) ==
    /\ m \in RowIds /\ kind \notin use[m]
    /\ Referred({m}, kind)
    /\ UNCHANGED <<files, row, urls, stored, uploading, removing, forced>>

ChooseMedia(m) == Attach(m, "optional")

AttachOwned(m) == Attach(m, "required")

Detach(m, kind) ==
    /\ kind \in use[m]
    /\ use' = [use EXCEPT ![m] = @ \ {kind}]
    /\ UNCHANGED <<files, row, urls, stored, uploading, removing, unsafe, forced>>

\* The entity takes another file, or none.
ReplaceMedia(m) == Detach(m, "optional")

\* An entity left with its URL alone takes another file or is deleted.
ReplaceUrl(m) ==
    /\ m \in urls
    /\ urls' = urls \ {m} /\ forced' = forced \ {m}
    /\ UNCHANGED <<files, row, use, stored, uploading, removing, unsafe>>

\* Only the relation is deleted; the row and the file stay.
DeleteProductImages(m) == Detach(m, "required")

\* updateMedia: another entityType, the file stays where it is.
UpdateMedia(m) ==
    /\ m \in RowIds
    /\ row' = [row EXCEPT ![m] = ~@]
    /\ UNCHANGED <<files, use, urls, stored, uploading, removing, unsafe, forced>>

\* deleteMedia: the row is there, checkMediaUsage finds nothing.
StartDelete(d, m) ==
    /\ removing[d].phase = "idle"
    /\ m \in RowIds /\ ~CheckMediaUsage(m)
    /\ removing' = [removing EXCEPT ![d] = [IdleRemoval EXCEPT !.phase = "unlink", !.todo = {m}]]
    /\ UNCHANGED <<files, row, use, urls, stored, uploading, unsafe, forced>>

\* deleteMediaFolder: the rows of this entityType and path, none of them in use.
StartDeleteFolder(d) ==
    LET records == {m \in RowIds : row[m]}
    IN  /\ removing[d].phase = "idle"
        /\ \A m \in records : ~CheckMediaUsage(m)
        /\ removing' = [removing EXCEPT ![d] =
                [phase |-> "unlink", todo |-> records, file |-> NoFile, folder |-> TRUE]]
        /\ UNCHANGED <<files, row, use, urls, stored, uploading, unsafe, forced>>

\* storage.delete of the next record; a file that is not there is no error.
Unlink(d, m) ==
    /\ removing[d].phase = "unlink" /\ m \in removing[d].todo
    /\ files' = files \ {m}
    /\ removing' = [removing EXCEPT ![d] =
            [removing[d] EXCEPT !.phase = "delete", !.file = m, !.todo = @ \ {m}]]
    /\ UNCHANGED <<row, use, urls, stored, uploading, unsafe, forced>>

\* No entity refers to m any more: a required reference is deleted, of an optional one the
\* mediaId alone is set to null.
ReferencesRemoved(m) ==
    /\ use' = [use EXCEPT ![m] = {}]
    /\ urls' = IF "optional" \in use[m] THEN urls \cup {m} ELSE urls

\* media.delete fails on a row that is gone or still required, and ends the deletion.
DeleteRow(d) ==
    LET r == removing[d]
        m == r.file
        fails == m \notin RowIds \/ "required" \in use[m]
    IN  /\ r.phase = "delete"
        /\ row' = IF fails THEN row ELSE [n \in RowIds \ {m} |-> row[n]]
        /\ IF fails THEN UNCHANGED <<use, urls>> ELSE ReferencesRemoved(m)
        /\ unsafe' = IF fails THEN unsafe \cup (RowIds \cap {m}) ELSE unsafe \ ({m} \ urls')
        /\ removing' = [removing EXCEPT ![d] =
                IF fails \/ (r.todo = {} /\ ~r.folder) THEN IdleRemoval
                ELSE [r EXCEPT !.phase = "unlink", !.file = NoFile]]
        /\ UNCHANGED <<files, stored, uploading, forced>>

\* rm -r of the folder: what is in it has no record, or one that was not looked at.
SweepFolder(d) ==
    /\ removing[d].phase = "unlink" /\ removing[d].todo = {} /\ removing[d].folder
    /\ unsafe' = unsafe \cup files
    /\ files' = {}
    /\ removing' = [removing EXCEPT ![d] = IdleRemoval]
    /\ UNCHANGED <<row, use, urls, stored, uploading, forced>>

\* forceDeleteMedia: every mediaId and the row in one transaction, then the file.
ForceDelete(d, m) ==
    /\ removing[d].phase = "idle" /\ m \in RowIds
    /\ row' = [n \in RowIds \ {m} |-> row[n]]
    /\ ReferencesRemoved(m)
    /\ forced' = forced \cup (urls' \ urls)
    /\ removing' = [removing EXCEPT ![d] = [IdleRemoval EXCEPT !.phase = "forced", !.file = m]]
    /\ UNCHANGED <<files, stored, uploading, unsafe>>

UnlinkForced(d) ==
    /\ removing[d].phase = "forced"
    /\ files' = files \ {removing[d].file}
    /\ removing' = [removing EXCEPT ![d] = IdleRemoval]
    /\ UNCHANGED <<row, use, urls, stored, uploading, unsafe, forced>>

\* The server ends: files without a row stay, and a row whose file is gone.
MediaServerRestarts ==
    /\ uploading' = [u \in Uploads |-> IdleUpload]
    /\ removing' = [d \in MediaDeletions |-> IdleRemoval]
    /\ unsafe' = unsafe \cup (RowIds \ files)
    /\ UNCHANGED <<files, row, use, urls, stored, forced>>

MediaNext ==
    \/ \E u \in Uploads :
          \/ EntityUpload(u) \/ EntityUploadFields(u) \/ StoreFile(u)
          \/ \E n \in 1 .. MaxMedia : UploadAttachments(u, n) \/ UploadBulk(u, n)
          \/ \E m \in 1 .. MaxMedia :
                SavingFails(u, m) \/ \E named \in BOOLEAN : CreateMediaRow(u, m, named)
          \/ \E accepted \in BOOLEAN : FinishUpload(u, accepted)
    \/ \E m \in 1 .. MaxMedia :
          \/ ChooseMedia(m) \/ AttachOwned(m) \/ ReplaceMedia(m) \/ DeleteProductImages(m)
          \/ UpdateMedia(m) \/ ReplaceUrl(m)
          \/ \E d \in MediaDeletions : StartDelete(d, m) \/ Unlink(d, m) \/ ForceDelete(d, m)
    \/ \E d \in MediaDeletions :
          StartDeleteFolder(d) \/ DeleteRow(d) \/ SweepFolder(d) \/ UnlinkForced(d)
    \/ MediaServerRestarts
-------------------------------------------------------------------------------
MediaTypeOK ==
    /\ files \cup RowIds \cup urls \subseteq 1 .. stored /\ stored <= MaxMedia
    /\ \A m \in 1 .. MaxMedia : use[m] \subseteq Uses /\ (InUse(m) => m \in RowIds)
    /\ \A d \in MediaDeletions : removing[d].todo \subseteq 1 .. stored

\* What an entity shows, by its mediaId or by the URL beside it, has its file.  Only one that
\* was attached between a deletion's look at its uses and its last write, a deletion that
\* failed or ended between file and row, the sweep of a folder with a file in it that the
\* sweep did not find among the rows, and a deletion that was forced on entities which go
\* on with the URL may leave a broken one (media.service.ts 70-95, 277-344).
ShownMediaHasFile ==
    \A m \in 1 .. MaxMedia : InUse(m) \/ m \in urls => m \in files \cup unsafe \cup forced
===============================================================================

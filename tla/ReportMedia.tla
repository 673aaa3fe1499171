---------------------------- MODULE ReportMedia ----------------------------
(***************************************************************************)
(* The photos and videos of one site report: rows in the database, objects *)
(* in a storage that shares no transaction with it.                        *)
(*                                                                         *)
(* An upload writes the object, then its thumbnail, then the row, and      *)
(* removes what it wrote when a later step fails.  A deletion removes the  *)
(* row first.  Removing an object is best effort, and the process may end  *)
(* between any two steps.                                                  *)
(***************************************************************************)
EXTENDS FiniteSets

CONSTANTS
    Requests,          \* concurrent HTTP requests
    MediaIds        \* uploads: each names its objects with new uuids

VARIABLES
    report,         \* DailyReport: "DRAFT", "SUBMITTED" or "GONE"
    rows,           \* DailyReportMedia: the objects that each row points to
    files,          \* the objects in the storage
    used,           \* uploads that were started
    at,
    media,          \* what the request is about
    keys,           \* objects it has written, or is about to remove
    lost            \* objects whose removal failed, or that a request which
                    \* the end of the process stopped had in hand

mediaVars == <<report, rows, files, used, at, media, keys, lost>>

(* storageKey and thumbnailKey of an upload.                               *)
Original(m) == <<m, "original">>
Thumbnail(m) == <<m, "thumbnail">>
Keys == MediaIds \X {"original", "thumbnail"}

WithRow == {m \in MediaIds : rows[m] # {}}
Referenced == UNION {rows[m] : m \in MediaIds}

(* assertWritable.                                                         *)
ReportWritable == report = "DRAFT"

Doing(p, step) == at[p] = step
Goto(p, step) == at' = [at EXCEPT ![p] = step]

Done(p) ==
    /\ Goto(p, "idle")
    /\ media' = [media EXCEPT ![p] = {}]
    /\ keys' = [keys EXCEPT ![p] = {}]

(* What is left to do is to remove objects from the storage.               *)
Clean(p, objects) ==
    /\ Goto(p, "clean")
    /\ keys' = [keys EXCEPT ![p] = objects]
    /\ UNCHANGED media
-----------------------------------------------------------------------------
(* POST /diario/rdos/:id/midias.                                           *)
BeginUpload(p) ==
    /\ Doing(p, "idle") /\ ReportWritable
    /\ \E m \in MediaIds \ used :
        /\ media' = [media EXCEPT ![p] = {m}]
        /\ used' = used \cup {m}
    /\ Goto(p, "file")
    /\ UNCHANGED <<report, rows, files, keys>>

Save(p, key) ==
    /\ files' = files \cup {key}
    /\ keys' = [keys EXCEPT ![p] = @ \cup {key}]
    /\ UNCHANGED <<report, rows, used, media>>

(* The upload comes with a thumbnail or without.                           *)
SaveFile(p) ==
    /\ Doing(p, "file")
    /\ \E m \in media[p] : Save(p, Original(m))
    /\ \/ Goto(p, "thumbnail")
       \/ Goto(p, "row")

SaveThumbnail(p) ==
    /\ Doing(p, "thumbnail")
    /\ \E m \in media[p] : Save(p, Thumbnail(m))
    /\ Goto(p, "row")

(* The storage or the validation of the thumbnail fails.                   *)
FailThumbnail(p) ==
    /\ Doing(p, "thumbnail")
    /\ Clean(p, keys[p])
    /\ UNCHANGED <<report, rows, files, used>>

CreateRow(p) ==
    /\ Doing(p, "row") /\ report # "GONE"
    /\ \E m \in media[p] : rows' = [rows EXCEPT ![m] = keys[p]]
    /\ Done(p)
    /\ UNCHANGED <<report, files, used>>

(* Mutant: the thumbnail is forgotten.                                     *)
FailRowHalf(p) ==
    /\ Doing(p, "row")
    /\ Clean(p, {Original(m) : m \in media[p]})
    /\ UNCHANGED <<report, rows, files, used>>

(* The insert fails: the foreign key, or any error of the database.        *)
FailRow(p) ==
    /\ Doing(p, "row")
    /\ Clean(p, keys[p])
    /\ UNCHANGED <<report, rows, files, used>>
-----------------------------------------------------------------------------
(* DELETE /diario/rdos/:id/midias/:mediaId.                                *)
BeginRemoveMedia(p) ==
    /\ Doing(p, "idle") /\ ReportWritable
    /\ \E m \in MediaIds : media' = [media EXCEPT ![p] = {m}]
    /\ Goto(p, "find")
    /\ UNCHANGED <<report, rows, files, used, keys>>

(* Mutant: the objects are removed before the row.                         *)
FindMediaFilesFirst(p) ==
    /\ Doing(p, "find") /\ media[p] \subseteq WithRow
    /\ \E m \in media[p] :
        /\ keys' = [keys EXCEPT ![p] = rows[m]]
        /\ files' = files \ rows[m]
    /\ Goto(p, "delete")
    /\ UNCHANGED <<report, rows, used, media>>

FindMedia(p) ==
    /\ Doing(p, "find") /\ media[p] \subseteq WithRow
    /\ \E m \in media[p] : keys' = [keys EXCEPT ![p] = rows[m]]
    /\ Goto(p, "delete")
    /\ UNCHANGED <<report, rows, files, used, media>>

(* delete by id: a row that is gone is an error, and nothing is cleaned.   *)
DeleteRow(p) ==
    /\ Doing(p, "delete") /\ media[p] \subseteq WithRow
    /\ \E m \in media[p] : rows' = [rows EXCEPT ![m] = {}]
    /\ Clean(p, keys[p])
    /\ UNCHANGED <<report, files, used>>

(* POST /diario/rdos/:id/finalizar: its last statement.                    *)
Submit ==
    /\ report = "DRAFT"
    /\ report' = "SUBMITTED"
    /\ UNCHANGED <<rows, files, used, at, media, keys>>

(* DELETE /diario/rdos/:id: the keys are read before the rows go.  An      *)
(* administrator may delete what is finalised.                             *)
BeginRemoveReport(p) ==
    /\ Doing(p, "idle")
    /\ \/ report = "DRAFT" /\ Goto(p, "dropDraft")
       \/ report # "GONE" /\ Goto(p, "dropAny")
    /\ keys' = [keys EXCEPT ![p] = Referenced]
    /\ UNCHANGED <<report, rows, files, used, media>>

(* deleteMany; the rows of the media follow (onDelete: Cascade).           *)
DropReport(p) ==
    /\ \/ Doing(p, "dropDraft") /\ report = "DRAFT"
       \/ Doing(p, "dropAny") /\ report # "GONE"
    /\ report' = "GONE"
    /\ rows' = [m \in MediaIds |-> {}]
    /\ Clean(p, keys[p])
    /\ UNCHANGED <<files, used>>
-----------------------------------------------------------------------------
(* removeFromStorage, one object: its failure is logged and no more.       *)
RemoveObject(p) ==
    /\ Doing(p, "clean")
    /\ \E key \in keys[p] :
        /\ keys' = [keys EXCEPT ![p] = @ \ {key}]
        /\ \/ files' = files \ {key} /\ UNCHANGED lost
           \/ lost' = lost \cup {key} /\ UNCHANGED files
    /\ UNCHANGED <<report, rows, used, at, media>>

Cleaned(p) ==
    /\ Doing(p, "clean") /\ keys[p] = {}
    /\ Done(p)
    /\ UNCHANGED <<report, rows, files, used>>

(* A refusal before anything was written.                                  *)
Refuse(p) ==
    /\ at[p] \in {"file", "find", "delete", "dropDraft", "dropAny"}
    /\ Done(p)
    /\ UNCHANGED <<report, rows, files, used>>

Crash(p) ==
    /\ ~Doing(p, "idle")
    /\ lost' = lost \cup keys[p]
    /\ Done(p)
    /\ UNCHANGED <<report, rows, files, used>>

MediaInit ==
    /\ report = "DRAFT"
    /\ rows = [m \in MediaIds |-> {}]
    /\ files = {} /\ used = {}
    /\ at = [p \in Requests |-> "idle"]
    /\ media = [p \in Requests |-> {}]
    /\ keys = [p \in Requests |-> {}]
    /\ lost = {}

MediaStep(p) ==
    \/ BeginUpload(p) \/ SaveFile(p) \/ SaveThumbnail(p) \/ FailThumbnail(p)
    \/ CreateRow(p) \/ FailRow(p)
    \/ BeginRemoveMedia(p) \/ FindMedia(p) \/ DeleteRow(p)
    \/ BeginRemoveReport(p) \/ DropReport(p)
    \/ Cleaned(p) \/ Refuse(p)

MediaNext ==
    \/ UNCHANGED lost /\ (Submit \/ \E p \in Requests : MediaStep(p))
    \/ \E p \in Requests : RemoveObject(p) \/ Crash(p)

MediaSpec == MediaInit /\ [][MediaNext]_mediaVars
-----------------------------------------------------------------------------
(* Every variable has its shape.                                           *)
MediaTypeOK ==
    /\ report \in {"DRAFT", "SUBMITTED", "GONE"}
    /\ rows \in [MediaIds -> SUBSET Keys]
    /\ files \in SUBSET Keys /\ used \in SUBSET MediaIds
    /\ at \in [Requests -> {"idle", "file", "thumbnail", "row", "find", "delete",
                         "dropDraft", "dropAny", "clean"}]
    /\ media \in [Requests -> SUBSET MediaIds]
    /\ keys \in [Requests -> SUBSET Keys]
    /\ lost \in SUBSET Keys

(* No row points to an object that is not there, whatever fails and        *)
(* whenever the process ends: "o pior dos dois estados".                   *)
RowsHaveFiles == Referenced \subseteq files

(* While the report exists and nobody works on it, the only objects that   *)
(* no row points to are those that a failed removal or the end of the      *)
(* process left: every upload that failed otherwise was undone.  Of a      *)
(* report that was removed it says nothing: an upload that lands between   *)
(* the two statements of its removal leaves its object behind.             *)
NoOrphans ==
    report # "GONE" /\ (\A p \in Requests : Doing(p, "idle")) => files \subseteq Referenced \cup lost
=============================================================================

----------------------------- MODULE LibraryDesk -----------------------------
(***************************************************************************)
(* A document type of the library, open in the editors of several users    *)
(* (pages/LibraryEditor.tsx) and in their lists (pages/LibraryList.tsx):   *)
(* its text, and its sample images, each a row of the database and a file  *)
(* of the storage.  upload_sample and delete_sample (routers/library.py)   *)
(* touch the file and the row one after the other, and the process may go  *)
(* down in between.                                                        *)
(***************************************************************************)
EXTENDS Naturals, FiniteSets

CONSTANTS
    Curators,    \* users with the editor open
    Texts,       \* what the fields may hold besides nothing
    MaxDrops,    \* bound on the times files are dropped on an editor
    MaxSamples,  \* bound on the images that are uploaded
    MaxSaves,    \* bound on the saves
    MaxCrashes   \* bound on the times the process goes down

ASSUME LibraryAssumption ==
    /\ MaxDrops \in Nat /\ MaxSamples \in Nat /\ MaxSaves \in Nat /\ MaxCrashes \in Nat
    /\ "" \notin Texts

VARIABLES
    docType,     \* the row of the document type
    samples,     \* its rows in document_type_samples
    images,      \* the image files on disk
    halfGone,    \* history: the samples whose deletion has removed the file only
    field,       \* by editor, the text in the form, and whether it is marked dirty
    saving,      \* by editor, whether saveState is "saving"
    drops,       \* the number of drops so far: each starts a loop of handleFiles
    dropped,     \* by drop, the number of files its loop has left to upload
    pending,     \* the calls under way
    uploads,     \* the number of uploads so far, by which samples are numbered
    saves,       \* the number of saves so far
    crashes      \* the number of crashes so far

libraryVars == <<docType, samples, images, halfGone, field, saving, drops, dropped,
                 pending, uploads, saves, crashes>>

Sample == 1 .. MaxSamples
Drop == 1 .. MaxDrops
Field == Texts \cup {""}
LibraryCalls ==
    [op : {"upload"}, by : Drop, id : Sample, pc : {"checked", "written"}]
    \cup [op : {"remove"}, by : Curators, id : Sample, pc : {"sent", "read", "removed"}]
    \cup [op : {"save"}, by : Curators, id : 1 .. MaxSaves, text : Field, pc : {"sent", "done"}]

LibraryTypeOK ==
    /\ docType \in [there : BOOLEAN, text : Field, ruled : BOOLEAN]
    /\ docType.ruled => docType.there
    /\ samples \subseteq 1 .. uploads /\ images \subseteq 1 .. uploads /\ halfGone \subseteq 1 .. uploads
    /\ ~docType.there => samples = {}
    /\ field \in [Curators -> [text : Field, dirty : BOOLEAN]]
    /\ saving \in [Curators -> BOOLEAN] /\ drops \in 0 .. MaxDrops /\ dropped \in [Drop -> 0 .. MaxSamples]
    /\ pending \subseteq LibraryCalls
    /\ \A d \in Drop : Cardinality({c \in pending : c.op = "upload" /\ c.by = d})
                        <= (IF dropped[d] > 0 THEN 1 ELSE 0)
    /\ uploads \in 0 .. MaxSamples /\ saves \in 0 .. MaxSaves /\ crashes \in 0 .. MaxCrashes

LibraryInit ==
    /\ \E t \in Field, r \in BOOLEAN : docType = [there |-> TRUE, text |-> t, ruled |-> r]
    /\ samples = {} /\ images = {} /\ halfGone = {}
    /\ field = [u \in Curators |-> [text |-> docType.text, dirty |-> FALSE]]
    /\ saving = [u \in Curators |-> FALSE] /\ drops = 0 /\ dropped = [d \in Drop |-> 0]
    /\ pending = {} /\ uploads = 0 /\ saves = 0 /\ crashes = 0

Becomes(c, pc) == pending' = (pending \ {c}) \cup {[c EXCEPT !.pc = pc]}

-----------------------------------------------------------------------------
(* The text.  The form is filled once.                                     *)

\* markDirty also ends "saving": the button works again while a save is under way.
TypeText(u, t) ==
    /\ t # field[u].text
    /\ field' = [field EXCEPT ![u] = [text |-> t, dirty |-> TRUE]]
    /\ saving' = [saving EXCEPT ![u] = FALSE]
    /\ UNCHANGED <<docType, samples, images, halfGone, drops, dropped, pending, uploads, saves, crashes>>

ClickSave(u) ==
    /\ field[u].dirty /\ ~saving[u] /\ saves < MaxSaves
    /\ saves' = saves + 1
    /\ pending' = pending \cup {[op |-> "save", by |-> u, id |-> saves + 1, text |-> field[u].text, pc |-> "sent"]}
    /\ saving' = [saving EXCEPT ![u] = TRUE]
    /\ UNCHANGED <<docType, samples, images, halfGone, field, drops, dropped, uploads, crashes>>

\* A field that is empty is left out of the request, and so keeps its old value.
UpdateType(c) ==
    /\ c.op = "save" /\ c.pc = "sent" /\ docType.there
    /\ docType' = IF c.text = "" THEN docType ELSE [docType EXCEPT !.text = c.text]
    /\ Becomes(c, "done")
    /\ UNCHANGED <<samples, images, halfGone, field, saving, drops, dropped, uploads, saves, crashes>>

\* The mark is cleared, whatever was typed since the click.
SaveAnswered(c) ==
    /\ c.op = "save" /\ c.pc = "done"
    /\ pending' = pending \ {c}
    /\ field' = [field EXCEPT ![c.by].dirty = FALSE] /\ saving' = [saving EXCEPT ![c.by] = FALSE]
    /\ UNCHANGED <<docType, samples, images, halfGone, drops, dropped, uploads, saves, crashes>>

-----------------------------------------------------------------------------
(* The samples.  What is dropped on an editor, its own uploads under way or *)
(* not, is uploaded by a loop of its own (handleFiles), one file after the *)
(* other; the loop stops at the first upload that fails.                   *)

DropFiles(n) ==
    /\ drops < MaxDrops /\ n <= MaxSamples
    /\ drops' = drops + 1
    /\ dropped' = [dropped EXCEPT ![drops + 1] = n]
    /\ UNCHANGED <<docType, samples, images, halfGone, field, saving, pending, uploads, saves, crashes>>

UploadChecked(d) ==
    /\ dropped[d] > 0 /\ uploads < MaxSamples /\ docType.there
    /\ ~\E c \in pending : c.op = "upload" /\ c.by = d
    /\ uploads' = uploads + 1
    /\ pending' = pending \cup {[op |-> "upload", by |-> d, id |-> uploads + 1, pc |-> "checked"]}
    /\ UNCHANGED <<docType, samples, images, halfGone, field, saving, drops, dropped, saves, crashes>>

\* The files an upload has written by the time it adds its row.
NoFileYet(c) == {}
FileOf(c) == {c.id}

UploadWritten(c) ==
    /\ c.op = "upload" /\ c.pc = "checked"
    /\ images' = images \cup FileOf(c)
    /\ Becomes(c, "written")
    /\ UNCHANGED <<docType, samples, halfGone, field, saving, drops, dropped, uploads, saves, crashes>>

UploadAdded(c) ==
    /\ c.op = "upload" /\ c.pc = "written" /\ docType.there
    /\ samples' = samples \cup {c.id}
    /\ pending' = pending \ {c}
    /\ dropped' = [dropped EXCEPT ![c.by] = @ - 1]
    /\ UNCHANGED <<docType, images, halfGone, field, saving, drops, uploads, saves, crashes>>

\* The type is gone: the route refuses it, or the foreign key does and the file stays.
UploadRefused(d) ==
    /\ dropped[d] > 0 /\ ~docType.there
    /\ ~\E c \in pending : c.op = "upload" /\ c.by = d /\ c.pc = "checked"
    /\ pending' = {c \in pending : ~(c.op = "upload" /\ c.by = d)}
    /\ dropped' = [dropped EXCEPT ![d] = 0]
    /\ UNCHANGED <<docType, samples, images, halfGone, field, saving, drops, uploads, saves, crashes>>

\* A sample that is listed; it may be gone by the time the request comes.
ClickRemove(u, s) ==
    /\ s \in samples /\ ~\E c \in pending : c.op = "remove" /\ c.by = u /\ c.id = s
    /\ pending' = pending \cup {[op |-> "remove", by |-> u, id |-> s, pc |-> "sent"]}
    /\ UNCHANGED <<docType, samples, images, halfGone, field, saving, drops, dropped, uploads, saves, crashes>>

SampleRead(c) ==
    /\ c.op = "remove" /\ c.pc = "sent" /\ c.id \in samples
    /\ Becomes(c, "read")
    /\ UNCHANGED <<docType, samples, images, halfGone, field, saving, drops, dropped, uploads, saves, crashes>>

\* A file that is gone already is no error: the row of a deletion that was cut short
\* can still be deleted.
FileRemoved(c) ==
    /\ c.op = "remove" /\ c.pc = "read"
    /\ images' = images \ {c.id} /\ halfGone' = halfGone \cup {c.id}
    /\ Becomes(c, "removed")
    /\ UNCHANGED <<docType, samples, field, saving, drops, dropped, uploads, saves, crashes>>

\* The row, unless another call was faster.
RowRemoved(c) ==
    /\ c.op = "remove" /\ c.pc = "removed"
    /\ samples' = samples \ {c.id} /\ halfGone' = halfGone \ {c.id}
    /\ pending' = pending \ {c}
    /\ UNCHANGED <<docType, images, field, saving, drops, dropped, uploads, saves, crashes>>

-----------------------------------------------------------------------------
(* The list and the process.                                               *)

\* The rows of the samples go with the type, their files stay; a type that a rule of
\* a policy names is kept by the foreign key.
DropType ==
    /\ docType.there /\ ~docType.ruled
    /\ docType' = [docType EXCEPT !.there = FALSE]
    /\ samples' = {} /\ halfGone' = {}
    /\ UNCHANGED <<images, field, saving, drops, dropped, pending, uploads, saves, crashes>>

\* A call that is refused, and every call when the process goes down, fails in the
\* page: a loop of uploads ends, and a save leaves "saving" on.
CallRefused(c) ==
    /\ \/ c.op = "save" /\ c.pc = "sent" /\ ~docType.there
       \/ c.op = "remove" /\ c.pc = "sent" /\ c.id \notin samples
    /\ pending' = pending \ {c}
    /\ UNCHANGED <<docType, samples, images, halfGone, field, saving, drops, dropped, uploads, saves, crashes>>

Crash ==
    /\ pending # {} /\ crashes < MaxCrashes
    /\ crashes' = crashes + 1
    /\ pending' = {}
    /\ dropped' = [d \in Drop |-> IF \E c \in pending : c.op = "upload" /\ c.by = d THEN 0 ELSE dropped[d]]
    /\ UNCHANGED <<docType, samples, images, halfGone, field, saving, drops, uploads, saves>>

TextNext ==
    \/ \E u \in Curators : ClickSave(u) \/ \E t \in Field : TypeText(u, t)
    \/ \E c \in pending : UpdateType(c) \/ SaveAnswered(c)

SampleNext ==
    \/ \E u \in Curators, s \in 1 .. uploads : ClickRemove(u, s)
    \/ \E n \in 1 .. 2 : DropFiles(n)
    \/ \E d \in Drop : UploadChecked(d) \/ UploadRefused(d)
    \/ \E c \in pending :
          \/ UploadWritten(c) \/ UploadAdded(c)
          \/ SampleRead(c) \/ FileRemoved(c) \/ RowRemoved(c)

\* What either half of the editor is exposed to.
LibraryEvents == DropType \/ Crash \/ \E c \in pending : CallRefused(c)

LibraryNext == TextNext \/ SampleNext \/ LibraryEvents

LibrarySpec == LibraryInit /\ [][LibraryNext]_libraryVars

-----------------------------------------------------------------------------
(* A sample that is listed has its image: only a deletion that has removed *)
(* the file and has not come to the row yet, or was cut short there by a   *)
(* crash, leaves a row without one; uploads and concurrent deletions never *)
(* do.                                                                     *)
PictureHasItsFile == \A s \in samples \ halfGone : s \in images
=============================================================================

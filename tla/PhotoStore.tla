----------------------------- MODULE PhotoStore ------------------------------
(***************************************************************************)
(* The photos of one listing: rows of listings_listingphoto, and the files *)
(* behind them in FileForge, a service the backend calls over HTTP         *)
(* (apps/listings/services.py, common/fileforge_client.py).                *)
(*                                                                         *)
(* A row and its file are never changed together: each handler changes one *)
(* and then the other, and the call in between may be refused, or carried  *)
(* out although its answer is lost (the client's timeout).                 *)
(***************************************************************************)
EXTENDS Naturals, FiniteSets

CONSTANTS
    MaxPhotos,  \* bound: the rows ever inserted have primary keys 1..MaxPhotos
    Files,      \* FileForge file ids; a bound on the uploads it stores
    Web,        \* processes that serve HTTP requests
    Job,        \* the process of the daily management command
    Lossy,      \* the FileForge calls whose failure may be other than a refusal
    Crashes,    \* the handlers in which a process may die
    Drift,      \* may files be deleted from outside, in FileForge's own admin?
    None

Calls == {"upload", "delete", "status"}

ASSUME BoundsAssumption == MaxPhotos \in Nat /\ None \notin Files \cup Nat
ASSUME ProcessesAssumption == Job \notin Web
ASSUME FailuresAssumption ==
    Lossy \subseteq Calls /\ Crashes \subseteq {"upload", "delete", "reconcile"} /\ Drift \in BOOLEAN

VARIABLES
    photos,   \* the listing's rows: id -> [file, order]
    lastId,   \* the newest primary key
    files,    \* FileForge: the state of each file id
    handler   \* what each process is in the middle of

vars == <<photos, lastId, files, handler>>

-----------------------------------------------------------------------------
Procs == Web \cup {Job}
Ids == 1..MaxPhotos
FileState == {"unused", "stored", "deleted"}
PhotoRow == [file: Files, order: 0..MaxPhotos]

PCs == {"idle", "upload.post", "upload.insert", "delete.remote", "delete.row",
        "reconcile.ask", "reconcile.row"}

(* photo, file: the row worked on and its file; rest: the rows             *)
(* reconciliation fetched and has yet to ask about.                        *)
Handler == [pc: PCs, photo: Ids \cup {None}, file: Files \cup {None},
            order: 0..MaxPhotos, rest: SUBSET (Ids \X Files)]
Idle == [pc |-> "idle", photo |-> None, file |-> None, order |-> 0, rest |-> {}]

Rows == DOMAIN photos

Init ==
    /\ photos = [p \in {} |-> None]
    /\ lastId = 0
    /\ files = [f \in Files |-> "unused"]
    /\ handler = [w \in Procs |-> Idle]

At(w, pc) == handler[w].pc = pc
Become(w, h) == handler' = [handler EXCEPT ![w] = h]
Finish(w) == Become(w, Idle)

(* QuerySet.delete of one row; of one that is gone, nothing. *)
Without(p) == [q \in Rows \ {p} |-> photos[q]]

-----------------------------------------------------------------------------
(* POST /listings/{id}/photos/.                                            *)

UploadBegin(w) ==
    /\ At(w, "idle")
    /\ Become(w, [Idle EXCEPT !.pc = "upload.post", !.order = Cardinality(Rows)])
    /\ UNCHANGED <<photos, lastId, files>>

(* FileForge refuses, and nothing happens; or stores the file and says so; *)
(* or stores it and the answer is lost.                                    *)
UploadPost(w) ==
    /\ At(w, "upload.post")
    /\ \/ Finish(w) /\ UNCHANGED files
       \/ \E f \in Files :
             /\ files[f] = "unused"
             /\ files' = [files EXCEPT ![f] = "stored"]
             /\ \/ Become(w, [handler[w] EXCEPT !.pc = "upload.insert", !.file = f])
                \/ "upload" \in Lossy /\ Finish(w)
    /\ UNCHANGED <<photos, lastId>>

UploadInsert(w) ==
    /\ At(w, "upload.insert")
    /\ lastId < MaxPhotos
    /\ lastId' = lastId + 1
    /\ photos' = [q \in Rows \cup {lastId'} |->
                     IF q = lastId' THEN [file |-> handler[w].file, order |-> handler[w].order]
                                    ELSE photos[q]]
    /\ Finish(w)
    /\ UNCHANGED files

-----------------------------------------------------------------------------
(* DELETE /admin/listings/{id}/photos/{photo_id}/: the file, then the row. *)

DeleteBegin(w, p) ==
    /\ At(w, "idle")
    /\ p \in Rows
    /\ Become(w, [Idle EXCEPT !.pc = "delete.remote", !.photo = p, !.file = photos[p].file])
    /\ UNCHANGED <<photos, lastId, files>>

(* A refusal is logged and forgotten. *)
DeleteRemote_mut(w) ==
    /\ At(w, "delete.remote")
    /\ \/ UNCHANGED files
       \/ files' = [files EXCEPT ![handler[w].file] = "deleted"]
    /\ Become(w, [handler[w] EXCEPT !.pc = "delete.row"])
    /\ UNCHANGED <<photos, lastId>>

(* A file that is gone already (404) is as good as deleted. *)
DeleteRemote(w) ==
    /\ At(w, "delete.remote")
    /\ \/ Finish(w) /\ UNCHANGED files
       \/ /\ files' = [files EXCEPT ![handler[w].file] = "deleted"]
          /\ \/ Become(w, [handler[w] EXCEPT !.pc = "delete.row"])
             \/ "delete" \in Lossy /\ Finish(w)
    /\ UNCHANGED <<photos, lastId>>

DeleteRow(w) ==
    /\ At(w, "delete.row")
    /\ photos' = Without(handler[w].photo)
    /\ Finish(w)
    /\ UNCHANGED <<lastId, files>>

-----------------------------------------------------------------------------
(* reconcile_pending_photos, the last job of run_daily_jobs.               *)

ReconcileBegin ==
    /\ At(Job, "idle")
    /\ Rows # {}
    /\ Become(Job, [Idle EXCEPT !.pc = "reconcile.ask",
                              !.rest = {<<p, photos[p].file>> : p \in Rows}])
    /\ UNCHANGED <<photos, lastId, files>>

(* Goes on with the next row it fetched. *)
Continue(rest) == IF rest = {} THEN Finish(Job)
                  ELSE Become(Job, [Idle EXCEPT !.pc = "reconcile.ask", !.rest = rest])

(* Deletes the row it asked about, in the next step. *)
Drop(p, f, rest) ==
    Become(Job, [Idle EXCEPT !.pc = "reconcile.row", !.photo = p, !.file = f, !.rest = rest])

(* A 404 is an answer, as it is for delete_file. *)
ReconcileAsk_mut(p, f) ==
    LET rest == handler[Job].rest \ {<<p, f>>} IN
    /\ At(Job, "reconcile.ask")
    /\ <<p, f>> \in handler[Job].rest
    /\ \/ Continue(rest)
       \/ "status" \in Lossy /\ Drop(p, f, rest)
    /\ UNCHANGED <<photos, lastId, files>>

(* get_file_status raises for a file that is gone and for any other        *)
(* failure alike.                                                          *)
ReconcileAsk(p, f) ==
    LET rest == handler[Job].rest \ {<<p, f>>} IN
    /\ At(Job, "reconcile.ask")
    /\ <<p, f>> \in handler[Job].rest
    /\ \/ files[f] = "stored" /\ Continue(rest)
       \/ (files[f] # "stored" \/ "status" \in Lossy) /\ Drop(p, f, rest)
    /\ UNCHANGED <<photos, lastId, files>>

ReconcileRow ==
    /\ At(Job, "reconcile.row")
    /\ photos' = Without(handler[Job].photo)
    /\ Continue(handler[Job].rest)
    /\ UNCHANGED <<lastId, files>>

-----------------------------------------------------------------------------
(* A file is deleted directly, in FileForge. *)
DriftAway(f) ==
    /\ Drift
    /\ files[f] = "stored"
    /\ files' = [files EXCEPT ![f] = "deleted"]
    /\ UNCHANGED <<photos, lastId, handler>>

Activity == [upload |-> {"upload.post", "upload.insert"},
             delete |-> {"delete.remote", "delete.row"},
             reconcile |-> {"reconcile.ask", "reconcile.row"}]

Crash(w) ==
    /\ \E a \in Crashes : handler[w].pc \in Activity[a]
    /\ Finish(w)
    /\ UNCHANGED <<photos, lastId, files>>

Serve(w) ==
    \/ UploadBegin(w) \/ UploadPost(w) \/ UploadInsert(w)
    \/ \E p \in Ids : DeleteBegin(w, p)
    \/ DeleteRemote(w) \/ DeleteRow(w)

Reconcile == ReconcileBegin \/ (\E p \in Ids, f \in Files : ReconcileAsk(p, f)) \/ ReconcileRow

Next == \/ \E w \in Web : Serve(w)
        \/ Reconcile
        \/ \E f \in Files : DriftAway(f)
        \/ \E w \in Procs : Crash(w)

Spec == Init /\ [][Next]_vars

(* cron starts the command day after day, and the command runs.            *)
FairSpec == Spec /\ WF_vars(Reconcile)
-----------------------------------------------------------------------------
(* The rows and the locals have their types, and every row refers to a     *)
(* file that FileForge once stored.                                        *)
TypeOK ==
    /\ lastId \in 0..MaxPhotos
    /\ Rows \subseteq 1..lastId
    /\ photos \in [Rows -> PhotoRow]
    /\ files \in [Files -> FileState]
    /\ handler \in [Procs -> Handler]
    /\ \A p \in Rows : files[photos[p].file] # "unused"

(* delete_listing_photo "rather than orphaning the remote file silently":  *)
(* what FileForge stores is shown by a row or about to be.                 *)
Held(f) == \/ \E p \in Rows : photos[p].file = f
           \/ \E w \in Web : At(w, "upload.insert") /\ handler[w].file = f
NoOrphans == \A f \in Files : files[f] = "stored" => Held(f)

(* add_listing_photo "never creates a ListingPhoto row with no backing     *)
(* file", and a row outlives its file only while its deletion is on the    *)
(* way (unless the deletion dies there, its answer is lost, or the file    *)
(* was deleted from outside: those are left to reconciliation).            *)
NoBrokenImages ==
    \A p \in Rows : \/ files[photos[p].file] = "stored"
                    \/ \E w \in Web : At(w, "delete.row") /\ handler[w].photo = p

(* Reconciliation: a row whose file is gone does not stay.                 *)
BrokenPhotosLeave ==
    \A p \in Ids : (p \in Rows /\ files[photos[p].file] = "deleted") ~> p \notin Rows

(* reconcile_pending_photos removes a row "whose backing FileForge file no *)
(* longer exists", and no other.                                           *)
ReconcileKeepsBacked ==
    [][\A p \in Rows : ReconcileRow /\ p \notin DOMAIN photos'
                          => files[photos[p].file] # "stored"]_vars

(* "Photos are appended in upload order" (API_REFERENCE): a new row is the *)
(* last one in the order of ListingPhoto.Meta, order and then id.          *)
AppendedLast ==
    [][\A p \in DOMAIN photos' \ Rows, q \in Rows :
          q \in DOMAIN photos' => photos[q].order <= photos'[p].order]_vars
=============================================================================

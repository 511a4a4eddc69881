-------------------------- MODULE PhotoStoreProofs ---------------------------
(***************************************************************************)
(* Proofs about PhotoStore for any bounds, files and processes.            *)
(*                                                                         *)
(* NoOrphans holds wherever the three sources of orphans are absent: an    *)
(* upload whose answer is lost, an upload that dies before it inserts its  *)
(* row, and an outage taken for a missing file by the reconciliation.      *)
(* What every deletion then needs to know is that the row it removes has   *)
(* lost its file: TypeInv says this of all handlers on the way there.      *)
(*                                                                         *)
(* NoBrokenImages holds wherever deletions finish what they begin.  A row  *)
(* and its file are two writes, so the argument is about who else has the  *)
(* file: FileInv says that nobody has.                                     *)
(***************************************************************************)
EXTENDS PhotoStore, FiniteSetTheorems, TLAPS

(* The row p is, if it still exists, the one with file f. *)
IsRow(p, f) == /\ p \in 1..lastId
               /\ f \in Files
               /\ files[f] # "unused"
               /\ p \in Rows => photos[p].file = f

(* What is known of the locals of a process. *)
LocalsOK(w) ==
    /\ handler[w].pc \in {"upload.post", "upload.insert", "delete.remote", "delete.row"}
          => w \in Web
    /\ At(w, "upload.insert")
          => handler[w].file \in Files /\ files[handler[w].file] # "unused"
    /\ At(w, "delete.remote") \/ At(w, "delete.row") \/ At(w, "reconcile.row")
          => IsRow(handler[w].photo, handler[w].file)
    /\ At(w, "delete.row") => files[handler[w].file] = "deleted"
    /\ At(w, "reconcile.row") /\ "status" \notin Lossy => files[handler[w].file] = "deleted"
    /\ \A p \in Ids, f \in Files : <<p, f>> \in handler[w].rest => IsRow(p, f)

Locals == \A w \in Procs : LocalsOK(w)

TypeInv == TypeOK /\ Locals

(* Rows are inserted with a new primary key, deleted, and never changed;   *)
(* files are stored once and deleted once.                                 *)
Evolves ==
    /\ lastId' \in {lastId, lastId + 1}
    /\ DOMAIN photos' \subseteq Rows \cup ((lastId + 1)..lastId')
    /\ \A q \in Rows \cap DOMAIN photos' : photos'[q] = photos[q]
    /\ \A f \in Files : /\ files[f] # "unused" => files'[f] # "unused"
                        /\ files[f] = "deleted" => files'[f] = "deleted"
-----------------------------------------------------------------------------
(* Nothing has happened yet. *)
LEMMA InitTypeInv == Init => TypeInv
<1> SUFFICES ASSUME Init PROVE TypeInv
  OBVIOUS
<1> USE BoundsAssumption
<1>1. TypeOK
  BY DEF Init, TypeOK, Rows, FileState, Handler, Idle, PCs
<1>2. Locals
  BY DEF Init, Locals, LocalsOK, At, Idle
<1>3. QED
  BY <1>1, <1>2 DEF TypeInv

(* What a process knows of a row stays true, whatever the others do. *)
LEMMA RowsStay ==
    ASSUME TypeOK, Evolves, NEW p, NEW f, IsRow(p, f)
    PROVE  IsRow(p, f)'
<1> USE BoundsAssumption
<1>1. p \in 1..lastId' /\ p \notin (lastId + 1)..lastId'
  BY DEF TypeOK, Evolves, IsRow
<1>2. p \in DOMAIN photos' => p \in Rows /\ photos'[p] = photos[p]
  BY <1>1 DEF Evolves
<1>3. QED
  BY <1>1, <1>2 DEF IsRow, Rows, Evolves

(* Likewise for all that is known of a process that takes no step. *)
LEMMA LocalsStay ==
    ASSUME TypeInv, Evolves, NEW v \in Procs, handler'[v] = handler[v]
    PROVE  LocalsOK(v)'
<1>1. LocalsOK(v)
  BY DEF TypeInv, Locals
<1>2. \A p, f : IsRow(p, f) => IsRow(p, f)'
  BY RowsStay DEF TypeInv
<1>3. \A f \in Files : /\ files[f] # "unused" => files'[f] # "unused"
                       /\ files[f] = "deleted" => files'[f] = "deleted"
  BY DEF Evolves
<1>4. At(v, "delete.row") \/ At(v, "reconcile.row") => handler[v].file \in Files
  BY <1>1 DEF LocalsOK, IsRow
<1>5. QED
  BY <1>1, <1>2, <1>3, <1>4 DEF LocalsOK, At

(* It is enough to look at the process that takes the step. *)
LEMMA OneProcess ==
    ASSUME TypeInv, Evolves, NEW w \in Procs, NEW h \in Handler, Become(w, h),
           TypeOK', LocalsOK(w)'
    PROVE  TypeInv'
<1>1. \A v \in Procs \ {w} : handler'[v] = handler[v]
  BY DEF Become, TypeInv, TypeOK
<1>2. QED
  BY <1>1, LocalsStay DEF TypeInv, Locals

(* An idle process is typed. *)
LEMMA IdleTyped == Idle \in Handler
BY BoundsAssumption DEF Idle, Handler, PCs

(* A process that is idle knows nothing. *)
LEMMA IdleOK ==
    ASSUME TypeInv, NEW w \in Procs, Finish(w)
    PROVE  Idle \in Handler /\ handler' \in [Procs -> Handler] /\ LocalsOK(w)'
<1> USE BoundsAssumption
<1>1. Idle \in Handler
  BY DEF Idle, Handler, PCs
<1>2. handler'[w] = Idle
  BY DEF Finish, Become, TypeInv, TypeOK
<1>3. QED
  BY <1>1, <1>2 DEF Finish, Become, TypeInv, TypeOK, LocalsOK, At, Idle

-----------------------------------------------------------------------------
(* POST of a photo. *)
LEMMA UploadSteps ==
    ASSUME TypeInv, NEW w \in Web, UploadBegin(w) \/ UploadPost(w) \/ UploadInsert(w)
    PROVE  TypeInv'
<1> USE BoundsAssumption
<1>0. w \in Procs /\ TypeOK /\ LocalsOK(w)
  BY DEF Procs, TypeInv, Locals
<1>1. CASE UploadBegin(w)
  <2>1. Rows \subseteq 1..MaxPhotos
    BY <1>0 DEF TypeOK
  <2>2. Cardinality(Rows) \in 0..MaxPhotos
    <3>1. IsFiniteSet(1..MaxPhotos) /\ Cardinality(1..MaxPhotos) = MaxPhotos
      BY FS_Interval
    <3>2. IsFiniteSet(Rows) /\ Cardinality(Rows) <= MaxPhotos
      BY <2>1, <3>1, FS_Subset
    <3>3. QED
      BY <3>2, FS_CardinalityType
  <2> DEFINE h == [Idle EXCEPT !.pc = "upload.post", !.order = Cardinality(Rows)]
  <2>3. h \in Handler
    BY <2>2 DEF Idle, Handler, PCs
  <2>4. Become(w, h) /\ handler'[w] = h /\ handler' \in [Procs -> Handler]
    BY <1>0, <1>1, <2>3 DEF UploadBegin, Become, TypeOK
  <2>5. Evolves /\ TypeOK'
    BY <1>0, <1>1, <2>4 DEF UploadBegin, Evolves, TypeOK, Rows
  <2>6. LocalsOK(w)'
    BY <2>4 DEF LocalsOK, At, Idle
  <2>7. QED
    BY <1>0, <2>3, <2>4, <2>5, <2>6, OneProcess
<1>2. CASE UploadPost(w)
  <2>1. ASSUME Finish(w), UNCHANGED files PROVE TypeInv'
    <3>1. Evolves /\ TypeOK'
      BY <1>0, <1>2, <2>1, IdleOK DEF UploadPost, Evolves, TypeOK, Rows
    <3>2. QED
      BY <1>0, <2>1, <3>1, IdleOK, OneProcess DEF Finish
  <2>2. ASSUME NEW f \in Files, files[f] = "unused", files' = [files EXCEPT ![f] = "stored"],
               UNCHANGED <<photos, lastId>>
        PROVE  /\ Evolves
               /\ handler' \in [Procs -> Handler] => TypeOK'
               /\ files'[f] = "stored"
    BY <1>0, <2>2 DEF Evolves, TypeOK, Rows, FileState, PhotoRow
  <2>3. ASSUME NEW f \in Files, files[f] = "unused", files' = [files EXCEPT ![f] = "stored"],
               Become(w, [handler[w] EXCEPT !.pc = "upload.insert", !.file = f])
        PROVE  TypeInv'
    <3> DEFINE h == [handler[w] EXCEPT !.pc = "upload.insert", !.file = f]
    <3>1. h \in Handler
      BY <1>0 DEF TypeOK, Handler, PCs
    <3>2. handler'[w] = h /\ handler' \in [Procs -> Handler]
      BY <1>0, <2>3, <3>1 DEF Become, TypeOK
    <3>3. Evolves /\ TypeOK' /\ files'[f] = "stored"
      BY <1>2, <2>2, <2>3, <3>2 DEF UploadPost
    <3>4. h.pc = "upload.insert" /\ h.file = f /\ h.rest = handler[w].rest
      BY <1>0 DEF TypeOK, Handler
    <3>5. \A p \in Ids, g \in Files : <<p, g>> \in h.rest => IsRow(p, g)'
      BY <1>0, <3>3, <3>4, RowsStay DEF LocalsOK
    <3>6. LocalsOK(w)'
      BY <3>2, <3>3, <3>4, <3>5 DEF LocalsOK, At
    <3>7. QED
      BY <1>0, <2>3, <3>1, <3>3, <3>6, OneProcess
  <2>4. ASSUME NEW f \in Files, files[f] = "unused", files' = [files EXCEPT ![f] = "stored"],
               Finish(w)
        PROVE  TypeInv'
    <3>1. Evolves /\ TypeOK'
      BY <1>0, <1>2, <2>2, <2>4, IdleOK DEF UploadPost
    <3>2. QED
      BY <1>0, <2>4, <3>1, IdleOK, OneProcess DEF Finish
  <2>5. QED
    BY <1>2, <2>1, <2>3, <2>4 DEF UploadPost
<1>3. CASE UploadInsert(w)
  <2> DEFINE row == [file |-> handler[w].file, order |-> handler[w].order]
  <2>1. /\ row \in PhotoRow
        /\ files[row.file] # "unused"
        /\ handler' \in [Procs -> Handler]
    BY <1>0, <1>3, IdleOK DEF UploadInsert, LocalsOK, TypeOK, Handler, PhotoRow
  <2>2. lastId' = lastId + 1 /\ lastId' \in 0..MaxPhotos /\ lastId' \notin Rows
    BY <1>0, <1>3 DEF UploadInsert, TypeOK
  <2>3. /\ DOMAIN photos' = Rows \cup {lastId'}
        /\ photos'[lastId'] = row
        /\ \A q \in Rows : photos'[q] = photos[q]
        /\ photos' \in [Rows \cup {lastId'} -> PhotoRow]
    BY <1>0, <1>3, <2>1, <2>2 DEF UploadInsert, TypeOK
  <2>4. Evolves
    BY <1>0, <1>3, <2>2, <2>3 DEF UploadInsert, Evolves, TypeOK
  <2>5. TypeOK'
    <3>1. DOMAIN photos' \subseteq 1..lastId'
      BY <1>0, <2>2, <2>3 DEF TypeOK
    <3>2. \A p \in DOMAIN photos' : files'[photos'[p].file] # "unused"
      BY <1>0, <1>3, <2>1, <2>3 DEF UploadInsert, TypeOK
    <3>3. QED
      BY <1>0, <1>3, <2>1, <2>2, <2>3, <3>1, <3>2 DEF UploadInsert, TypeOK, Rows
  <2>6. QED
    BY <1>0, <1>3, <2>4, <2>5, IdleOK, OneProcess DEF UploadInsert, Finish
<1>4. QED
  BY <1>1, <1>2, <1>3

(* What DeleteRow and ReconcileRow do to the tables. *)
LEMMA RowGone ==
    ASSUME TypeOK, NEW p, photos' = Without(p), UNCHANGED <<lastId, files>>
    PROVE  Evolves /\ (handler' \in [Procs -> Handler] => TypeOK')
BY DEF TypeOK, Without, Evolves, Rows

(* DELETE of a photo. *)
LEMMA DeleteSteps ==
    ASSUME TypeInv, NEW w \in Web,
           (\E p \in Ids : DeleteBegin(w, p)) \/ DeleteRemote(w) \/ DeleteRow(w)
    PROVE  TypeInv'
<1> USE BoundsAssumption
<1>0. w \in Procs /\ TypeOK /\ LocalsOK(w)
  BY DEF Procs, TypeInv, Locals
<1>1. ASSUME NEW p \in Ids, DeleteBegin(w, p) PROVE TypeInv'
  <2> DEFINE h == [Idle EXCEPT !.pc = "delete.remote", !.photo = p, !.file = photos[p].file]
  <2>1. photos[p] \in PhotoRow /\ IsRow(p, photos[p].file)
    BY <1>0, <1>1 DEF DeleteBegin, TypeOK, PhotoRow, IsRow
  <2>2. h \in Handler
    BY <2>1, IdleTyped DEF Handler, PCs, PhotoRow
  <2>3. Become(w, h) /\ handler'[w] = h /\ handler' \in [Procs -> Handler]
    BY <1>0, <1>1, <2>2 DEF DeleteBegin, Become, TypeOK
  <2>4. Evolves /\ TypeOK'
    BY <1>0, <1>1, <2>3 DEF DeleteBegin, Evolves, TypeOK, Rows
  <2>5. IsRow(p, photos[p].file)'
    BY <1>1, <2>1 DEF DeleteBegin, IsRow, Rows
  <2>6. handler'[w].pc = "delete.remote" /\ handler'[w].photo = p
        /\ handler'[w].file = photos'[p].file /\ handler'[w].rest = {}
    BY <1>1, <2>3 DEF Idle, DeleteBegin
  <2>7. LocalsOK(w)'
    BY <2>5, <2>6 DEF LocalsOK, At
  <2>8. QED
    BY <1>0, <2>2, <2>3, <2>4, <2>7, OneProcess
<1>2. CASE DeleteRemote(w)
  <2>0. IsRow(handler[w].photo, handler[w].file) /\ handler[w].file \in Files
    BY <1>0, <1>2 DEF DeleteRemote, LocalsOK, IsRow
  <2>1. ASSUME Finish(w), UNCHANGED files PROVE TypeInv'
    <3>1. Evolves /\ TypeOK'
      BY <1>0, <1>2, <2>1, IdleOK DEF DeleteRemote, Evolves, TypeOK, Rows
    <3>2. QED
      BY <1>0, <2>1, <3>1, IdleOK, OneProcess DEF Finish
  <2>2. ASSUME files' = [files EXCEPT ![handler[w].file] = "deleted"]
        PROVE  /\ Evolves
               /\ handler' \in [Procs -> Handler] => TypeOK'
               /\ files'[handler[w].file] = "deleted"
    BY <1>0, <1>2, <2>0, <2>2 DEF DeleteRemote, Evolves, TypeOK, Rows, FileState, PhotoRow
  <2>3. ASSUME files' = [files EXCEPT ![handler[w].file] = "deleted"],
               Become(w, [handler[w] EXCEPT !.pc = "delete.row"])
        PROVE  TypeInv'
    <3> DEFINE h == [handler[w] EXCEPT !.pc = "delete.row"]
    <3>1. h \in Handler
      BY <1>0 DEF TypeOK, Handler, PCs
    <3>2. handler'[w] = h /\ handler' \in [Procs -> Handler]
      BY <1>0, <2>3, <3>1 DEF Become, TypeOK
    <3>3. h.pc = "delete.row" /\ h.file = handler[w].file /\ h.photo = handler[w].photo
          /\ h.rest = handler[w].rest
      BY <1>0 DEF TypeOK, Handler
    <3>4. Evolves /\ TypeOK' /\ files'[h.file] = "deleted"
      BY <2>2, <2>3, <3>2, <3>3
    <3>5. IsRow(handler[w].photo, handler[w].file)'
      <4>1. IsRow(h.photo, h.file)
        BY <2>0, <3>3
      <4> HIDE DEF h
      <4>2. PICK p, f : p = h.photo /\ f = h.file
        OBVIOUS
      <4>3. IsRow(p, f)'
        BY <1>0, <3>4, <4>1, <4>2, RowsStay
      <4>4. p = handler'[w].photo /\ f = handler'[w].file
        BY <3>2, <4>2
      <4>5. QED
        BY <4>3, <4>4
    <3>6. \A p \in Ids, g \in Files : <<p, g>> \in h.rest => IsRow(p, g)'
      BY <1>0, <3>3, <3>4, RowsStay DEF LocalsOK
    <3>7. LocalsOK(w)'
      BY <3>2, <3>3, <3>4, <3>5, <3>6 DEF LocalsOK, At
    <3>8. QED
      BY <1>0, <2>3, <3>1, <3>4, <3>7, OneProcess
  <2>4. ASSUME files' = [files EXCEPT ![handler[w].file] = "deleted"], Finish(w)
        PROVE  TypeInv'
    BY <1>0, <2>2, <2>4, IdleOK, OneProcess DEF Finish
  <2>5. QED
    BY <1>2, <2>1, <2>3, <2>4 DEF DeleteRemote
<1>3. CASE DeleteRow(w)
  <2>1. Evolves /\ TypeOK'
    BY <1>0, <1>3, RowGone, IdleOK DEF DeleteRow
  <2>2. QED
    BY <1>0, <1>3, <2>1, IdleOK, OneProcess DEF DeleteRow, Finish
<1>4. QED
  BY <1>1, <1>2, <1>3

(* The job goes on with rows it knows. *)
LEMMA ContinueOK ==
    ASSUME TypeInv, Evolves, NEW rest \in SUBSET handler[Job].rest,
           Continue(rest), handler' \in [Procs -> Handler] => TypeOK'
    PROVE  TypeInv'
<1> USE BoundsAssumption
<1>0. Job \in Procs /\ TypeOK /\ LocalsOK(Job)
  BY DEF Procs, TypeInv, Locals
<1>1. CASE rest = {}
  BY <1>0, <1>1, IdleOK, OneProcess DEF Continue, Finish
<1>2. CASE rest # {}
  <2> DEFINE h == [Idle EXCEPT !.pc = "reconcile.ask", !.rest = rest]
  <2>1. h \in Handler /\ h.pc = "reconcile.ask" /\ h.rest = rest
    <3>1. handler[Job].rest \in SUBSET (Ids \X Files)
      BY <1>0 DEF TypeOK, Handler
    <3>2. QED
      BY <3>1, IdleTyped DEF Handler, PCs
  <2>2. Become(Job, h) /\ handler'[Job] = h /\ handler' \in [Procs -> Handler]
    BY <1>0, <1>2, <2>1 DEF Continue, Become, TypeOK
  <2>3. \A p \in Ids, g \in Files : <<p, g>> \in rest => IsRow(p, g)'
    BY <1>0, RowsStay DEF LocalsOK
  <2>4. LocalsOK(Job)'
    BY <2>1, <2>2, <2>3 DEF LocalsOK, At
  <2>5. QED
    BY <1>0, <2>1, <2>2, <2>4, OneProcess
<1>3. QED
  BY <1>1, <1>2

(* reconcile_pending_photos. *)
LEMMA ReconcileSteps == TypeInv /\ Reconcile => TypeInv'
<1> SUFFICES ASSUME TypeInv, Reconcile PROVE TypeInv'
  OBVIOUS
<1> USE BoundsAssumption
<1>0. Job \in Procs /\ TypeOK /\ LocalsOK(Job)
  BY DEF Procs, TypeInv, Locals
<1>1. UNCHANGED <<photos, lastId, files>>
         => Evolves /\ (handler' \in [Procs -> Handler] => TypeOK')
  BY <1>0 DEF Evolves, TypeOK, Rows
<1>2. CASE ReconcileBegin
  <2> DEFINE rest == {<<p, photos[p].file>> : p \in Rows}
             h == [Idle EXCEPT !.pc = "reconcile.ask", !.rest = rest]
  <2>1. \A p \in Rows : p \in Ids /\ photos[p].file \in Files /\ IsRow(p, photos[p].file)
    BY <1>0 DEF TypeOK, PhotoRow, IsRow, Ids
  <2>2. h \in Handler /\ h.pc = "reconcile.ask" /\ h.rest = rest
    <3>1. rest \in SUBSET (Ids \X Files)
      BY <2>1
    <3>2. QED
      BY <3>1, IdleTyped DEF Handler, PCs
  <2>3. Become(Job, h) /\ handler'[Job] = h /\ handler' \in [Procs -> Handler]
    BY <1>0, <1>2, <2>2 DEF ReconcileBegin, Become, TypeOK
  <2>4. \A p, f : <<p, f>> \in rest => IsRow(p, f)'
    BY <1>2, <2>1 DEF ReconcileBegin, IsRow, Rows
  <2>5. LocalsOK(Job)'
    BY <2>2, <2>3, <2>4 DEF LocalsOK, At
  <2>6. QED
    BY <1>0, <1>1, <1>2, <2>2, <2>3, <2>5, OneProcess DEF ReconcileBegin
<1>3. ASSUME NEW p \in Ids, NEW f \in Files, ReconcileAsk(p, f) PROVE TypeInv'
  <2> DEFINE rest == handler[Job].rest \ {<<p, f>>}
             h == [Idle EXCEPT !.pc = "reconcile.row", !.photo = p, !.file = f, !.rest = rest]
  <2>1. UNCHANGED <<photos, lastId, files>> /\ <<p, f>> \in handler[Job].rest
    BY <1>3 DEF ReconcileAsk
  <2>2. CASE Continue(rest)
    BY <1>1, <2>1, <2>2, ContinueOK
  <2>3. CASE Drop(p, f, rest) /\ (files[f] # "stored" \/ "status" \in Lossy)
    <3>1. h \in Handler /\ h.pc = "reconcile.row" /\ h.photo = p /\ h.file = f /\ h.rest = rest
      <4>1. handler[Job].rest \in SUBSET (Ids \X Files)
        BY <1>0 DEF TypeOK, Handler
      <4>2. QED
        BY <4>1, IdleTyped DEF Handler, PCs
    <3>2. Become(Job, h) /\ handler'[Job] = h /\ handler' \in [Procs -> Handler]
      BY <1>0, <2>3, <3>1 DEF Drop, Become, TypeOK
    <3>3. Evolves /\ TypeOK'
      BY <1>1, <2>1, <3>2
    <3>4. IsRow(p, f) /\ files[f] \in FileState
      BY <1>0, <2>1 DEF LocalsOK, TypeOK
    <3>5. IsRow(p, f)' /\ ("status" \notin Lossy => files'[f] = "deleted")
      BY <1>0, <2>1, <2>3, <3>3, <3>4, RowsStay DEF IsRow, FileState
    <3>6. \A q \in Ids, g \in Files : <<q, g>> \in rest => IsRow(q, g)'
      BY <1>0, <3>3, RowsStay DEF LocalsOK
    <3>7. LocalsOK(Job)'
      BY <3>1, <3>2, <3>5, <3>6 DEF LocalsOK, At
    <3>8. QED
      BY <1>0, <3>1, <3>2, <3>3, <3>7, OneProcess
  <2>4. QED
    BY <1>3, <2>2, <2>3 DEF ReconcileAsk
<1>4. CASE ReconcileRow
  <2>1. Evolves /\ (handler' \in [Procs -> Handler] => TypeOK')
    BY <1>0, <1>4, RowGone DEF ReconcileRow
  <2>2. QED
    BY <1>4, <2>1, ContinueOK DEF ReconcileRow
<1>5. QED
  BY <1>2, <1>3, <1>4 DEF Reconcile

(* Every step keeps the types and what the processes know. *)
LEMMA StepTypeInv == TypeInv /\ [Next]_vars => TypeInv'
<1> SUFFICES ASSUME TypeInv, [Next]_vars PROVE TypeInv'
  OBVIOUS
<1>0. TypeOK
  BY DEF TypeInv
<1>1. CASE UNCHANGED vars
  <2>1. TypeOK'
    BY <1>0, <1>1 DEF vars, TypeOK, Rows
  <2>2. Evolves
    BY <1>1 DEF vars, Evolves, Rows
  <2>3. QED
    BY <1>1, <2>1, <2>2, LocalsStay DEF vars, TypeInv, Locals
<1>2. ASSUME NEW w \in Web, Serve(w) PROVE TypeInv'
  BY <1>2, UploadSteps, DeleteSteps DEF Serve
<1>3. ASSUME NEW f \in Files, DriftAway(f) PROVE TypeInv'
  <2>1. TypeOK' /\ Evolves
    BY <1>0, <1>3 DEF DriftAway, TypeOK, Evolves, Rows, FileState, PhotoRow
  <2>2. QED
    BY <1>3, <2>1, LocalsStay DEF DriftAway, TypeInv, Locals
<1>4. ASSUME NEW w \in Procs, Crash(w) PROVE TypeInv'
  <2>1. Evolves /\ TypeOK'
    BY <1>0, <1>4, IdleOK DEF Crash, Evolves, TypeOK, Rows
  <2>2. QED
    BY <1>4, <2>1, IdleOK, OneProcess DEF Crash, Finish
<1>5. QED
  BY <1>2, <1>3, <1>4, <1>1, ReconcileSteps DEF Next

(* Every row has its type and a file that was stored, in every behaviour.  *)
THEOREM TypeCorrect == Spec => []TypeOK
<1>1. TypeInv => TypeOK
  BY DEF TypeInv
<1>2. QED
  BY InitTypeInv, StepTypeInv, <1>1, PTL DEF Spec

-----------------------------------------------------------------------------
(* No upload is lost on its way and no outage is taken for a missing file. *)
Reliable == "upload" \notin Lossy /\ "status" \notin Lossy /\ "upload" \notin Crashes

(* A step that drops no upload and only rows without a file orphans none.  *)
LEMMA HeldStays ==
    ASSUME TypeInv, NoOrphans, NEW w \in Procs, ~At(w, "upload.insert"), NEW h, Become(w, h),
           \A f \in Files : files'[f] = "stored" => files[f] = "stored" \/ Held(f)',
           \A p \in Rows : \/ p \in DOMAIN photos' /\ photos'[p] = photos[p]
                           \/ files[photos[p].file] # "stored"
    PROVE  NoOrphans'
<1> SUFFICES ASSUME NEW f \in Files, files'[f] = "stored", files[f] = "stored" PROVE Held(f)'
  BY DEF NoOrphans
<1>1. CASE \E p \in Rows : photos[p].file = f
  BY <1>1 DEF Held, Rows
<1>2. CASE \E v \in Web : At(v, "upload.insert") /\ handler[v].file = f
  <2>1. PICK v \in Web : At(v, "upload.insert") /\ handler[v].file = f
    BY <1>2
  <2>2. handler'[v] = handler[v]
    BY <2>1 DEF Become, TypeInv, TypeOK, Procs
  <2>3. QED
    BY <2>1, <2>2 DEF Held, At
<1>3. QED
  BY <1>1, <1>2 DEF NoOrphans, Held

(* Every step of every process, one by one. *)
LEMMA StepNoOrphans ==
    ASSUME Reliable, TypeInv, NoOrphans, [Next]_vars
    PROVE  NoOrphans'
<1>0. TypeOK /\ \A w \in Procs : LocalsOK(w)
  BY DEF TypeInv, Locals
<1>1. CASE UNCHANGED vars
  BY <1>1 DEF vars, NoOrphans, Held, Rows, At
<1>2. ASSUME NEW w \in Web, UploadBegin(w) \/ \E p \in Ids : DeleteBegin(w, p) PROVE NoOrphans'
  BY <1>2, HeldStays DEF UploadBegin, DeleteBegin, At, Procs, Rows
<1>3. ASSUME NEW w \in Web, UploadPost(w) PROVE NoOrphans'
  <2>1. w \in Procs /\ ~At(w, "upload.insert") /\ UNCHANGED <<photos, lastId>>
    BY <1>3 DEF UploadPost, At, Procs
  <2>2. CASE Finish(w) /\ UNCHANGED files
    BY <2>1, <2>2, HeldStays DEF Finish, Rows
  <2>3. ASSUME NEW f \in Files, files' = [files EXCEPT ![f] = "stored"],
               Become(w, [handler[w] EXCEPT !.pc = "upload.insert", !.file = f])
        PROVE  NoOrphans'
    <3>1. At(w, "upload.insert")' /\ handler'[w].file = f
      BY <1>0, <2>1, <2>3 DEF Become, At, TypeOK, Handler
    <3>2. Held(f)'
      BY <3>1 DEF Held
    <3>3. \A g \in Files \ {f} : files'[g] = files[g]
      BY <1>0, <2>3 DEF TypeOK
    <3>4. \A g \in Files : files'[g] = "stored" => files[g] = "stored" \/ Held(g)'
      BY <3>2, <3>3
    <3>5. QED
      BY <2>1, <2>3, <3>4, HeldStays DEF Rows
  <2>4. QED
    BY <1>3, <2>2, <2>3 DEF UploadPost, Reliable
<1>4. ASSUME NEW w \in Web, UploadInsert(w) PROVE NoOrphans'
  <2> SUFFICES ASSUME NEW f \in Files, files[f] = "stored" PROVE Held(f)'
    BY <1>4 DEF UploadInsert, NoOrphans
  <2>1. /\ lastId' \notin Rows
        /\ DOMAIN photos' = Rows \cup {lastId'}
        /\ photos'[lastId'].file = handler[w].file
        /\ \A q \in Rows : photos'[q] = photos[q]
    BY <1>0, <1>4 DEF UploadInsert, TypeOK
  <2>2. CASE \E p \in Rows : photos[p].file = f
    BY <2>1, <2>2 DEF Held, Rows
  <2>3. CASE handler[w].file = f
    BY <2>1, <2>3 DEF Held, Rows
  <2>4. ASSUME NEW v \in Web, v # w, At(v, "upload.insert"), handler[v].file = f PROVE Held(f)'
    <3>1. handler'[v] = handler[v]
      BY <1>0, <1>4, <2>4 DEF UploadInsert, Finish, Become, TypeOK, Procs
    <3>2. QED
      BY <2>4, <3>1 DEF Held, At
  <2>5. QED
    BY <2>2, <2>3, <2>4 DEF NoOrphans, Held
<1>5. ASSUME NEW w \in Web, DeleteRemote(w) PROVE NoOrphans'
  <2>1. \A f \in Files : files'[f] = "stored" => files[f] = "stored"
    BY <1>0, <1>5 DEF DeleteRemote, TypeOK
  <2>2. w \in Procs /\ ~At(w, "upload.insert") /\ UNCHANGED <<photos, lastId>>
    BY <1>5 DEF DeleteRemote, At, Procs
  <2>3. QED
    BY <1>5, <2>1, <2>2, HeldStays DEF DeleteRemote, Finish, Rows
<1>6. ASSUME NEW w \in Procs, NEW p, photos' = Without(p), UNCHANGED files,
             p \in Rows => files[photos[p].file] # "stored",
             ~At(w, "upload.insert"), NEW h, Become(w, h)
      PROVE  NoOrphans'
  <2>1. \A q \in Rows : \/ q \in DOMAIN photos' /\ photos'[q] = photos[q]
                        \/ files[photos[q].file] # "stored"
    BY <1>6 DEF Without, Rows
  <2>2. QED
    BY <1>6, <2>1, HeldStays
<1>7. ASSUME NEW w \in Web, DeleteRow(w) PROVE NoOrphans'
  <2>1. /\ w \in Procs
        /\ ~At(w, "upload.insert")
        /\ files[handler[w].file] = "deleted"
        /\ IsRow(handler[w].photo, handler[w].file)
    BY <1>0, <1>7 DEF DeleteRow, At, Procs, LocalsOK
  <2>2. handler[w].photo \in Rows => files[photos[handler[w].photo].file] # "stored"
    BY <2>1 DEF IsRow
  <2>3. QED
    BY <1>6, <1>7, <2>1, <2>2 DEF DeleteRow, Finish
<1>8. ASSUME Reconcile PROVE NoOrphans'
  <2>0. Job \in Procs
    BY DEF Procs
  <2>1. CASE ReconcileBegin
    BY <2>0, <2>1, HeldStays DEF ReconcileBegin, At, Rows
  <2>2. ASSUME NEW p \in Ids, NEW f \in Files, ReconcileAsk(p, f) PROVE NoOrphans'
    BY <2>0, <2>2, HeldStays DEF ReconcileAsk, Continue, Drop, Finish, At, Rows
  <2>3. CASE ReconcileRow
    <3>1. /\ ~At(Job, "upload.insert")
          /\ files[handler[Job].file] = "deleted"
          /\ IsRow(handler[Job].photo, handler[Job].file)
      BY <1>0, <2>0, <2>3 DEF ReconcileRow, At, LocalsOK, Reliable
    <3>2. handler[Job].photo \in Rows => files[photos[handler[Job].photo].file] # "stored"
      BY <3>1 DEF IsRow
    <3>3. PICK h : Become(Job, h)
      BY <2>3 DEF ReconcileRow, Continue, Finish
    <3>4. QED
      BY <1>6, <2>0, <2>3, <3>1, <3>2, <3>3 DEF ReconcileRow
  <2>4. QED
    BY <1>8, <2>1, <2>2, <2>3 DEF Reconcile
<1>9. ASSUME NEW f \in Files, DriftAway(f) PROVE NoOrphans'
  BY <1>0, <1>9 DEF DriftAway, TypeOK, NoOrphans, Held, Rows, At
<1>10. ASSUME NEW w \in Procs, Crash(w) PROVE NoOrphans'
  <2>1. ~At(w, "upload.insert")
    BY <1>10, FailuresAssumption DEF Crash, Activity, At, Reliable
  <2>2. QED
    BY <1>10, <2>1, HeldStays DEF Crash, Finish, Rows
<1>11. QED
  BY <1>1, <1>2, <1>3, <1>4, <1>5, <1>7, <1>8, <1>9, <1>10 DEF Next, Serve

(* delete_listing_photo's order of the two deletions does what it promises:*)
(* whatever is refused, dies or races elsewhere, no file is orphaned.      *)
THEOREM NothingIsOrphaned == ASSUME Reliable PROVE Spec => []NoOrphans
<1>1. Init => NoOrphans
  BY DEF Init, NoOrphans
<1>2. TypeInv /\ NoOrphans /\ [Next]_vars => NoOrphans'
  BY StepNoOrphans
<1>3. QED
  BY InitTypeInv, StepTypeInv, <1>1, <1>2, PTL DEF Spec
-----------------------------------------------------------------------------
(* Reconciliation deletes the row it asked about, and where every status   *)
(* call is answered that row has lost its file: the outage of the run      *)
(* photos_outage is the only way to break the docstring's promise.         *)
THEOREM OnlyBrokenAreReconciled ==
    ASSUME "status" \notin Lossy PROVE Spec => ReconcileKeepsBacked
<1>1. ASSUME TypeInv, NEW p \in Rows, ReconcileRow, p \notin DOMAIN photos'
      PROVE  files[photos[p].file] # "stored"
  <2>1. At(Job, "reconcile.row") /\ LocalsOK(Job)
    BY <1>1 DEF ReconcileRow, TypeInv, Locals, Procs
  <2>2. p = handler[Job].photo
    BY <1>1 DEF ReconcileRow, Without, Rows
  <2>3. QED
    BY <1>1, <2>1, <2>2 DEF LocalsOK, IsRow
<1>2. TypeInv => [\A p \in Rows : ReconcileRow /\ p \notin DOMAIN photos'
                                    => files[photos[p].file] # "stored"]_vars
  BY <1>1
<1>3. QED
  BY InitTypeInv, StepTypeInv, <1>2, PTL DEF Spec, ReconcileKeepsBacked

-----------------------------------------------------------------------------
(* Nothing is deleted from outside, and a deletion learns of its success   *)
(* and finishes.                                                           *)
Steady == ~Drift /\ "delete" \notin Lossy /\ "delete" \notin Crashes

(* Each file has one user: an upload on its way to insert it, or one row   *)
(* and the deletions of that row.                                          *)
OneRowEach == \A p, q \in Rows : photos[p].file = photos[q].file => p = q
Deleting(w) == At(w, "delete.remote") \/ At(w, "delete.row")
Fresh(w) ==
    At(w, "upload.insert") =>
        /\ files[handler[w].file] = "stored"
        /\ \A p \in Rows : photos[p].file # handler[w].file
        /\ \A v \in Web : /\ Deleting(v) => handler[v].file # handler[w].file
                          /\ At(v, "upload.insert") /\ v # w => handler[v].file # handler[w].file
OwnFile(w) ==
    Deleting(w) => \A q \in Rows : photos[q].file = handler[w].file => q = handler[w].photo
FileInv == /\ NoBrokenImages
           /\ OneRowEach
           /\ \A w \in Web : Fresh(w) /\ OwnFile(w)

(* A step that stores, deletes and inserts nothing, of a process that      *)
(* comes to no write, unless it deletes the row whose file it deleted.     *)
LEMMA NothingNew ==
    ASSUME TypeInv, FileInv, NEW w \in Procs, NEW h, Become(w, h), UNCHANGED files,
           h.pc \notin {"upload.insert", "delete.remote", "delete.row"},
           DOMAIN photos' \subseteq Rows, \A q \in DOMAIN photos' : photos'[q] = photos[q],
           At(w, "delete.row") => handler[w].photo \notin DOMAIN photos'
    PROVE  FileInv'
<1>1. \A v \in Procs : handler'[v] = IF v = w THEN h ELSE handler[v]
  BY DEF Become, TypeInv, TypeOK
<1>2. \A v \in Web : v \in Procs
  BY DEF Procs
<1>3. NoBrokenImages'
  <2> SUFFICES ASSUME NEW p \in Rows', files[photos[p].file] # "stored"
               PROVE  \E v \in Web : At(v, "delete.row")' /\ handler'[v].photo = p
    BY DEF NoBrokenImages, Rows
  <2>1. PICK v \in Web : At(v, "delete.row") /\ handler[v].photo = p
    BY DEF FileInv, NoBrokenImages, Rows
  <2>2. v # w
    BY <2>1 DEF Rows
  <2>3. QED
    BY <1>1, <1>2, <2>1, <2>2 DEF At
<1>4. OneRowEach'
  BY DEF FileInv, OneRowEach, Rows
<1>5. ASSUME NEW v \in Web PROVE Fresh(v)' /\ OwnFile(v)'
  <2>1. Fresh(v) /\ OwnFile(v)
    BY DEF FileInv
  <2>2. Fresh(v)'
    BY <1>1, <1>2, <2>1 DEF Fresh, Deleting, At, Rows
  <2>3. OwnFile(v)'
    BY <1>1, <1>2, <2>1 DEF OwnFile, Deleting, At, Rows
  <2>4. QED
    BY <2>2, <2>3
<1>6. QED
  BY <1>3, <1>4, <1>5 DEF FileInv

(* FileForge stores the file of an upload: nobody has used that id.        *)
LEMMA StoredFresh ==
    ASSUME TypeInv, FileInv, NEW w \in Web, At(w, "upload.post"), NEW f \in Files,
           files[f] = "unused", files' = [files EXCEPT ![f] = "stored"], UNCHANGED photos,
           NEW h, Become(w, h), h.pc = "idle" \/ (h.pc = "upload.insert" /\ h.file = f)
    PROVE  FileInv'
<1>1. \A v \in Web : handler'[v] = IF v = w THEN h ELSE handler[v]
  BY DEF Become, TypeInv, TypeOK, Procs
<1>2. files'[f] = "stored" /\ \A g \in Files \ {f} : files'[g] = files[g]
  BY DEF TypeInv, TypeOK
<1>3. \A p \in Rows : photos[p].file \in Files \ {f}
  BY DEF TypeInv, TypeOK, PhotoRow
<1>4. \A v \in Web : Deleting(v) \/ At(v, "upload.insert") => handler[v].file \in Files \ {f}
  BY DEF TypeInv, Locals, LocalsOK, IsRow, Deleting, Procs
<1>5. NoBrokenImages'
  <2> SUFFICES ASSUME NEW p \in Rows, files[photos[p].file] # "stored"
               PROVE  \E v \in Web : At(v, "delete.row")' /\ handler'[v].photo = p
    BY <1>2, <1>3 DEF NoBrokenImages, Rows
  <2>1. PICK v \in Web : At(v, "delete.row") /\ handler[v].photo = p
    BY DEF FileInv, NoBrokenImages
  <2>2. QED
    BY <1>1, <2>1 DEF At
<1>6. OneRowEach'
  BY DEF FileInv, OneRowEach, Rows
<1>7. ASSUME NEW v \in Web PROVE Fresh(v)' /\ OwnFile(v)'
  <2>1. Fresh(v) /\ OwnFile(v)
    BY DEF FileInv
  <2>2. Fresh(v)'
    BY <1>1, <1>2, <1>3, <1>4, <2>1 DEF Fresh, Deleting, At, Rows
  <2>3. OwnFile(v)'
    BY <1>1, <2>1 DEF OwnFile, Deleting, At, Rows
  <2>4. QED
    BY <2>2, <2>3
<1>8. QED
  BY <1>5, <1>6, <1>7 DEF FileInv

(* The row is inserted with the file that only this upload has.            *)
LEMMA InsertedBacked ==
    ASSUME TypeInv, FileInv, NEW w \in Web, UploadInsert(w)
    PROVE  FileInv'
<1> DEFINE f == handler[w].file
           new == lastId'
<1>0. TypeOK /\ Fresh(w) /\ At(w, "upload.insert") /\ UNCHANGED files
  BY DEF TypeInv, FileInv, UploadInsert
<1>1. \A v \in Web : handler'[v] = IF v = w THEN Idle ELSE handler[v]
  BY <1>0 DEF UploadInsert, Finish, Become, TypeOK, Procs
<1>2. /\ Rows' = Rows \cup {new} /\ new \notin Rows
      /\ photos'[new].file = f /\ \A q \in Rows : photos'[q] = photos[q]
  BY <1>0, BoundsAssumption DEF UploadInsert, TypeOK, Rows
<1>3. NoBrokenImages'
  <2> SUFFICES ASSUME NEW p \in Rows, files[photos[p].file] # "stored"
               PROVE  \E v \in Web : At(v, "delete.row")' /\ handler'[v].photo = p
    BY <1>0, <1>2 DEF NoBrokenImages, Fresh
  <2>1. PICK v \in Web : At(v, "delete.row") /\ handler[v].photo = p
    BY DEF FileInv, NoBrokenImages
  <2>2. QED
    BY <1>0, <1>1, <2>1 DEF At
<1>4. OneRowEach'
  BY <1>0, <1>2 DEF FileInv, OneRowEach, Fresh
<1>5. ASSUME NEW v \in Web PROVE Fresh(v)' /\ OwnFile(v)'
  <2>1. Fresh(v) /\ OwnFile(v)
    BY DEF FileInv
  <2>2. Fresh(v)'
    BY <1>0, <1>1, <1>2, <2>1 DEF Fresh, Deleting, At, Idle
  <2>3. OwnFile(v)'
    BY <1>0, <1>1, <1>2, <2>1 DEF OwnFile, Fresh, Deleting, At, Idle
  <2>4. QED
    BY <2>2, <2>3
<1>6. QED
  BY <1>3, <1>4, <1>5 DEF FileInv

(* A deletion finds the one row that has the file.                         *)
LEMMA DeletionBegins ==
    ASSUME TypeInv, FileInv, NEW w \in Web, NEW p \in Ids, DeleteBegin(w, p)
    PROVE  FileInv'
<1> DEFINE h == [Idle EXCEPT !.pc = "delete.remote", !.photo = p, !.file = photos[p].file]
<1>0. At(w, "idle") /\ p \in Rows /\ UNCHANGED <<photos, files>>
  BY DEF DeleteBegin
<1>1. h.pc = "delete.remote" /\ h.photo = p /\ h.file = photos[p].file
  BY DEF Idle
<1>2. \A v \in Web : handler'[v] = IF v = w THEN h ELSE handler[v]
  BY DEF DeleteBegin, Become, TypeInv, TypeOK, Procs
<1> HIDE DEF h
<1>3. NoBrokenImages'
  <2> SUFFICES ASSUME NEW q \in Rows, files[photos[q].file] # "stored"
               PROVE  \E v \in Web : At(v, "delete.row")' /\ handler'[v].photo = q
    BY <1>0 DEF NoBrokenImages, Rows
  <2>1. PICK v \in Web : At(v, "delete.row") /\ handler[v].photo = q
    BY DEF FileInv, NoBrokenImages
  <2>2. QED
    BY <1>0, <1>2, <2>1 DEF At
<1>4. OneRowEach'
  BY <1>0 DEF FileInv, OneRowEach, Rows
<1>5. ASSUME NEW v \in Web PROVE Fresh(v)' /\ OwnFile(v)'
  <2>1. Fresh(v) /\ OwnFile(v) /\ OneRowEach
    BY DEF FileInv
  <2>2. Fresh(v)'
    BY <1>0, <1>1, <1>2, <2>1 DEF Fresh, Deleting, At, Rows
  <2>3. OwnFile(v)'
    BY <1>0, <1>1, <1>2, <2>1 DEF OwnFile, OneRowEach, Deleting, At, Rows
  <2>4. QED
    BY <2>2, <2>3
<1>6. QED
  BY <1>3, <1>4, <1>5 DEF FileInv

(* The file is deleted, and the row it belonged to is the next to go.      *)
LEMMA DeletionGoesOn ==
    ASSUME TypeInv, FileInv, NEW w \in Web, At(w, "delete.remote"),
           files' = [files EXCEPT ![handler[w].file] = "deleted"], UNCHANGED photos,
           Become(w, [handler[w] EXCEPT !.pc = "delete.row"])
    PROVE  FileInv'
<1> DEFINE h == [handler[w] EXCEPT !.pc = "delete.row"]
<1>0. OwnFile(w) /\ Deleting(w)
  BY DEF FileInv, Deleting
<1>1. h.pc = "delete.row" /\ h.photo = handler[w].photo /\ h.file = handler[w].file
  BY DEF TypeInv, TypeOK, Handler, Procs
<1>2. \A v \in Web : handler'[v] = IF v = w THEN h ELSE handler[v]
  BY DEF Become, TypeInv, TypeOK, Procs
<1>3. \A g \in Files \ {handler[w].file} : files'[g] = files[g]
  BY DEF TypeInv, TypeOK
<1>4. \A v \in Web : At(v, "upload.insert") => handler[v].file \in Files
  BY DEF TypeInv, Locals, LocalsOK, Procs
<1> HIDE DEF h
<1>5. NoBrokenImages'
  <2> SUFFICES ASSUME NEW q \in Rows, files'[photos[q].file] # "stored"
               PROVE  \E v \in Web : At(v, "delete.row")' /\ handler'[v].photo = q
    BY DEF NoBrokenImages, Rows
  <2>1. CASE photos[q].file = handler[w].file
    BY <1>0, <1>1, <1>2, <2>1 DEF OwnFile, At
  <2>2. CASE photos[q].file # handler[w].file
    <3>1. files[photos[q].file] # "stored"
      BY <1>3, <2>2 DEF TypeInv, TypeOK, PhotoRow
    <3>2. PICK v \in Web : At(v, "delete.row") /\ handler[v].photo = q
      BY <3>1 DEF FileInv, NoBrokenImages
    <3>3. QED
      BY <1>2, <3>2 DEF At
  <2>3. QED
    BY <2>1, <2>2
<1>6. OneRowEach'
  BY DEF FileInv, OneRowEach, Rows
<1>7. ASSUME NEW v \in Web PROVE Fresh(v)' /\ OwnFile(v)'
  <2>1. Fresh(v) /\ OwnFile(v)
    BY DEF FileInv
  <2>2. Fresh(v)'
    BY <1>0, <1>1, <1>2, <1>3, <1>4, <2>1 DEF Fresh, Deleting, At, Rows
  <2>3. OwnFile(v)'
    BY <1>0, <1>1, <1>2, <2>1 DEF OwnFile, Deleting, At, Rows
  <2>4. QED
    BY <2>2, <2>3
<1>8. QED
  BY <1>5, <1>6, <1>7 DEF FileInv

(* Every step of every process.                                            *)
LEMMA StepFileInv ==
    ASSUME Steady, TypeInv, FileInv, [Next]_vars
    PROVE  FileInv'
<1>1. CASE UNCHANGED vars
  BY <1>1 DEF vars, FileInv, NoBrokenImages, OneRowEach, Fresh, OwnFile, Deleting, Rows, At
<1>2. ASSUME NEW w \in Procs, Finish(w), UNCHANGED <<photos, files>>, ~At(w, "delete.row")
      PROVE  FileInv'
  BY <1>2, NothingNew DEF Finish, Idle, Rows
<1>3. ASSUME NEW w \in Web, UploadBegin(w) PROVE FileInv'
  <2>1. w \in Procs /\ ~At(w, "delete.row") /\ UNCHANGED <<photos, files>>
    BY <1>3 DEF UploadBegin, At, Procs
  <2>2. PICK h : Become(w, h) /\ h.pc = "upload.post"
    <3>1. [Idle EXCEPT !.pc = "upload.post", !.order = Cardinality(Rows)].pc = "upload.post"
      BY DEF Idle
    <3>2. QED
      BY <1>3, <3>1 DEF UploadBegin
  <2>3. QED
    BY <2>1, <2>2, NothingNew DEF Rows
<1>4. ASSUME NEW w \in Web, UploadPost(w) PROVE FileInv'
  <2>1. w \in Procs /\ ~At(w, "delete.row") /\ At(w, "upload.post") /\ UNCHANGED photos
    BY <1>4 DEF UploadPost, At, Procs
  <2>2. CASE Finish(w) /\ UNCHANGED files
    BY <1>2, <2>1, <2>2
  <2>3. ASSUME NEW f \in Files, files[f] = "unused", files' = [files EXCEPT ![f] = "stored"],
               Become(w, [handler[w] EXCEPT !.pc = "upload.insert", !.file = f]) \/ Finish(w)
        PROVE  FileInv'
    <3>1. PICK h : /\ Become(w, h)
                   /\ h.pc = "idle" \/ (h.pc = "upload.insert" /\ h.file = f)
      <4> DEFINE g == [handler[w] EXCEPT !.pc = "upload.insert", !.file = f]
      <4>1. g.pc = "upload.insert" /\ g.file = f /\ Idle.pc = "idle"
        BY <2>1 DEF Idle, TypeInv, TypeOK, Handler
      <4>2. QED
        BY <2>3, <4>1 DEF Finish
    <3>2. QED
      BY <2>1, <2>3, <3>1, StoredFresh
  <2>4. QED
    BY <1>4, <2>2, <2>3 DEF UploadPost
<1>5. ASSUME NEW w \in Web, DeleteRemote(w) PROVE FileInv'
  <2>1. w \in Procs /\ ~At(w, "delete.row") /\ At(w, "delete.remote") /\ UNCHANGED photos
    BY <1>5 DEF DeleteRemote, At, Procs
  <2>2. QED
    BY <1>2, <1>5, <2>1, DeletionGoesOn DEF DeleteRemote, Steady
<1>6. ASSUME NEW w \in Web, DeleteRow(w) PROVE FileInv'
  <2>1. w \in Procs /\ handler[w].photo \notin DOMAIN photos' /\ UNCHANGED files
    BY <1>6 DEF DeleteRow, Without, Procs
  <2>2. DOMAIN photos' \subseteq Rows /\ \A q \in DOMAIN photos' : photos'[q] = photos[q]
    BY <1>6 DEF DeleteRow, Without
  <2>3. Become(w, Idle) /\ Idle.pc = "idle"
    BY <1>6 DEF DeleteRow, Finish, Idle
  <2>4. QED
    BY <2>1, <2>2, <2>3, NothingNew
<1>7. ASSUME Reconcile PROVE FileInv'
  <2>1. Job \in Procs /\ ~At(Job, "delete.row") /\ UNCHANGED files
    BY <1>7 DEF Reconcile, ReconcileBegin, ReconcileAsk, ReconcileRow, At, Procs
  <2>2. DOMAIN photos' \subseteq Rows /\ \A q \in DOMAIN photos' : photos'[q] = photos[q]
    BY <1>7 DEF Reconcile, ReconcileBegin, ReconcileAsk, ReconcileRow, Without, Rows
  <2>3. PICK h : Become(Job, h) /\ h.pc \in {"idle", "reconcile.ask", "reconcile.row"}
    <3>1. /\ Idle.pc = "idle"
          /\ \A rest : [Idle EXCEPT !.pc = "reconcile.ask", !.rest = rest].pc = "reconcile.ask"
          /\ \A p, f, rest : [Idle EXCEPT !.pc = "reconcile.row", !.photo = p, !.file = f,
                                          !.rest = rest].pc = "reconcile.row"
      BY DEF Idle
    <3>2. \A rest : Continue(rest) =>
             \E h : Become(Job, h) /\ h.pc \in {"idle", "reconcile.ask", "reconcile.row"}
      BY <3>1 DEF Continue, Finish
    <3>3. \A p, f, rest : Drop(p, f, rest) =>
             \E h : Become(Job, h) /\ h.pc \in {"idle", "reconcile.ask", "reconcile.row"}
      <4> SUFFICES ASSUME NEW p, NEW f, NEW rest, Drop(p, f, rest)
                   PROVE  \E h : /\ Become(Job, h)
                                 /\ h.pc \in {"idle", "reconcile.ask", "reconcile.row"}
        OBVIOUS
      <4> DEFINE g == [Idle EXCEPT !.pc = "reconcile.row", !.photo = p, !.file = f, !.rest = rest]
      <4>1. Become(Job, g) /\ g.pc = "reconcile.row"
        BY <3>1 DEF Drop
      <4>2. QED
        BY <4>1
    <3>4. CASE ReconcileBegin
      BY <3>1, <3>4 DEF ReconcileBegin
    <3>5. QED
      BY <1>7, <3>2, <3>3, <3>4 DEF Reconcile, ReconcileAsk, ReconcileRow
  <2>4. QED
    BY <2>1, <2>2, <2>3, NothingNew
<1>8. ASSUME NEW w \in Procs, Crash(w) PROVE FileInv'
  <2>1. ~At(w, "delete.row")
    BY <1>8, FailuresAssumption DEF Crash, Activity, At, Steady
  <2>2. QED
    BY <1>2, <1>8, <2>1 DEF Crash
<1>9. QED
  BY <1>1, <1>3, <1>4, <1>5, <1>6, <1>7, <1>8, InsertedBacked, DeletionBegins
     DEF Next, Serve, Steady, DriftAway

(* add_listing_photo's docstring, "never creates a ListingPhoto row with   *)
(* no backing file", and what it needs to stay true: whatever uploads,     *)
(* deletions and reconciliations overlap, a row without a file is one that *)
(* a deletion is about to remove.                                          *)
THEOREM NothingIsBroken == ASSUME Steady PROVE Spec => []NoBrokenImages
<1>1. Init => FileInv
  <2> SUFFICES ASSUME Init PROVE FileInv
    OBVIOUS
  <2>1. Rows = {}
    BY DEF Init, Rows
  <2>2. \A w \in Web : handler[w].pc = "idle"
    BY DEF Init, Idle, Procs
  <2>3. QED
    BY <2>1, <2>2 DEF FileInv, NoBrokenImages, OneRowEach, Fresh, OwnFile, Deleting, At
<1>2. TypeInv /\ FileInv /\ [Next]_vars => FileInv'
  BY StepFileInv
<1>3. FileInv => NoBrokenImages
  BY DEF FileInv
<1>4. QED
  BY InitTypeInv, StepTypeInv, <1>1, <1>2, <1>3, PTL DEF Spec
=============================================================================

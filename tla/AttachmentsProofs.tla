------------------------- MODULE AttachmentsProofs --------------------------
(***************************************************************************)
(* What Attachments guarantees for any number of requests and of faults.   *)
(***************************************************************************)
EXTENDS Attachments, SequenceTheorems, TLAPS

\* A row comes with the end of its upload, so that no upload puts an object back for it.
RowsAreUploaded ==
    \A u \in Uploads : row[u].state = "absent" \/ up[u].pc \in {"compensating", "done"}

\* The object is there exactly from the put on, until the upload is over.
ObjectsAreStored ==
    \A u \in Uploads :
        /\ up[u].pc \in {"new", "storing"} => u \notin objects
        /\ up[u].pc = "stored" => u \in objects

\* A deletion on its way is one of a committed row, and past its first step it has
\* removed the object.
DeletesAreOfRows ==
    \A d \in Deletes :
        /\ del[d].pc \in {"deleting", "removed"} => row[del[d].target].state # "absent"
        /\ del[d].pc = "removed" => del[d].target \notin objects

Inv ==
    /\ TypeOK
    /\ TrailTellsLife
    /\ RowsAreUploaded
    /\ ObjectsAreStored
    /\ DeletesAreOfRows
    /\ DeletedIsGone
    /\ NoOrphans
    /\ LostOnlyByDelete

\* The invariant holds before the first request.
LEMMA InvInit == Init => Inv
  BY MaxFaultsAssumption DEF Init, Inv, TypeOK, TrailTellsLife, RowsAreUploaded, ObjectsAreStored, DeletesAreOfRows,
     DeletedIsGone, NoOrphans, LostOnlyByDelete, Row, NoRow, Active, Upload, Delete, Answers

\* The two ways a trail grows.
LEMMA TrailGrows ==
    /\ Append(<<>>, "UPLOADED") = <<"UPLOADED">>
    /\ Append(<<"UPLOADED">>, "DELETED") = <<"UPLOADED", "DELETED">>
<1>1. Append(<<>>, "UPLOADED") = <<"UPLOADED">>
  OBVIOUS
<1>2. /\ Len(<<"UPLOADED">>) = 1
      /\ <<"UPLOADED">>[1] = "UPLOADED"
      /\ <<"UPLOADED">> \in Seq({"UPLOADED", "DELETED"})
  OBVIOUS
<1> DEFINE longer == Append(<<"UPLOADED">>, "DELETED")
<1>3. /\ longer \in Seq({"UPLOADED", "DELETED"}) /\ Len(longer) = 2
      /\ longer[1] = "UPLOADED" /\ longer[2] = "DELETED"
  BY <1>2, AppendProperties
<1>4. /\ <<"UPLOADED", "DELETED">> \in Seq({"UPLOADED", "DELETED"})
      /\ Len(<<"UPLOADED", "DELETED">>) = 2
      /\ <<"UPLOADED", "DELETED">>[1] = "UPLOADED"
      /\ <<"UPLOADED", "DELETED">>[2] = "DELETED"
  OBVIOUS
<1>5. \A i \in 1..2 : longer[i] = <<"UPLOADED", "DELETED">>[i]
  BY <1>3, <1>4
<1>6. longer = <<"UPLOADED", "DELETED">>
  <2> HIDE DEF longer
  <2> QED
    BY <1>3, <1>4, <1>5, SeqEqual
<1> QED
  BY <1>1, <1>6

\* What a step of a delete handler changes: its own stage and answer.
Past(d) == del[d].pc \in {"removed", "done"}

\* A deletion that goes on changes its own stage and nobody's target.
LEMMA DeleteMoves ==
    ASSUME TypeOK, NEW d \in Deletes, NEW pc \in {"deleting", "removed"}, DeleteGoes(d, pc)
    PROVE  /\ del' \in [Deletes -> Delete]
           /\ del'[d].pc = pc
           /\ \A e \in Deletes : del'[e].target = del[e].target
           /\ \A e \in Deletes : e # d => del'[e] = del[e]
  BY DEF TypeOK, Delete, DeleteGoes

\* A deletion that ends changes its own stage and nobody's target.
LEMMA DeleteFinishes ==
    ASSUME TypeOK, NEW d \in Deletes, NEW answer \in Answers, DeleteEnds(d, answer)
    PROVE  /\ del' \in [Deletes -> Delete]
           /\ del'[d].pc = "done"
           /\ \A e \in Deletes : del'[e].target = del[e].target
           /\ \A e \in Deletes : e # d => del'[e] = del[e]
  BY DEF TypeOK, Delete, DeleteEnds

\* A new row is typed, and so is its trail.
LEMMA InsertIsTyped ==
    ASSUME TypeOK, NEW u \in Uploads, Insert(u)
    PROVE  row' \in [Uploads -> Row] /\ trail' \in [Uploads -> Seq({"UPLOADED", "DELETED"})]
  BY DEF TypeOK, Row, Insert

\* A deletion of a row counts its version, and a fault counts itself.
LEMMA MarkDeletedIsTyped ==
    ASSUME TypeOK, NEW u \in Uploads, MarkDeleted(u)
    PROVE  /\ row' \in [Uploads -> Row] /\ row'[u].state = "deleted"
           /\ \A w \in Uploads : w # u => row'[w] = row[w]
           /\ trail' \in [Uploads -> Seq({"UPLOADED", "DELETED"})]
  BY DEF TypeOK, Row, MarkDeleted

\* A fault is counted within the bound.
LEMMA FaultIsTyped == TypeOK /\ Fault => faults' \in 0..MaxFaults /\ faults' # 0
  BY MaxFaultsAssumption DEF TypeOK, Fault

\* Every step of every handler keeps it.
LEMMA InvStep == Inv /\ [Next]_vars => Inv'
<1> SUFFICES ASSUME Inv, [Next]_vars PROVE Inv'
  OBVIOUS
<1>1. CASE PoChanges
  <2>1. TypeOK'
    BY <1>1 DEF PoChanges, Inv, TypeOK
  <2>2. TrailTellsLife' /\ RowsAreUploaded' /\ ObjectsAreStored' /\ DeletesAreOfRows' /\ DeletedIsGone' /\ NoOrphans' /\ LostOnlyByDelete'
    BY <1>1 DEF PoChanges, Inv, TrailTellsLife, RowsAreUploaded, ObjectsAreStored,
       DeletesAreOfRows, DeletedIsGone, NoOrphans, LostOnlyByDelete, Active
  <2> QED
    BY <2>1, <2>2 DEF Inv
<1>2. ASSUME NEW u \in Uploads, BeginUpload(u) PROVE Inv'
  <2>1. TypeOK'
    BY <1>2 DEF BeginUpload, UploadGoes, Inv, TypeOK, Upload
  <2>2. RowsAreUploaded'
    BY <1>2 DEF BeginUpload, UploadGoes, Inv, TypeOK, Upload, RowsAreUploaded,
       DeletesAreOfRows
  <2>3. ObjectsAreStored'
    BY <1>2 DEF BeginUpload, UploadGoes, Inv, TypeOK, Upload, ObjectsAreStored,
       RowsAreUploaded, DeletesAreOfRows
  <2>4. NoOrphans'
    BY <1>2 DEF BeginUpload, UploadGoes, Inv, TypeOK, Upload, NoOrphans, ObjectsAreStored,
       RowsAreUploaded, DeletedIsGone, DeletesAreOfRows, Active
  <2>5. LostOnlyByDelete'
    BY <1>2 DEF BeginUpload, UploadGoes, Inv, TypeOK, Upload, LostOnlyByDelete,
       ObjectsAreStored, Active
  <2>6. TrailTellsLife' /\ DeletesAreOfRows' /\ DeletedIsGone'
    BY <1>2 DEF BeginUpload, Inv, TrailTellsLife, DeletesAreOfRows, DeletedIsGone
  <2> QED
    BY <2>1, <2>2, <2>3, <2>4, <2>5, <2>6 DEF Inv
<1>3. ASSUME NEW u \in Uploads, PutObject(u) PROVE Inv'
  <2>1. TypeOK'
    BY <1>3 DEF PutObject, UploadGoes, Inv, TypeOK, Upload
  <2>2. RowsAreUploaded'
    BY <1>3 DEF PutObject, UploadGoes, Inv, TypeOK, Upload, RowsAreUploaded,
       DeletesAreOfRows
  <2>3. ObjectsAreStored'
    BY <1>3 DEF PutObject, UploadGoes, Inv, TypeOK, Upload, ObjectsAreStored,
       RowsAreUploaded, DeletesAreOfRows
  <2>4. DeletesAreOfRows'
    BY <1>3 DEF PutObject, UploadGoes, Inv, TypeOK, Upload, DeletesAreOfRows,
       RowsAreUploaded, Active
  <2>5. DeletedIsGone'
    BY <1>3 DEF PutObject, UploadGoes, Inv, TypeOK, Upload, DeletedIsGone, RowsAreUploaded,
       ObjectsAreStored, DeletesAreOfRows
  <2>6. NoOrphans'
    BY <1>3 DEF PutObject, UploadGoes, Inv, TypeOK, Upload, NoOrphans, ObjectsAreStored,
       RowsAreUploaded, DeletedIsGone, DeletesAreOfRows, Active
  <2>7. LostOnlyByDelete'
    BY <1>3 DEF PutObject, UploadGoes, Inv, TypeOK, Upload, LostOnlyByDelete,
       ObjectsAreStored, Active
  <2>8. TrailTellsLife'
    BY <1>3 DEF PutObject, Inv, TrailTellsLife
  <2> QED
    BY <2>1, <2>2, <2>3, <2>4, <2>5, <2>6, <2>7, <2>8 DEF Inv
<1>4. ASSUME NEW u \in Uploads, PutFails(u) PROVE Inv'
  <2>1. TypeOK'
    BY <1>4 DEF PutFails, UploadEnds, Answers, Inv, TypeOK, Upload
  <2>2. RowsAreUploaded'
    BY <1>4 DEF PutFails, UploadEnds, Answers, Inv, TypeOK, Upload, RowsAreUploaded,
       DeletesAreOfRows
  <2>3. ObjectsAreStored'
    BY <1>4 DEF PutFails, UploadEnds, Answers, Inv, TypeOK, Upload, ObjectsAreStored,
       RowsAreUploaded, DeletesAreOfRows
  <2>4. NoOrphans'
    BY <1>4 DEF PutFails, UploadEnds, Answers, Inv, TypeOK, Upload, NoOrphans,
       ObjectsAreStored, RowsAreUploaded, DeletedIsGone, DeletesAreOfRows, Active
  <2>5. LostOnlyByDelete'
    BY <1>4 DEF PutFails, UploadEnds, Answers, Inv, TypeOK, Upload, LostOnlyByDelete,
       ObjectsAreStored, Active
  <2>6. TrailTellsLife' /\ DeletesAreOfRows' /\ DeletedIsGone'
    BY <1>4 DEF PutFails, Inv, TrailTellsLife, DeletesAreOfRows, DeletedIsGone
  <2> QED
    BY <2>1, <2>2, <2>3, <2>4, <2>5, <2>6 DEF Inv
<1>5. ASSUME NEW u \in Uploads, PutUnacknowledged(u) PROVE Inv'
  <2>1. TypeOK'
    BY <1>5, FaultIsTyped DEF PutUnacknowledged, UploadEnds, Answers, Inv, TypeOK, Upload
  <2>2. RowsAreUploaded'
    BY <1>5, FaultIsTyped DEF PutUnacknowledged, UploadEnds, Answers, Inv, TypeOK, Upload,
       RowsAreUploaded, DeletesAreOfRows
  <2>3. ObjectsAreStored'
    BY <1>5, FaultIsTyped DEF PutUnacknowledged, UploadEnds, Answers, Inv, TypeOK, Upload,
       ObjectsAreStored, RowsAreUploaded, DeletesAreOfRows
  <2>4. DeletesAreOfRows'
    BY <1>5, FaultIsTyped DEF PutUnacknowledged, UploadEnds, Answers, Inv, TypeOK, Upload,
       DeletesAreOfRows, RowsAreUploaded, Active
  <2>5. DeletedIsGone'
    BY <1>5, FaultIsTyped DEF PutUnacknowledged, UploadEnds, Answers, Inv, TypeOK, Upload,
       DeletedIsGone, RowsAreUploaded, ObjectsAreStored, DeletesAreOfRows
  <2>6. NoOrphans'
    BY <1>5, FaultIsTyped DEF PutUnacknowledged, UploadEnds, Answers, Inv, TypeOK, Upload,
       NoOrphans, ObjectsAreStored, RowsAreUploaded, DeletedIsGone, DeletesAreOfRows, Active
  <2>7. LostOnlyByDelete'
    BY <1>5, FaultIsTyped DEF PutUnacknowledged, UploadEnds, Answers, Inv, TypeOK, Upload,
       LostOnlyByDelete, ObjectsAreStored, Active
  <2>8. TrailTellsLife'
    BY <1>5 DEF PutUnacknowledged, Inv, TrailTellsLife
  <2> QED
    BY <2>1, <2>2, <2>3, <2>4, <2>5, <2>6, <2>7, <2>8 DEF Inv
<1>6. ASSUME NEW u \in Uploads, CommitUpload(u) PROVE Inv'
  <2>1. TypeOK'
    BY <1>6, InsertIsTyped DEF CommitUpload, UploadEnds, Answers, Inv, TypeOK, Upload
  <2>2. TrailTellsLife'
    BY <1>6, TrailGrows DEF CommitUpload, UploadEnds, Answers, Insert, Inv, TypeOK, Upload,
       TrailTellsLife, Row, RowsAreUploaded, DeletesAreOfRows
  <2>3. RowsAreUploaded'
    BY <1>6 DEF CommitUpload, UploadEnds, Answers, Insert, Inv, TypeOK, Upload,
       RowsAreUploaded, DeletesAreOfRows
  <2>4. ObjectsAreStored'
    BY <1>6 DEF CommitUpload, UploadEnds, Answers, Insert, Inv, TypeOK, Upload,
       ObjectsAreStored, RowsAreUploaded, DeletesAreOfRows
  <2>5. DeletesAreOfRows'
    BY <1>6 DEF CommitUpload, UploadEnds, Answers, Insert, Inv, TypeOK, Upload,
       DeletesAreOfRows, RowsAreUploaded, Active
  <2>6. DeletedIsGone'
    BY <1>6 DEF CommitUpload, UploadEnds, Answers, Insert, Inv, TypeOK, Upload,
       DeletedIsGone, RowsAreUploaded, ObjectsAreStored, DeletesAreOfRows
  <2>7. NoOrphans'
    BY <1>6 DEF CommitUpload, UploadEnds, Answers, Insert, Inv, TypeOK, Upload, NoOrphans,
       ObjectsAreStored, RowsAreUploaded, DeletedIsGone, DeletesAreOfRows, Active
  <2>8. LostOnlyByDelete'
    BY <1>6 DEF CommitUpload, UploadEnds, Answers, Insert, Inv, TypeOK, Upload,
       LostOnlyByDelete, ObjectsAreStored, Active
  <2> QED
    BY <2>1, <2>2, <2>3, <2>4, <2>5, <2>6, <2>7, <2>8 DEF Inv
<1>7. ASSUME NEW u \in Uploads, InsertFails(u) PROVE Inv'
  <2>1. TypeOK'
    BY <1>7 DEF InsertFails, UploadGoes, Inv, TypeOK, Upload
  <2>2. RowsAreUploaded'
    BY <1>7 DEF InsertFails, UploadGoes, Inv, TypeOK, Upload, RowsAreUploaded,
       DeletesAreOfRows
  <2>3. ObjectsAreStored'
    BY <1>7 DEF InsertFails, UploadGoes, Inv, TypeOK, Upload, ObjectsAreStored,
       RowsAreUploaded, DeletesAreOfRows
  <2>4. NoOrphans'
    BY <1>7 DEF InsertFails, UploadGoes, Inv, TypeOK, Upload, NoOrphans, ObjectsAreStored,
       RowsAreUploaded, DeletedIsGone, DeletesAreOfRows, Active
  <2>5. LostOnlyByDelete'
    BY <1>7 DEF InsertFails, UploadGoes, Inv, TypeOK, Upload, LostOnlyByDelete,
       ObjectsAreStored, Active
  <2>6. TrailTellsLife' /\ DeletesAreOfRows' /\ DeletedIsGone'
    BY <1>7 DEF InsertFails, Inv, TrailTellsLife, DeletesAreOfRows, DeletedIsGone
  <2> QED
    BY <2>1, <2>2, <2>3, <2>4, <2>5, <2>6 DEF Inv
<1>8. ASSUME NEW u \in Uploads, CommitUnacknowledged(u) PROVE Inv'
  <2>1. TypeOK'
    BY <1>8, FaultIsTyped, InsertIsTyped DEF CommitUnacknowledged, UploadGoes, Inv, TypeOK,
       Upload
  <2>2. TrailTellsLife'
    BY <1>8, FaultIsTyped, TrailGrows DEF CommitUnacknowledged, UploadGoes, Insert, Inv,
       TypeOK, Upload, TrailTellsLife, Row, RowsAreUploaded, DeletesAreOfRows
  <2>3. RowsAreUploaded'
    BY <1>8, FaultIsTyped DEF CommitUnacknowledged, UploadGoes, Insert, Inv, TypeOK, Upload,
       RowsAreUploaded, DeletesAreOfRows
  <2>4. ObjectsAreStored'
    BY <1>8, FaultIsTyped DEF CommitUnacknowledged, UploadGoes, Insert, Inv, TypeOK, Upload,
       ObjectsAreStored, RowsAreUploaded, DeletesAreOfRows
  <2>5. DeletesAreOfRows'
    BY <1>8, FaultIsTyped DEF CommitUnacknowledged, UploadGoes, Insert, Inv, TypeOK, Upload,
       DeletesAreOfRows, RowsAreUploaded, Active
  <2>6. DeletedIsGone'
    BY <1>8, FaultIsTyped DEF CommitUnacknowledged, UploadGoes, Insert, Inv, TypeOK, Upload,
       DeletedIsGone, RowsAreUploaded, ObjectsAreStored, DeletesAreOfRows
  <2>7. NoOrphans'
    BY <1>8, FaultIsTyped DEF CommitUnacknowledged, UploadGoes, Insert, Inv, TypeOK, Upload,
       NoOrphans, ObjectsAreStored, RowsAreUploaded, DeletedIsGone, DeletesAreOfRows, Active
  <2>8. LostOnlyByDelete'
    BY <1>8, FaultIsTyped DEF CommitUnacknowledged, UploadGoes, Insert, Inv, TypeOK, Upload,
       LostOnlyByDelete, ObjectsAreStored, Active
  <2> QED
    BY <2>1, <2>2, <2>3, <2>4, <2>5, <2>6, <2>7, <2>8 DEF Inv
<1>9. ASSUME NEW u \in Uploads, Compensate(u) PROVE Inv'
  <2>1. TypeOK'
    BY <1>9 DEF Compensate, UploadEnds, Answers, Inv, TypeOK, Upload
  <2>2. RowsAreUploaded'
    BY <1>9 DEF Compensate, UploadEnds, Answers, Inv, TypeOK, Upload, RowsAreUploaded,
       DeletesAreOfRows
  <2>3. ObjectsAreStored'
    BY <1>9 DEF Compensate, UploadEnds, Answers, Inv, TypeOK, Upload, ObjectsAreStored,
       RowsAreUploaded, DeletesAreOfRows
  <2>4. DeletesAreOfRows'
    BY <1>9 DEF Compensate, UploadEnds, Answers, Inv, TypeOK, Upload, DeletesAreOfRows,
       RowsAreUploaded, Active
  <2>5. DeletedIsGone'
    BY <1>9 DEF Compensate, UploadEnds, Answers, Inv, TypeOK, Upload, DeletedIsGone,
       RowsAreUploaded, ObjectsAreStored, DeletesAreOfRows
  <2>6. NoOrphans'
    BY <1>9 DEF Compensate, UploadEnds, Answers, Inv, TypeOK, Upload, NoOrphans,
       ObjectsAreStored, RowsAreUploaded, DeletedIsGone, DeletesAreOfRows, Active
  <2>7. LostOnlyByDelete'
    BY <1>9 DEF Compensate, UploadEnds, Answers, Inv, TypeOK, Upload, LostOnlyByDelete,
       ObjectsAreStored, Active
  <2>8. TrailTellsLife'
    BY <1>9 DEF Compensate, Inv, TrailTellsLife
  <2> QED
    BY <2>1, <2>2, <2>3, <2>4, <2>5, <2>6, <2>7, <2>8 DEF Inv
<1>10. ASSUME NEW u \in Uploads, CompensationFails(u) PROVE Inv'
  <2>1. TypeOK'
    BY <1>10, FaultIsTyped DEF CompensationFails, UploadEnds, Answers, Inv, TypeOK, Upload
  <2>2. RowsAreUploaded'
    BY <1>10, FaultIsTyped DEF CompensationFails, UploadEnds, Answers, Inv, TypeOK, Upload,
       RowsAreUploaded, DeletesAreOfRows
  <2>3. ObjectsAreStored'
    BY <1>10, FaultIsTyped DEF CompensationFails, UploadEnds, Answers, Inv, TypeOK, Upload,
       ObjectsAreStored, RowsAreUploaded, DeletesAreOfRows
  <2>4. NoOrphans'
    BY <1>10, FaultIsTyped DEF CompensationFails, UploadEnds, Answers, Inv, TypeOK, Upload,
       NoOrphans, ObjectsAreStored, RowsAreUploaded, DeletedIsGone, DeletesAreOfRows, Active
  <2>5. LostOnlyByDelete'
    BY <1>10, FaultIsTyped DEF CompensationFails, UploadEnds, Answers, Inv, TypeOK, Upload,
       LostOnlyByDelete, ObjectsAreStored, Active
  <2>6. TrailTellsLife' /\ DeletesAreOfRows' /\ DeletedIsGone'
    BY <1>10 DEF CompensationFails, Inv, TrailTellsLife, DeletesAreOfRows, DeletedIsGone
  <2> QED
    BY <2>1, <2>2, <2>3, <2>4, <2>5, <2>6 DEF Inv
<1>11. ASSUME NEW u \in Uploads, CrashUpload(u) PROVE Inv'
  <2>1. TypeOK'
    BY <1>11, FaultIsTyped DEF CrashUpload, UploadEnds, Answers, Inv, TypeOK, Upload
  <2>2. RowsAreUploaded'
    BY <1>11, FaultIsTyped DEF CrashUpload, UploadEnds, Answers, Inv, TypeOK, Upload,
       RowsAreUploaded, DeletesAreOfRows
  <2>3. ObjectsAreStored'
    BY <1>11, FaultIsTyped DEF CrashUpload, UploadEnds, Answers, Inv, TypeOK, Upload,
       ObjectsAreStored, RowsAreUploaded, DeletesAreOfRows
  <2>4. NoOrphans'
    BY <1>11, FaultIsTyped DEF CrashUpload, UploadEnds, Answers, Inv, TypeOK, Upload,
       NoOrphans, ObjectsAreStored, RowsAreUploaded, DeletedIsGone, DeletesAreOfRows, Active
  <2>5. LostOnlyByDelete'
    BY <1>11, FaultIsTyped DEF CrashUpload, UploadEnds, Answers, Inv, TypeOK, Upload,
       LostOnlyByDelete, ObjectsAreStored, Active
  <2>6. TrailTellsLife' /\ DeletesAreOfRows' /\ DeletedIsGone'
    BY <1>11 DEF CrashUpload, Inv, TrailTellsLife, DeletesAreOfRows, DeletedIsGone
  <2> QED
    BY <2>1, <2>2, <2>3, <2>4, <2>5, <2>6 DEF Inv
<1>12. ASSUME NEW d \in Deletes, BeginDelete(d) PROVE Inv'
  <2>1. /\ del' \in [Deletes -> Delete]
        /\ del'[d].pc = "deleting"
        /\ \A e \in Deletes : del'[e].target = del[e].target
        /\ \A e \in Deletes : e # d => del'[e] = del[e]
    BY <1>12, DeleteMoves DEF BeginDelete, Inv, Answers
  <2>2. \A e \in Deletes : del[e].target \in Uploads
    BY DEF Inv, TypeOK, Delete
  <2>3. \A e \in Deletes : Past(e) => Past(e)'
    BY <1>12, <2>1 DEF BeginDelete, Past
  <2>4. TypeOK'
    BY <1>12, <2>1, <2>2 DEF BeginDelete, Inv, TypeOK
  <2>5. DeletesAreOfRows'
    BY <1>12, <2>1, <2>2 DEF BeginDelete, Inv, TypeOK, DeletesAreOfRows, RowsAreUploaded,
       Active
  <2>6. LostOnlyByDelete'
    BY <1>12, <2>1, <2>2, <2>3, ZenonT(30) DEF BeginDelete, Inv, TypeOK, LostOnlyByDelete,
       ObjectsAreStored, Active, Past
  <2>7. TrailTellsLife' /\ RowsAreUploaded' /\ ObjectsAreStored' /\ DeletedIsGone' /\ NoOrphans'
    BY <1>12 DEF BeginDelete, Inv, TrailTellsLife, RowsAreUploaded, ObjectsAreStored,
       DeletedIsGone, NoOrphans, Active
  <2> QED
    BY <2>4, <2>5, <2>6, <2>7 DEF Inv
<1>13. ASSUME NEW d \in Deletes, DeleteObject(d) PROVE Inv'
  <2>1. /\ del' \in [Deletes -> Delete]
        /\ del'[d].pc = "removed"
        /\ \A e \in Deletes : del'[e].target = del[e].target
        /\ \A e \in Deletes : e # d => del'[e] = del[e]
    BY <1>13, DeleteMoves DEF DeleteObject, Inv, Answers
  <2>2. \A e \in Deletes : del[e].target \in Uploads
    BY DEF Inv, TypeOK, Delete
  <2>3. \A e \in Deletes : Past(e) => Past(e)'
    BY <1>13, <2>1 DEF DeleteObject, Past
  <2>4. TypeOK'
    BY <1>13, <2>1, <2>2 DEF DeleteObject, Inv, TypeOK
  <2>5. ObjectsAreStored'
    BY <1>13, <2>1, <2>2 DEF DeleteObject, Inv, TypeOK, ObjectsAreStored, RowsAreUploaded,
       DeletesAreOfRows
  <2>6. DeletesAreOfRows'
    BY <1>13, <2>1, <2>2 DEF DeleteObject, Inv, TypeOK, DeletesAreOfRows, RowsAreUploaded,
       Active
  <2>7. DeletedIsGone'
    BY <1>13, <2>1, <2>2 DEF DeleteObject, Inv, TypeOK, DeletedIsGone, RowsAreUploaded,
       ObjectsAreStored, DeletesAreOfRows
  <2>8. NoOrphans'
    BY <1>13, <2>1, <2>2 DEF DeleteObject, Inv, TypeOK, NoOrphans, ObjectsAreStored,
       RowsAreUploaded, DeletedIsGone, DeletesAreOfRows, Active
  <2>9. LostOnlyByDelete'
    BY <1>13, <2>1, <2>2, <2>3, ZenonT(30) DEF DeleteObject, Inv, TypeOK, LostOnlyByDelete,
       ObjectsAreStored, Active, Past
  <2>10. TrailTellsLife' /\ RowsAreUploaded'
    BY <1>13 DEF DeleteObject, Inv, TrailTellsLife, RowsAreUploaded
  <2> QED
    BY <2>4, <2>5, <2>6, <2>7, <2>8, <2>9, <2>10 DEF Inv
<1>14. ASSUME NEW d \in Deletes, DeleteObjectFails(d) PROVE Inv'
  <2>1. /\ del' \in [Deletes -> Delete]
        /\ del'[d].pc = "done"
        /\ \A e \in Deletes : del'[e].target = del[e].target
        /\ \A e \in Deletes : e # d => del'[e] = del[e]
    BY <1>14, DeleteFinishes DEF DeleteObjectFails, Inv, Answers
  <2>2. \A e \in Deletes : del[e].target \in Uploads
    BY DEF Inv, TypeOK, Delete
  <2>3. \A e \in Deletes : Past(e) => Past(e)'
    BY <1>14, <2>1 DEF DeleteObjectFails, Past
  <2>4. TypeOK'
    BY <1>14, <2>1, <2>2, FaultIsTyped DEF DeleteObjectFails, Inv, TypeOK
  <2>5. ObjectsAreStored'
    BY <1>14, <2>1, <2>2, FaultIsTyped DEF DeleteObjectFails, Inv, TypeOK, ObjectsAreStored,
       RowsAreUploaded, DeletesAreOfRows
  <2>6. DeletesAreOfRows'
    BY <1>14, <2>1, <2>2, FaultIsTyped DEF DeleteObjectFails, Inv, TypeOK, DeletesAreOfRows,
       RowsAreUploaded, Active
  <2>7. DeletedIsGone'
    BY <1>14, <2>1, <2>2, FaultIsTyped DEF DeleteObjectFails, Inv, TypeOK, DeletedIsGone,
       RowsAreUploaded, ObjectsAreStored, DeletesAreOfRows
  <2>8. NoOrphans'
    BY <1>14, <2>1, <2>2, FaultIsTyped DEF DeleteObjectFails, Inv, TypeOK, NoOrphans,
       ObjectsAreStored, RowsAreUploaded, DeletedIsGone, DeletesAreOfRows, Active
  <2>9. LostOnlyByDelete'
    BY <1>14, <2>1, <2>2, FaultIsTyped, <2>3, ZenonT(30) DEF DeleteObjectFails, Inv, TypeOK,
       LostOnlyByDelete, ObjectsAreStored, Active, Past
  <2>10. TrailTellsLife' /\ RowsAreUploaded'
    BY <1>14 DEF DeleteObjectFails, Inv, TrailTellsLife, RowsAreUploaded
  <2> QED
    BY <2>4, <2>5, <2>6, <2>7, <2>8, <2>9, <2>10 DEF Inv
<1>15. ASSUME NEW d \in Deletes, SoftDelete(d) PROVE Inv'
  <2>1. /\ del' \in [Deletes -> Delete]
        /\ del'[d].pc = "done"
        /\ \A e \in Deletes : del'[e].target = del[e].target
        /\ \A e \in Deletes : e # d => del'[e] = del[e]
    BY <1>15, DeleteFinishes DEF SoftDelete, Inv, Answers
  <2>2. \A e \in Deletes : del[e].target \in Uploads
    BY DEF Inv, TypeOK, Delete
  <2>3. \A e \in Deletes : Past(e) => Past(e)'
    BY <1>15, <2>1 DEF SoftDelete, Past
  <2>4. /\ row' \in [Uploads -> Row] /\ row'[del[d].target].state = "deleted"
        /\ \A w \in Uploads : w # del[d].target => row'[w] = row[w]
        /\ trail' \in [Uploads -> Seq({"UPLOADED", "DELETED"})]
    BY <1>15, <2>2, MarkDeletedIsTyped DEF SoftDelete, Inv
  <2>5. TypeOK'
    BY <1>15, <2>1, <2>2, <2>4 DEF SoftDelete, Inv, TypeOK
  <2>6. TrailTellsLife'
    BY <1>15, <2>2, <2>4, TrailGrows
       DEF SoftDelete, MarkDeleted, Matches, Active, Inv, TypeOK, TrailTellsLife
  <2>7. RowsAreUploaded'
    BY <1>15, <2>1, <2>2, <2>4 DEF SoftDelete, Inv, TypeOK, RowsAreUploaded,
       DeletesAreOfRows
  <2>8. DeletesAreOfRows'
    BY <1>15, <2>1, <2>2, <2>4, ZenonT(30) DEF SoftDelete, Inv, TypeOK, DeletesAreOfRows,
       RowsAreUploaded, Active
  <2>9. DeletedIsGone'
    BY <1>15, <2>1, <2>2, <2>4 DEF SoftDelete, Inv, TypeOK, DeletedIsGone, RowsAreUploaded,
       ObjectsAreStored, DeletesAreOfRows
  <2>10. NoOrphans'
    BY <1>15, <2>1, <2>2, <2>4 DEF SoftDelete, Inv, TypeOK, NoOrphans, ObjectsAreStored,
       RowsAreUploaded, DeletedIsGone, DeletesAreOfRows, Active
  <2>11. LostOnlyByDelete'
    <3> SUFFICES ASSUME NEW u \in Uploads, up'[u].answer = "ok", row'[u].state = "active",
                        u \notin objects'
                 PROVE  \E e \in Deletes : del'[e].target = u /\ Past(e)'
      BY DEF LostOnlyByDelete, Active, Past
    <3>1. row[u].state = "active"
      BY <2>2, <2>4
    <3>2. PICK e \in Deletes : del[e].target = u /\ Past(e)
      BY <1>15, <3>1 DEF SoftDelete, Inv, LostOnlyByDelete, Active, Past
    <3> QED
      BY <2>1, <2>3, <3>2
  <2>12. ObjectsAreStored'
    BY <1>15 DEF SoftDelete, Inv, ObjectsAreStored
  <2> QED
    BY <2>5, <2>6, <2>7, <2>8, <2>9, <2>10, <2>11, <2>12 DEF Inv
<1>16. ASSUME NEW d \in Deletes, SoftDeleteUnacknowledged(d) PROVE Inv'
  <2>1. /\ del' \in [Deletes -> Delete]
        /\ del'[d].pc = "done"
        /\ \A e \in Deletes : del'[e].target = del[e].target
        /\ \A e \in Deletes : e # d => del'[e] = del[e]
    BY <1>16, DeleteFinishes DEF SoftDeleteUnacknowledged, Inv, Answers
  <2>2. \A e \in Deletes : del[e].target \in Uploads
    BY DEF Inv, TypeOK, Delete
  <2>3. \A e \in Deletes : Past(e) => Past(e)'
    BY <1>16, <2>1 DEF SoftDeleteUnacknowledged, Past
  <2>4. /\ row' \in [Uploads -> Row] /\ row'[del[d].target].state = "deleted"
        /\ \A w \in Uploads : w # del[d].target => row'[w] = row[w]
        /\ trail' \in [Uploads -> Seq({"UPLOADED", "DELETED"})]
    BY <1>16, <2>2, MarkDeletedIsTyped DEF SoftDeleteUnacknowledged, Inv
  <2>5. TypeOK'
    BY <1>16, <2>1, <2>2, <2>4, FaultIsTyped DEF SoftDeleteUnacknowledged, Inv, TypeOK
  <2>6. TrailTellsLife'
    BY <1>16, <2>2, <2>4, TrailGrows
       DEF SoftDeleteUnacknowledged, MarkDeleted, Matches, Active, Inv, TypeOK, TrailTellsLife
  <2>7. RowsAreUploaded'
    BY <1>16, <2>1, <2>2, <2>4, FaultIsTyped DEF SoftDeleteUnacknowledged, Inv, TypeOK,
       RowsAreUploaded, DeletesAreOfRows
  <2>8. DeletesAreOfRows'
    BY <1>16, <2>1, <2>2, <2>4, FaultIsTyped, ZenonT(30) DEF SoftDeleteUnacknowledged, Inv, TypeOK,
       DeletesAreOfRows, RowsAreUploaded, Active
  <2>9. DeletedIsGone'
    BY <1>16, <2>1, <2>2, <2>4, FaultIsTyped DEF SoftDeleteUnacknowledged, Inv, TypeOK,
       DeletedIsGone, RowsAreUploaded, ObjectsAreStored, DeletesAreOfRows
  <2>10. NoOrphans'
    BY <1>16, <2>1, <2>2, <2>4, FaultIsTyped DEF SoftDeleteUnacknowledged, Inv, TypeOK,
       NoOrphans, ObjectsAreStored, RowsAreUploaded, DeletedIsGone, DeletesAreOfRows, Active
  <2>11. LostOnlyByDelete'
    <3> SUFFICES ASSUME NEW u \in Uploads, up'[u].answer = "ok", row'[u].state = "active",
                        u \notin objects'
                 PROVE  \E e \in Deletes : del'[e].target = u /\ Past(e)'
      BY DEF LostOnlyByDelete, Active, Past
    <3>1. row[u].state = "active"
      BY <2>2, <2>4
    <3>2. PICK e \in Deletes : del[e].target = u /\ Past(e)
      BY <1>16, <3>1 DEF SoftDeleteUnacknowledged, Inv, LostOnlyByDelete, Active, Past
    <3> QED
      BY <2>1, <2>3, <3>2
  <2>12. ObjectsAreStored'
    BY <1>16 DEF SoftDeleteUnacknowledged, Inv, ObjectsAreStored
  <2> QED
    BY <2>5, <2>6, <2>7, <2>8, <2>9, <2>10, <2>11, <2>12 DEF Inv
<1>17. ASSUME NEW d \in Deletes, SoftDeleteRefused(d) PROVE Inv'
  <2>1. /\ del' \in [Deletes -> Delete]
        /\ del'[d].pc = "done"
        /\ \A e \in Deletes : del'[e].target = del[e].target
        /\ \A e \in Deletes : e # d => del'[e] = del[e]
    BY <1>17, DeleteFinishes DEF SoftDeleteRefused, Inv, Answers
  <2>2. \A e \in Deletes : del[e].target \in Uploads
    BY DEF Inv, TypeOK, Delete
  <2>3. \A e \in Deletes : Past(e) => Past(e)'
    BY <1>17, <2>1 DEF SoftDeleteRefused, Past
  <2>4. TypeOK'
    BY <1>17, <2>1, <2>2 DEF SoftDeleteRefused, Inv, TypeOK
  <2>5. DeletesAreOfRows'
    BY <1>17, <2>1, <2>2 DEF SoftDeleteRefused, Inv, TypeOK, DeletesAreOfRows,
       RowsAreUploaded, Active
  <2>6. LostOnlyByDelete'
    BY <1>17, <2>1, <2>2, <2>3 DEF SoftDeleteRefused, Inv, TypeOK, LostOnlyByDelete,
       ObjectsAreStored, Active, Past
  <2>7. TrailTellsLife' /\ RowsAreUploaded' /\ ObjectsAreStored' /\ DeletedIsGone' /\ NoOrphans'
    BY <1>17 DEF SoftDeleteRefused, Inv, TrailTellsLife, RowsAreUploaded, ObjectsAreStored,
       DeletedIsGone, NoOrphans, Active
  <2> QED
    BY <2>4, <2>5, <2>6, <2>7 DEF Inv
<1>18. ASSUME NEW d \in Deletes, SoftDeleteFails(d) PROVE Inv'
  <2>1. /\ del' \in [Deletes -> Delete]
        /\ del'[d].pc = "done"
        /\ \A e \in Deletes : del'[e].target = del[e].target
        /\ \A e \in Deletes : e # d => del'[e] = del[e]
    BY <1>18, DeleteFinishes DEF SoftDeleteFails, Inv, Answers
  <2>2. \A e \in Deletes : del[e].target \in Uploads
    BY DEF Inv, TypeOK, Delete
  <2>3. \A e \in Deletes : Past(e) => Past(e)'
    BY <1>18, <2>1 DEF SoftDeleteFails, Past
  <2>4. TypeOK'
    BY <1>18, <2>1, <2>2, FaultIsTyped DEF SoftDeleteFails, Inv, TypeOK
  <2>5. DeletesAreOfRows'
    BY <1>18, <2>1, <2>2, FaultIsTyped DEF SoftDeleteFails, Inv, TypeOK, DeletesAreOfRows,
       RowsAreUploaded, Active
  <2>6. NoOrphans'
    BY <1>18, <2>1, <2>2, FaultIsTyped DEF SoftDeleteFails, Inv, TypeOK, NoOrphans,
       ObjectsAreStored, RowsAreUploaded, DeletedIsGone, DeletesAreOfRows, Active
  <2>7. LostOnlyByDelete'
    BY <1>18, <2>1, <2>2, FaultIsTyped, <2>3, ZenonT(30) DEF SoftDeleteFails, Inv, TypeOK,
       LostOnlyByDelete, ObjectsAreStored, Active, Past
  <2>8. TrailTellsLife' /\ RowsAreUploaded' /\ ObjectsAreStored' /\ DeletedIsGone'
    BY <1>18 DEF SoftDeleteFails, Inv, TrailTellsLife, RowsAreUploaded, ObjectsAreStored,
       DeletedIsGone
  <2> QED
    BY <2>4, <2>5, <2>6, <2>7, <2>8 DEF Inv
<1>19. ASSUME NEW d \in Deletes, CrashDelete(d) PROVE Inv'
  <2>1. /\ del' \in [Deletes -> Delete]
        /\ del'[d].pc = "done"
        /\ \A e \in Deletes : del'[e].target = del[e].target
        /\ \A e \in Deletes : e # d => del'[e] = del[e]
    BY <1>19, DeleteFinishes DEF CrashDelete, Inv, Answers
  <2>2. \A e \in Deletes : del[e].target \in Uploads
    BY DEF Inv, TypeOK, Delete
  <2>3. \A e \in Deletes : Past(e) => Past(e)'
    BY <1>19, <2>1 DEF CrashDelete, Past
  <2>4. TypeOK'
    BY <1>19, <2>1, <2>2, FaultIsTyped DEF CrashDelete, Inv, TypeOK
  <2>5. DeletesAreOfRows'
    BY <1>19, <2>1, <2>2, FaultIsTyped DEF CrashDelete, Inv, TypeOK, DeletesAreOfRows,
       RowsAreUploaded, Active
  <2>6. NoOrphans'
    BY <1>19, <2>1, <2>2, FaultIsTyped DEF CrashDelete, Inv, TypeOK, NoOrphans,
       ObjectsAreStored, RowsAreUploaded, DeletedIsGone, DeletesAreOfRows, Active
  <2>7. LostOnlyByDelete'
    BY <1>19, <2>1, <2>2, FaultIsTyped, <2>3, ZenonT(30) DEF CrashDelete, Inv, TypeOK, LostOnlyByDelete,
       ObjectsAreStored, Active, Past
  <2>8. TrailTellsLife' /\ RowsAreUploaded' /\ ObjectsAreStored' /\ DeletedIsGone'
    BY <1>19 DEF CrashDelete, Inv, TrailTellsLife, RowsAreUploaded, ObjectsAreStored,
       DeletedIsGone
  <2> QED
    BY <2>4, <2>5, <2>6, <2>7, <2>8 DEF Inv
<1>20. CASE UNCHANGED vars
  BY <1>20 DEF vars, Inv, TypeOK, TrailTellsLife, RowsAreUploaded, ObjectsAreStored,
     DeletesAreOfRows, DeletedIsGone, NoOrphans, LostOnlyByDelete, Active
<1> QED
  BY <1>1, <1>2, <1>3, <1>4, <1>5, <1>6, <1>7, <1>8, <1>9, <1>10, <1>11, <1>12,
     <1>13, <1>14, <1>15, <1>16, <1>17, <1>18, <1>19, <1>20 DEF Next

\* It holds in every state.
LEMMA InvAlways == Spec => []Inv
  BY InvInit, InvStep, PTL DEF Spec

\* Rows, objects, traces and handlers are what their tables and stages let them be.
THEOREM AttachmentsTypeCorrect == Spec => []TypeOK
<1>1. Inv => TypeOK
  BY DEF Inv
<1> QED
  BY <1>1, InvAlways, PTL

\* However many deletions overlap, the trail of an attachment is an upload and then one
\* deletion at most, and it agrees with the row.
THEOREM TrailIsFaithful == Spec => []TrailTellsLife
<1>1. Inv => TrailTellsLife
  BY DEF Inv
<1> QED
  BY <1>1, InvAlways, PTL

\* No object outlives the deletion of its attachment, whatever faults.
THEOREM DeletedFilesAreGone == Spec => []DeletedIsGone
<1>1. Inv => DeletedIsGone
  BY DEF Inv
<1> QED
  BY <1>1, InvAlways, PTL

\* As long as nothing faults that upload does not compensate, no object is orphaned.
THEOREM NoOrphanWithoutFault == Spec => []NoOrphans
<1>1. Inv => NoOrphans
  BY DEF Inv
<1> QED
  BY <1>1, InvAlways, PTL

\* Only its own deletion takes the file of an acknowledged upload away.
THEOREM AcknowledgedFilesStay == Spec => []LostOnlyByDelete
<1>1. Inv => LostOnlyByDelete
  BY DEF Inv
<1> QED
  BY <1>1, InvAlways, PTL

=============================================================================

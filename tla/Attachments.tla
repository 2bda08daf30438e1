---------------------------- MODULE Attachments -----------------------------
(***************************************************************************)
(* Attachments of a Customer PO (app/modules/attachments): a row in the    *)
(* database and an object in S3, that no transaction joins.  An upload     *)
(* puts the object and then commits the row, and takes the object away     *)
(* again if the commit fails; a deletion removes the object and then       *)
(* commits the deletion of the row.  The database part of each is one      *)
(* transaction whose first statement takes the lock it needs, so it is one *)
(* step here: row, timeline event and audit event together.                *)
(***************************************************************************)
EXTENDS Sequences, Integers

CONSTANTS
    Uploads,       \* upload requests; one also names its attachment and object key
    Deletes,       \* delete requests
    Versions,      \* values of expected_version that clients send
    MaxFaults      \* bound: crashes, lost acknowledgements, failures of the storage or
                   \* the database that upload does not compensate

ASSUME VersionsAssumption == Versions \subseteq Nat \ {0}
ASSUME MaxFaultsAssumption == MaxFaults \in Nat

VARIABLES
    row,           \* the attachments row of each upload
    objects,       \* objects in the bucket
    trail,         \* committed timeline and audit events of each attachment
    writable,      \* the PO is visible to the actors, and they may update it
    up,            \* the upload handlers
    del,           \* the delete handlers
    faults         \* faults so far

vars == <<row, objects, trail, writable, up, del, faults>>

-----------------------------------------------------------------------------
\* Data.

Row == [state : {"absent", "active", "deleted"}, version : Nat]
NoRow == [state |-> "absent", version |-> 0]

Active(u) == row[u].state = "active"

Answers == {"none", "ok", "failed", "refused", "lost"}

Upload == [pc : {"new", "storing", "stored", "compensating", "done"}, answer : Answers]

Delete == [pc : {"new", "deleting", "removed", "done"}, target : Uploads,
           expected : Versions, answer : Answers]

Init ==
    /\ row = [u \in Uploads |-> NoRow]
    /\ objects = {}
    /\ trail = [u \in Uploads |-> <<>>]
    /\ writable = TRUE
    /\ up = [u \in Uploads |-> [pc |-> "new", answer |-> "none"]]
    /\ del \in [Deletes -> [pc : {"new"}, target : Uploads, expected : Versions,
                            answer : {"none"}]]
    /\ faults = 0

Fault == faults < MaxFaults /\ faults' = faults + 1

UploadGoes(u, pc) == up' = [up EXCEPT ![u].pc = pc]
UploadEnds(u, answer) == up' = [up EXCEPT ![u] = [pc |-> "done", answer |-> answer]]
DeleteGoes(d, pc) == del' = [del EXCEPT ![d].pc = pc]
DeleteEnds(d, answer) == del' = [del EXCEPT ![d].pc = "done", ![d].answer = answer]

-----------------------------------------------------------------------------
\* The PO is deleted, restored, or assigned to another owner by others.

PoChanges == writable' = ~writable /\ UNCHANGED <<row, objects, trail, up, del, faults>>

-----------------------------------------------------------------------------
\* upload.

\* require_write and _validate.
BeginUpload(u) ==
    /\ up[u].pc = "new"
    /\ writable
    /\ UploadGoes(u, "storing")
    /\ UNCHANGED <<row, objects, trail, writable, del, faults>>

\* Mutant: the handler does not wait for the storage.
PutLater(u) ==
    /\ up[u].pc = "storing"
    /\ UploadGoes(u, "stored")
    /\ UNCHANGED <<row, objects, trail, writable, del, faults>>

PutObject(u) ==
    /\ up[u].pc = "storing"
    /\ objects' = objects \cup {u}
    /\ UploadGoes(u, "stored")
    /\ UNCHANGED <<row, trail, writable, del, faults>>

\* The storage refuses the object: ExternalServiceFailure.
PutFails(u) ==
    /\ up[u].pc = "storing"
    /\ UploadEnds(u, "failed")
    /\ UNCHANGED <<row, objects, trail, writable, del, faults>>

\* The storage has the object, but its answer is lost: the same branch, which does not
\* compensate.
PutUnacknowledged(u) ==
    /\ up[u].pc = "storing"
    /\ Fault
    /\ objects' = objects \cup {u}
    /\ UploadEnds(u, "failed")
    /\ UNCHANGED <<row, trail, writable, del>>

Insert(u) ==
    /\ row' = [row EXCEPT ![u] = [state |-> "active", version |-> 1]]
    /\ trail' = [trail EXCEPT ![u] = Append(@, "UPLOADED")]

CommitUpload(u) ==
    /\ up[u].pc = "stored"
    /\ Insert(u)
    /\ UploadEnds(u, "ok")
    /\ UNCHANGED <<objects, writable, del, faults>>

\* Any statement, or the commit, fails: rolled back.
InsertFails(u) ==
    /\ up[u].pc = "stored"
    /\ UploadGoes(u, "compensating")
    /\ UNCHANGED <<row, objects, trail, writable, del, faults>>

\* The commit succeeds and its acknowledgement is lost: the handler takes it for a failure.
CommitUnacknowledged(u) ==
    /\ up[u].pc = "stored"
    /\ Fault
    /\ Insert(u)
    /\ UploadGoes(u, "compensating")
    /\ UNCHANGED <<objects, writable, del>>

\* Mutant: the failed upload leaves its object.
CompensateNothing(u) ==
    /\ up[u].pc = "compensating"
    /\ UploadEnds(u, "failed")
    /\ UNCHANGED <<row, objects, trail, writable, del, faults>>

Compensate(u) ==
    /\ up[u].pc = "compensating"
    /\ objects' = objects \ {u}
    /\ UploadEnds(u, "failed")
    /\ UNCHANGED <<row, trail, writable, del, faults>>

\* The compensation fails as well: it is logged, and that is all.
CompensationFails(u) ==
    /\ up[u].pc = "compensating"
    /\ Fault
    /\ UploadEnds(u, "failed")
    /\ UNCHANGED <<row, objects, trail, writable, del>>

CrashUpload(u) ==
    /\ up[u].pc \in {"storing", "stored", "compensating"}
    /\ Fault
    /\ UploadEnds(u, "lost")
    /\ UNCHANGED <<row, objects, trail, writable, del>>

-----------------------------------------------------------------------------
\* delete.

\* _get and require_write: a row that is not deleted, of a PO that may be updated.  A
\* request that is refused here, as one that BeginUpload refuses, changes nothing.
BeginDelete(d) ==
    /\ del[d].pc = "new"
    /\ Active(del[d].target)
    /\ writable
    /\ DeleteGoes(d, "deleting")
    /\ UNCHANGED <<row, objects, trail, writable, up, faults>>

\* Mutant: the object is left in the bucket.
DeleteNoObject(d) ==
    /\ del[d].pc = "deleting"
    /\ DeleteGoes(d, "removed")
    /\ UNCHANGED <<row, objects, trail, writable, up, faults>>

\* S3 removes an object that is not there without complaint.
DeleteObject(d) ==
    /\ del[d].pc = "deleting"
    /\ objects' = objects \ {del[d].target}
    /\ DeleteGoes(d, "removed")
    /\ UNCHANGED <<row, trail, writable, up, faults>>

\* ExternalServiceFailure; the object may be gone all the same.
DeleteObjectFails(d) ==
    /\ del[d].pc = "deleting"
    /\ Fault
    /\ objects' \in {objects, objects \ {del[d].target}}
    /\ DeleteEnds(d, "failed")
    /\ UNCHANGED <<row, trail, writable, up>>

MarkDeleted(u) ==
    /\ row' = [row EXCEPT ![u] = [state |-> "deleted", version |-> @.version + 1]]
    /\ trail' = [trail EXCEPT ![u] = Append(@, "DELETED")]

\* Mutant: the statement does not ask whether the row is deleted already, nor its version.
SoftDeleteAnyway(d) ==
    /\ del[d].pc = "removed"
    /\ MarkDeleted(del[d].target)
    /\ DeleteEnds(d, "ok")
    /\ UNCHANGED <<objects, writable, up, faults>>

Matches(d) == Active(del[d].target) /\ row[del[d].target].version = del[d].expected

\* repository.soft_delete, deleted event, audit event, commit.
SoftDelete(d) ==
    /\ del[d].pc = "removed"
    /\ Matches(d)
    /\ MarkDeleted(del[d].target)
    /\ DeleteEnds(d, "ok")
    /\ UNCHANGED <<objects, writable, up, faults>>

\* The commit succeeds and its acknowledgement is lost.
SoftDeleteUnacknowledged(d) ==
    /\ del[d].pc = "removed"
    /\ Matches(d)
    /\ Fault
    /\ MarkDeleted(del[d].target)
    /\ DeleteEnds(d, "failed")
    /\ UNCHANGED <<objects, writable, up>>

\* EntityNotFound("Attachment not found or version changed"), after the object has gone.
SoftDeleteRefused(d) ==
    /\ del[d].pc = "removed"
    /\ ~Matches(d)
    /\ DeleteEnds(d, "refused")
    /\ UNCHANGED <<row, objects, trail, writable, up, faults>>

\* Any statement, or the commit, fails; nothing puts the object back.
SoftDeleteFails(d) ==
    /\ del[d].pc = "removed"
    /\ Fault
    /\ DeleteEnds(d, "failed")
    /\ UNCHANGED <<row, objects, trail, writable, up>>

CrashDelete(d) ==
    /\ del[d].pc \in {"deleting", "removed"}
    /\ Fault
    /\ DeleteEnds(d, "lost")
    /\ UNCHANGED <<row, objects, trail, writable, up>>

-----------------------------------------------------------------------------

Next ==
    \/ PoChanges
    \/ \E u \in Uploads :
          \/ BeginUpload(u)
          \/ PutObject(u)
          \/ PutFails(u)
          \/ PutUnacknowledged(u)
          \/ CommitUpload(u)
          \/ InsertFails(u)
          \/ CommitUnacknowledged(u)
          \/ Compensate(u)
          \/ CompensationFails(u)
          \/ CrashUpload(u)
    \/ \E d \in Deletes :
          \/ BeginDelete(d)
          \/ DeleteObject(d)
          \/ DeleteObjectFails(d)
          \/ SoftDelete(d)
          \/ SoftDeleteUnacknowledged(d)
          \/ SoftDeleteRefused(d)
          \/ SoftDeleteFails(d)
          \/ CrashDelete(d)

Spec == Init /\ [][Next]_vars

-----------------------------------------------------------------------------
\* Properties.

\* Every variable holds what its table, the bucket or the handler lets it hold.
TypeOK ==
    /\ row \in [Uploads -> Row]
    /\ objects \subseteq Uploads
    /\ trail \in [Uploads -> Seq({"UPLOADED", "DELETED"})]
    /\ writable \in BOOLEAN
    /\ up \in [Uploads -> Upload]
    /\ del \in [Deletes -> Delete]
    /\ faults \in 0..MaxFaults

\* An attachment is deleted once at most, by whichever deletions overlap, and the trail
\* of the PO tells its life: an upload, then perhaps one deletion.
TrailTellsLife ==
    \A u \in Uploads :
        /\ row[u].state = "absent" => trail[u] = <<>>
        /\ row[u].state = "active" => trail[u] = <<"UPLOADED">>
        /\ row[u].state = "deleted" => trail[u] = <<"UPLOADED", "DELETED">>

\* The file of a deleted attachment is gone from the bucket, whatever failed on the way
\* and whatever else was uploading or deleting at the time.
DeletedIsGone == \A u \in Uploads : row[u].state = "deleted" => u \notin objects

\* An upload that is over leaves no object without a row, unless something faulted that
\* upload does not compensate (test_database_failure_attempts_s3_compensation).
NoOrphans ==
    faults = 0 => \A u \in objects : up[u].pc = "done" => Active(u)

\* An attachment whose upload was acknowledged can be downloaded: whatever faults, only a
\* deletion of that very attachment takes its object away.
LostOnlyByDelete ==
    \A u \in Uploads : up[u].answer = "ok" /\ Active(u) /\ u \notin objects =>
        \E d \in Deletes : del[d].target = u /\ del[d].pc \in {"removed", "done"}

\* README.md section 11: a deletion whose expected version matches no row is a conflict,
\* and changes nothing; the attachment it was refused for still has its file.
RefusedDeleteKeepsFile ==
    \A d \in Deletes :
        del[d].answer = "refused" /\ Active(del[d].target) => del[d].target \in objects

=============================================================================

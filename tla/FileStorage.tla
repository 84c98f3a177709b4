---------------------------- MODULE FileStorage ----------------------------
(***************************************************************************)
(* FileStorageService of file_storage_service: a row of stored_files per   *)
(* file, and an object in the bucket that clients put there themselves     *)
(* through a URL the service has signed.  The log calls use keywords a     *)
(* standard logger refuses: enabled, they raise (LogLevels).               *)
(***************************************************************************)
EXTENDS LogLevels, FiniteSets

CONSTANTS Files,
          Deletions,   \* calls of delete_file
          Levels,      \* levels the host may set the logger to
          None

VARIABLES stored,     \* stored_files
          object,     \* objects in the bucket
          url,        \* per file: None, or its upload URL is "valid" or "expired"
          deletion,   \* per call of delete_file: where it is and its file
          level,      \* the logger's level; it never changes
          late,       \* history: files put into the bucket after their deletion
          uncleared   \* history: files whose row went though their object did not

storageVars == <<stored, object, url, deletion, level, late, uncleared>>

Init ==
  /\ stored = {}
  /\ object = {}
  /\ url = [f \in Files |-> None]
  /\ deletion = [d \in Deletions |-> [pc |-> "new", file |-> None]]
  /\ level \in Levels
  /\ late = {}
  /\ uncleared = {}

\* get_upload_url: the row is committed, then the URL is signed, which may
\* fail, and logged, which may raise: a row whose file nobody can upload.
GetUploadUrl(f) ==
  /\ url[f] = None
  /\ f \notin stored
  /\ stored' = stored \cup {f}
  /\ \E outcome \in {"valid", "expired"} :
       /\ Raises(level, "INFO") => outcome = "expired"
       /\ url' = [url EXCEPT ![f] = outcome]
  /\ UNCHANGED <<object, deletion, level, late, uncleared>>

\* Some call has dealt with the object and is about to delete the row.
Clearing(f) == \E d \in Deletions : deletion[d] = [pc |-> "row", file |-> f]

\* The client uploads, as long as the URL is valid: the service is not asked.
Upload(f) ==
  /\ url[f] = "valid"
  /\ object' = object \cup {f}
  /\ late' = IF f \in stored /\ ~Clearing(f) THEN late ELSE late \cup {f}
  /\ UNCHANGED <<stored, url, deletion, level, uncleared>>

UrlExpires(f) ==
  /\ url[f] = "valid"
  /\ url' = [url EXCEPT ![f] = "expired"]
  /\ UNCHANGED <<stored, object, deletion, level, late, uncleared>>

Goto(d, pc) == deletion' = [deletion EXCEPT ![d].pc = pc]

\* Slip: the row goes before the object.
DeleteRowFirst(d, f) ==
  /\ deletion[d].pc = "new"
  /\ deletion' = [deletion EXCEPT ![d] =
                    [pc |-> IF f \in stored THEN "cloud" ELSE "done", file |-> f]]
  /\ stored' = stored \ {f}
  /\ UNCHANGED <<object, url, level, late, uncleared>>

\* delete_file of a file that has a row; without one it returns at once.
Delete(d, f) ==
  /\ deletion[d].pc = "new"
  /\ deletion' = [deletion EXCEPT ![d] =
                    [pc |-> IF f \in stored THEN "cloud" ELSE "done", file |-> f]]
  /\ UNCHANGED <<stored, object, url, level, late, uncleared>>

CloudDelete(d) ==
  LET f == deletion[d].file IN
  /\ deletion[d].pc = "cloud"
  /\ object' = object \ {f}
  /\ Goto(d, "row")
  /\ UNCHANGED <<stored, url, level, late, uncleared>>

\* The call to the bucket has no answer, whether or not it was carried out.
\* The warning of the except branch, if it is enabled, raises inside it and
\* ends the call with the row in place.
CloudDeleteFails(d) ==
  LET f == deletion[d].file IN
  /\ deletion[d].pc = "cloud"
  /\ Goto(d, IF Raises(level, "WARNING") THEN "raised" ELSE "row")
  /\ uncleared' = IF Raises(level, "WARNING") THEN uncleared
                  ELSE uncleared \cup {f}
  /\ object' \in {object, object \ {f}}
  /\ UNCHANGED <<stored, url, level, late>>

\* The row goes, if another call has not deleted it, and the call is logged.
DeleteRow(d) ==
  LET f == deletion[d].file IN
  /\ deletion[d].pc = "row"
  /\ stored' = stored \ {f}
  /\ Goto(d, IF Raises(level, "INFO") THEN "raised" ELSE "done")
  /\ UNCHANGED <<object, url, level, late, uncleared>>

\* The process dies, or the commit fails.
DeleteFails(d) ==
  /\ deletion[d].pc \in {"cloud", "row"}
  /\ Goto(d, "raised")
  /\ UNCHANGED <<stored, object, url, level, late, uncleared>>

Next ==
  \/ \E f \in Files : GetUploadUrl(f) \/ Upload(f) \/ UrlExpires(f)
  \/ \E d \in Deletions :
       \/ \E f \in Files : Delete(d, f)
       \/ CloudDelete(d) \/ CloudDeleteFails(d)
       \/ DeleteRow(d) \/ DeleteFails(d)

(***************************************************************************)
(* An object without a row was uploaded after its deletion had passed it,  *)
(* or its bucket refused to delete it while the warning about that is      *)
(* disabled; at the default level the row stays in that case.              *)
(***************************************************************************)
OrphansExplained ==
  \A f \in object : f \notin stored => f \in late \cup uncleared
=============================================================================

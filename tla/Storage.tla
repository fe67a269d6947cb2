------------------------------ MODULE Storage ------------------------------
(***************************************************************************)
(* The storage module: the use case that validates an upload, names it and *)
(* checks existence before a download or a delete, over the local and the  *)
(* S3 adapter.                                                             *)
(*                                                                         *)
(* An upload writes under a fresh name (uuid), so an upload is its file.   *)
(* A path is the sequence of its segments; "h" stands for a name and ".h"  *)
(* for the same name with a leading dot.                                   *)
(***************************************************************************)
EXTENDS Naturals, Sequences, Lists

CONSTANTS
  Files,        \* uploads
  Readers,      \* downloads and URL requests
  Deleters,     \* deletes
  Dirs,         \* directories the upload forms name, as sequences of segments
  NoFile        \* a reader or deleter that has not started

VARIABLES
  backend,      \* the adapter configured
  disk,         \* disk[f]: what is stored for f
  up,           \* up[f]: where the upload of f is
  path,         \* path[f]: the path the upload of f stores under
  reader,       \* reader[r]: file, place, and what its stream yields
  deleter,      \* deleter[d]: file and place
  removed       \* the files some Delete has removed or found gone

storeVars == <<backend, disk, up, path, reader, deleter, removed>>

Segments == {"a", "h", ".h", ".", ".."}
ASSUME PathInputs == Dirs \subseteq Seq(Segments) /\ Files \cap Segments = {}

Contents == {"none", "partial", "whole"}
StoreTypeOK ==
  /\ backend \in {"local", "s3"}
  /\ disk \in [Files -> Contents]
  /\ up \in [Files -> {"idle", "accepted", "copying", "ok", "refused", "error", "lost"}]
  /\ path \in [Files -> Seq(Segments \cup Files)]
  /\ reader \in [Readers -> [op: {"download", "url"}, file: Files \cup {NoFile},
                 pc: {"idle", "open", "stream", "ok", "notfound", "error"}, got: Contents]]
  /\ deleter \in [Deleters -> [file: Files \cup {NoFile},
                               pc: {"idle", "remove", "ok", "notfound", "error"}]]
  /\ removed \subseteq Files

StoreInit ==
  /\ backend \in {"local", "s3"}
  /\ disk = [f \in Files |-> "none"]
  /\ up = [f \in Files |-> "idle"]
  /\ path = [f \in Files |-> <<>>]
  /\ reader = [r \in Readers |-> [op |-> "download", file |-> NoFile, pc |-> "idle",
                                  got |-> "none"]]
  /\ deleter = [d \in Deleters |-> [file |-> NoFile, pc |-> "idle"]]
  /\ removed = {}

(***************************************************************************)
(* Paths.                                                                  *)
(***************************************************************************)
(* filepath.Clean of a relative path: "." goes, ".." takes the name before *)
(* it away and stays when there is none.                                   *)
CleanStep(done, seg) ==
  CASE seg = "." -> done
    [] seg = ".." /\ done # <<>> /\ done[Len(done)] # ".." -> SubSeq(done, 1, Len(done) - 1)
    [] OTHER -> Append(done, seg)
Cleaned(p) ==
  LET cleaned[n \in 0..Len(p)] == IF n = 0 THEN <<>> ELSE CleanStep(cleaned[n - 1], p[n])
  IN  cleaned
CleanPath(p) == Cleaned(p)[Len(p)]

(* Leading slashes and dots go, those of the first name included; then the *)
(* segments that are dots only.                                            *)
Bare(seg) == IF seg = ".h" THEN "h" ELSE seg
DropDots(p) == Without(p, {".", ".."})

(* Faulty variant: the cleaned path is taken as it is. *)
SanitizeCleanOnly(p) == CleanPath(p)

SanitizePath(p) ==
  LET q == DropDots(CleanPath(p)) IN IF q = <<>> THEN q ELSE <<Bare(Head(q))>> \o Tail(q)

(* resolveWithinBase: the joined path stays under the base directory. *)
WithinBase(p) == CleanPath(p) = <<>> \/ Head(CleanPath(p)) # ".."

(***************************************************************************)
(* Upload.                                                                 *)
(***************************************************************************)
(* The size and the sniffed type are checked before anything is stored. *)
Upload(f) ==
  /\ up[f] = "idle"
  /\ \/ up' = [up EXCEPT ![f] = "refused"] /\ UNCHANGED path
     \/ \E dir \in Dirs :
          /\ path' = [path EXCEPT ![f] = SanitizePath(dir) \o <<f>>]
          /\ up' = [up EXCEPT ![f] = IF WithinBase(path'[f]) THEN "accepted" ELSE "error"]
  /\ UNCHANGED <<backend, disk, reader, deleter, removed>>

(* os.MkdirAll and os.Create: one fails and nothing is stored, or the file *)
(* is there and not complete.                                              *)
LocalCreate(f) ==
  /\ backend = "local" /\ up[f] = "accepted"
  /\ \/ up' = [up EXCEPT ![f] = "error"] /\ UNCHANGED disk
     \/ /\ disk' = [disk EXCEPT ![f] = "partial"]
        /\ up' = [up EXCEPT ![f] = "copying"]
  /\ UNCHANGED <<backend, path, reader, deleter, removed>>

(* io.Copy; a file that was deleted meanwhile is written on but has no name. *)
LocalCopy(f) ==
  /\ backend = "local" /\ up[f] = "copying"
  /\ disk' = IF disk[f] = "partial" THEN [disk EXCEPT ![f] = "whole"] ELSE disk
  /\ up' = [up EXCEPT ![f] = "ok"]
  /\ UNCHANGED <<backend, path, reader, deleter, removed>>

(* os.Remove cleans up; nobody looks whether it could. *)
LocalCopyFails(f) ==
  /\ backend = "local" /\ up[f] = "copying"
  /\ disk' \in {[disk EXCEPT ![f] = "none"], disk}
  /\ up' = [up EXCEPT ![f] = "error"]
  /\ UNCHANGED <<backend, path, reader, deleter, removed>>

(* The process dies while it writes: nobody removes the file. *)
LocalCrash(f) ==
  /\ backend = "local" /\ up[f] = "copying"
  /\ up' = [up EXCEPT ![f] = "lost"]
  /\ UNCHANGED <<backend, disk, path, reader, deleter, removed>>

(* PutObject stores all or nothing; its error may hide that it did. *)
S3Upload(f) ==
  /\ backend = "s3" /\ up[f] = "accepted"
  /\ \E stored, answered \in BOOLEAN :
       /\ answered => stored
       /\ disk' = IF stored THEN [disk EXCEPT ![f] = "whole"] ELSE disk
       /\ up' = [up EXCEPT ![f] = IF answered THEN "ok" ELSE "error"]
  /\ UNCHANGED <<backend, path, reader, deleter, removed>>

(***************************************************************************)
(* Download, GetURL and Delete ask first whether the file exists.          *)
(***************************************************************************)
(* A path a client can name: from an answered upload, or from a listing,   *)
(* which shows files that are still being written.                         *)
Listed(f) == disk[f] # "none"
Known(f) == up[f] = "ok" \/ Listed(f)

(* Exists.  S3 takes every error for "not found". *)
ExistsAnswers(f) ==
  {IF disk[f] = "none" THEN "notfound" ELSE "found"}
    \cup (IF backend = "s3" THEN {"notfound"} ELSE {"error"})

Download(r) ==
  /\ reader[r].pc = "idle"
  /\ \E f \in Files, answer \in {"found", "notfound", "error"} :
       /\ Known(f)
       /\ answer \in ExistsAnswers(f)
       /\ reader' = [reader EXCEPT ![r] =
                       [@ EXCEPT !.file = f, !.pc = IF answer = "found" THEN "open" ELSE answer]]
  /\ UNCHANGED <<backend, disk, up, path, deleter, removed>>

GetURL(r) ==
  /\ reader[r].pc = "idle"
  /\ \E f \in Files, answer \in {"found", "notfound", "error"} :
       /\ Known(f)
       /\ answer \in ExistsAnswers(f)
       /\ reader' = [reader EXCEPT ![r] =
                       [@ EXCEPT !.file = f, !.op = "url",
                                 !.pc = IF answer = "found" THEN "ok" ELSE answer]]
  /\ UNCHANGED <<backend, disk, up, path, deleter, removed>>

(* os.Open or GetObject.  What is open stays readable when the file is     *)
(* deleted; a local file that is still written yields what is there.       *)
OpenStream(r) ==
  LET f == reader[r].file IN
  /\ reader[r].pc = "open"
  /\ reader' = [reader EXCEPT ![r] =
                  [@ EXCEPT !.pc = IF disk[f] = "none" THEN "error" ELSE "stream", !.got = disk[f]]]
  /\ UNCHANGED <<backend, disk, up, path, deleter, removed>>

(* SendStream: the server reads the stream after the handler has returned, *)
(* then closes it.                                                         *)
SendStream(r) ==
  /\ reader[r].pc = "stream"
  /\ reader' = [reader EXCEPT ![r] = [@ EXCEPT !.pc = "ok"]]
  /\ UNCHANGED <<backend, disk, up, path, deleter, removed>>

Delete(d) ==
  /\ deleter[d].pc = "idle"
  /\ \E f \in Files, answer \in {"found", "notfound", "error"} :
       /\ Known(f)
       /\ answer \in ExistsAnswers(f)
       /\ deleter' = [deleter EXCEPT ![d] =
                        [file |-> f, pc |-> IF answer = "found" THEN "remove" ELSE answer]]
  /\ UNCHANGED <<backend, disk, up, path, reader, removed>>

(* os.Remove or DeleteObject; one that is gone already counts as deleted. *)
RemoveFile(d) ==
  LET f == deleter[d].file IN
  /\ deleter[d].pc = "remove"
  /\ \E done, answered \in BOOLEAN :
       /\ answered => done
       /\ disk' = IF done THEN [disk EXCEPT ![f] = "none"] ELSE disk
       /\ removed' = IF done THEN removed \cup {f} ELSE removed
       /\ deleter' = [deleter EXCEPT ![d].pc = IF answered THEN "ok" ELSE "error"]
  /\ UNCHANGED <<backend, up, path, reader>>

StoreNext ==
  \/ \E f \in Files : \/ Upload(f) \/ LocalCreate(f) \/ LocalCopy(f) \/ LocalCopyFails(f)
                      \/ LocalCrash(f) \/ S3Upload(f)
  \/ \E r \in Readers : Download(r) \/ GetURL(r) \/ OpenStream(r) \/ SendStream(r)
  \/ \E d \in Deleters : Delete(d) \/ RemoveFile(d)

StoreSpec == StoreInit /\ [][StoreNext]_storeVars

(***************************************************************************)
(* Properties.                                                             *)
(***************************************************************************)
(* The answer to an upload is the truth.  A file whose upload was answered *)
(* is stored completely until somebody deletes it.  The path it is stored  *)
(* under leads to it, whatever directory the form named: it lies within    *)
(* the base, and every later request sanitizes it again, which changes     *)
(* nothing.  A local upload that failed or died is never there as a whole  *)
(* file: what its clean-up leaves, when that fails too, is a part.         *)
UploadAnswerTrue ==
  \A f \in Files :
    /\ up[f] = "ok" /\ f \notin removed => disk[f] = "whole"
    /\ up[f] \notin {"idle", "refused"} => WithinBase(path[f]) /\ SanitizePath(path[f]) = path[f]
    /\ up[f] \in {"error", "lost"} /\ backend = "local" => disk[f] # "whole"
=============================================================================

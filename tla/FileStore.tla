----------------------------- MODULE FileStore ------------------------------
(***************************************************************************)
(* The file service (apps/file-service: handler.go, LocalStorage of         *)
(* storage.go): an upload truncates the file of its path and writes it      *)
(* where it is, a download asks for the size first and opens the file       *)
(* next, a removal takes the file and then its entry in the index.  No lock *)
(* is held on a file, and calls overlap.  The paths are files of one user   *)
(* whose directories stand; what safeUserPath refuses never gets here.      *)
(***************************************************************************)
EXTENDS Integers, Sequences

CONSTANTS FilePaths, FileCalls, NoCall,
          BodySizes,     \* sizes of the bodies sent, in the pieces io.Copy writes
          MaxUploadSize  \* storage.go:20, in pieces

ASSUME FileAssumption == NoCall \notin FileCalls /\ BodySizes \subseteq Nat /\ MaxUploadSize \in Nat

VARIABLES
  fileAt,      \* [FilePaths -> the file there, named by the upload that made it, or NoCall]
  content,     \* [files -> sequence of pieces, each named by its upload, or NoCall for a hole]
  fileIndex,   \* [FilePaths -> number of entries LocalStorage.index has for the path]
  fileCall,    \* [FileCalls -> the request: what it does and how far it is]
  expected,    \* history: [FilePaths -> what serial calls have left there, or Overlapped]
  filesRestarted

fileVars == <<fileAt, content, fileIndex, fileCall, expected, filesRestarted>>

Idle == [op |-> "none", path |-> NoCall, step |-> "ended", file |-> NoCall,
         at |-> 0, size |-> 0, got |-> << >>, seen |-> << >>, alone |-> TRUE]

\* Two values no content has: what is written ends with a piece.
NoFile == <<NoCall>>
Overlapped == <<NoCall, NoCall>>

CallRunning(c) == fileCall[c].step \notin {"ended", "done", "failed", "short"}
WriterOf(c, p) == CallRunning(c) /\ fileCall[c].path = p /\ fileCall[c].op # "download"
FileAtRest(p) == \A c \in FileCalls : ~ WriterOf(c, p)
FileContent(p) == IF fileAt[p] = NoCall THEN NoFile ELSE content[fileAt[p]]

(***************************************************************************)
(* The requests.  "alone" is history: no other upload or removal of the     *)
(* path ran meanwhile.                                                      *)
(***************************************************************************)
begun(c, request) ==
  [k \in FileCalls |->
     IF k = c THEN [request EXCEPT !.alone = FileAtRest(request.path)]
     ELSE IF CallRunning(k) /\ fileCall[k].path = request.path /\ request.op # "download"
          THEN [fileCall[k] EXCEPT !.alone = FALSE]
          ELSE fileCall[k]]

leaves(c, result) == [expected EXCEPT ![fileCall[c].path] = IF fileCall[c].alone THEN result ELSE Overlapped]

\* Mutant: the file is opened without being truncated.
opensAsIs(old) == old

\* os.Create: what the file held is gone.
truncated(old) == << >>

BeginUpload(c, p, n) ==
  LET file == IF fileAt[p] = NoCall THEN c ELSE fileAt[p]
  IN /\ fileCall[c].op = "none"
     /\ fileCall' = begun(c, [Idle EXCEPT !.op = "upload", !.path = p, !.step = "write", !.file = file, !.size = n])
     /\ fileAt' = [fileAt EXCEPT ![p] = file]
     /\ content' = [content EXCEPT ![file] = truncated(@)]
     /\ UNCHANGED <<fileIndex, expected, filesRestarted>>

\* A piece lands where this upload's own offset is, after a hole if another
\* upload has truncated the file since.
pieceAt(old, at, c) ==
  [k \in 1..(IF Len(old) > at THEN Len(old) ELSE at + 1) |->
     IF k = at + 1 THEN c ELSE IF k <= Len(old) THEN old[k] ELSE NoCall]

\* What io.LimitReader lets through of a body of n pieces.  It ends a longer one
\* as if that were its end, before http.MaxBytesReader could fail.
letThrough(n) == IF n > MaxUploadSize THEN MaxUploadSize ELSE n

WritePiece(c) ==
  /\ fileCall[c].op = "upload" /\ fileCall[c].step = "write"
  /\ fileCall[c].at < letThrough(fileCall[c].size)
  /\ content' = [content EXCEPT ![fileCall[c].file] = pieceAt(@, fileCall[c].at, c)]
  /\ fileCall' = [fileCall EXCEPT ![c].at = @ + 1]
  /\ UNCHANGED <<fileAt, fileIndex, expected, filesRestarted>>

\* The body breaks off, or the disk is full.  At the limit nothing more is read.
UploadFails(c) ==
  /\ fileCall[c].op = "upload" /\ fileCall[c].step = "write" /\ fileCall[c].at < MaxUploadSize
  /\ fileCall' = [fileCall EXCEPT ![c].step = "clean"]
  /\ UNCHANGED <<fileAt, content, fileIndex, expected, filesRestarted>>

\* Mutant: the part that was written stays.
LeavePart(c) ==
  /\ fileCall[c].step = "clean"
  /\ fileCall' = [fileCall EXCEPT ![c].step = "failed"]
  /\ expected' = leaves(c, NoFile)
  /\ UNCHANGED <<fileAt, content, fileIndex, filesRestarted>>

\* os.Remove by path, whoever's file is there by now.
RemovePart(c) ==
  /\ fileCall[c].step = "clean"
  /\ fileAt' = [fileAt EXCEPT ![fileCall[c].path] = NoCall]
  /\ fileCall' = [fileCall EXCEPT ![c].step = "failed"]
  /\ expected' = leaves(c, NoFile)
  /\ UNCHANGED <<content, fileIndex, filesRestarted>>

\* A body cut at the limit is indexed and answered with 201 like a whole one.
FinishUpload(c) ==
  /\ fileCall[c].op = "upload" /\ fileCall[c].step = "write"
  /\ fileCall[c].at = letThrough(fileCall[c].size)
  /\ fileIndex' = [fileIndex EXCEPT ![fileCall[c].path] = @ + 1]
  /\ fileCall' = [fileCall EXCEPT ![c].step = "done"]
  /\ expected' = leaves(c, [k \in 1..letThrough(fileCall[c].size) |-> c])
  /\ UNCHANGED <<fileAt, content, filesRestarted>>

\* A path without a file is answered with an error and nothing changes.
RemoveFile(c, p) ==
  /\ fileCall[c].op = "none" /\ fileAt[p] # NoCall
  /\ fileCall' = begun(c, [Idle EXCEPT !.op = "delete", !.path = p, !.step = "index"])
  /\ fileAt' = [fileAt EXCEPT ![p] = NoCall]
  /\ UNCHANGED <<content, fileIndex, expected, filesRestarted>>

\* The first entry of the path goes.  The index and the files part ways (of two
\* uploads of a path one entry outlives its removal), which nothing notices:
\* List and Info read the disk and no method reads the index.
oneEntryLess(entries) == IF entries = 0 THEN 0 ELSE entries - 1

DropEntry(c) ==
  /\ fileCall[c].op = "delete" /\ fileCall[c].step = "index"
  /\ fileIndex' = [fileIndex EXCEPT ![fileCall[c].path] = oneEntryLess(@)]
  /\ fileCall' = [fileCall EXCEPT ![c].step = "done"]
  /\ expected' = leaves(c, NoFile)
  /\ UNCHANGED <<fileAt, content, filesRestarted>>

\* The size of the answer is what the path's file has now.
StatFile(c, p) ==
  /\ fileCall[c].op = "none" /\ fileAt[p] # NoCall
  /\ fileCall' = begun(c, [Idle EXCEPT !.op = "download", !.path = p, !.step = "open",
                                       !.size = Len(FileContent(p)), !.seen = FileContent(p)])
  /\ UNCHANGED <<fileAt, content, fileIndex, expected, filesRestarted>>

OpenFile(c) ==
  /\ fileCall[c].step = "open"
  /\ fileCall' = [fileCall EXCEPT ![c].step = IF fileAt[fileCall[c].path] = NoCall THEN "failed" ELSE "read",
                                  ![c].file = fileAt[fileCall[c].path]]
  /\ UNCHANGED <<fileAt, content, fileIndex, expected, filesRestarted>>

\* io.Copy goes on until the file ends; past the announced size nothing is sent.
more(c, file) == fileCall[c].at < fileCall[c].size /\ fileCall[c].at < Len(file)

ReadPiece(c) ==
  LET call == fileCall[c]
      file == content[call.file]
  IN /\ call.op = "download" /\ call.step = "read"
     /\ fileCall' = [fileCall EXCEPT ![c] =
          IF more(c, file) THEN [call EXCEPT !.at = @ + 1, !.got = Append(@, file[call.at + 1])]
          ELSE [call EXCEPT !.step = IF call.at = call.size THEN "done" ELSE "short"]]
     /\ UNCHANGED <<fileAt, content, expected, fileIndex, filesRestarted>>

\* The process ends: files stay as they are, the index and the requests go.
FilesRestart ==
  /\ ~ filesRestarted /\ filesRestarted' = TRUE
  /\ fileIndex' = [p \in FilePaths |-> 0]
  /\ fileCall' = [c \in FileCalls |-> IF CallRunning(c) THEN [fileCall[c] EXCEPT !.step = "ended"] ELSE fileCall[c]]
  /\ expected' = [p \in FilePaths |-> IF FileAtRest(p) THEN expected[p] ELSE Overlapped]
  /\ UNCHANGED <<fileAt, content>>

FilesInit ==
  /\ fileAt = [p \in FilePaths |-> NoCall] /\ content = [c \in FileCalls |-> << >>]
  /\ fileIndex = [p \in FilePaths |-> 0] /\ fileCall = [c \in FileCalls |-> Idle]
  /\ expected = [p \in FilePaths |-> NoFile] /\ filesRestarted = FALSE

FilesNext ==
  \/ \E c \in FileCalls, p \in FilePaths :
       RemoveFile(c, p) \/ StatFile(c, p) \/ \E n \in BodySizes : BeginUpload(c, p, n)
  \/ \E c \in FileCalls :
       \/ WritePiece(c) \/ UploadFails(c) \/ RemovePart(c) \/ FinishUpload(c)
       \/ DropEntry(c) \/ OpenFile(c) \/ ReadPiece(c)
  \/ FilesRestart

FilesSpec == FilesInit /\ [][FilesNext]_fileVars

(***************************************************************************)
(* Properties                                                              *)
(***************************************************************************)
\* Uploads and removals of a path that do not overlap leave there what the
\* last of them says: after an upload that is answered with success its body,
\* cut at MaxUploadSize, nothing after a removal or a failed upload, and never
\* the rest of an earlier or longer one (storage.go:67-111, 138-158).
\* Overlapping ones may leave a mixture.
SerialCallsLeaveWhole ==
  \A p \in FilePaths :
    FileAtRest(p) /\ expected[p] # Overlapped => FileContent(p) = expected[p]

\* A download no upload and no removal of its path overlapped gets all of what
\* the file was when it began, at the size announced (storage.go:113-136,
\* handler.go:127-143).
UndisturbedDownloadIsWhole ==
  \A c \in FileCalls :
    fileCall[c].op = "download" /\ ~ CallRunning(c) /\ fileCall[c].step # "ended" /\ fileCall[c].alone =>
      fileCall[c].step = "done" /\ fileCall[c].got = fileCall[c].seen

\* Calls that do not overlap store whole bodies, up to the limit, and deliver
\* whole files.
FilesWhole == SerialCallsLeaveWhole /\ UndisturbedDownloadIsWhole

=============================================================================

----------------------------- MODULE UserStorage -----------------------------
(***************************************************************************)
(* One user's files on the gateway (internal/storage), composed with        *)
(* Accounts, whose CheckStorageQuota and AddStorageUsed NewServer installs  *)
(* as quotaFn and usageFn (server.go:264-269).                              *)
(*                                                                          *)
(* A file is known in three places: the index, in memory only; the          *)
(* directory, which survives a restart; and the owner's StorageUsed, in     *)
(* memory and in the row.  An upload holds no lock while it copies, and a   *)
(* file that is removed under an upload keeps growing without a name        *)
(* (linked = FALSE).                                                        *)
(*                                                                          *)
(* Left out: the path syntax (isSafeUserPath), directories, MIME types, and *)
(* the requests that only read (List, Download).                            *)
(***************************************************************************)
EXTENDS Accounts, Integers, FiniteSetsExt

CONSTANTS Owner,         \* the user whose files these are: the administrator
          Paths, NoFile,
          Uploads,       \* uploads under way at once
          MaxSize,       \* maxFileSize
          Quota,         \* User.StorageQuota
          MaxUploads     \* bound of the uploads begun

ASSUME StorageAssumption ==
  /\ Owner \in Uids /\ NoFile \notin Nat /\ Passwords # {}
  /\ IsFiniteSet(Paths) /\ IsFiniteSet(Uploads) /\ Uploads # {}
  /\ {MaxSize, Quota, MaxUploads} \subseteq Nat

VARIABLES
  files,      \* StorageManager.files: path -> Size of its entry
  disk,       \* the directory: path -> size of the file
  upload,     \* the uploads under way
  removal,    \* the DeleteFile call under way
  begun,      \* uploads begun
  refused,    \* what the last refused upload asked for
  drifted     \* history: the index was lost, a removal freed another size
              \* than its entry's, or the counter stopped at zero

fileVars == <<files, disk, upload, removal, begun, refused, drifted>>
storageVars == <<vars, fileVars>>

NoUpload == [stage |-> "none", path |-> NoFile, size |-> 0, written |-> 0,
             linked |-> FALSE, delta |-> 0]
NoRemoval == [stage |-> "none", path |-> NoFile, freed |-> 0]

sizeOf(p) == IF files[p] = NoFile THEN 0 ELSE files[p]
used == IF user[Owner] = NoUser THEN 0 ELSE user[Owner].used
quotaFn(bytes) == CheckStorageQuota(Owner, bytes, Quota)
\* AddStorageUsed returns at once for a user it does not have.
usageFn(delta) ==
  IF delta # 0 /\ Owner \in users
    THEN /\ UsageFunc(Owner, IF delta > 0 THEN delta ELSE 0, IF delta < 0 THEN -delta ELSE 0)
         /\ drifted' = (drifted \/ used + delta < 0)
         /\ UNCHANGED changes
    ELSE UNCHANGED <<vars, drifted>>

(***************************************************************************)
(* Upload and WriteFile.  The handler asks for the whole size, WriteFile    *)
(* for what it adds to the file it replaces; then the file is truncated and *)
(* copied, the entry replaced, and the difference counted.                  *)
(***************************************************************************)
Upload(i, p, size) ==
  /\ Serving /\ upload[i].stage = "none" /\ begun < MaxUploads /\ begun' = begun + 1
  /\ IF quotaFn(size)
       THEN /\ upload' = [upload EXCEPT ![i] = [NoUpload EXCEPT !.stage = "begun", !.path = p, !.size = size]]
            /\ UNCHANGED refused
       ELSE /\ refused' = [path |-> p, size |-> size]
            /\ UNCHANGED upload
  /\ UNCHANGED <<vars, files, disk, removal, drifted>>

OpenFile(i) ==
  LET p == upload[i].path
      delta == upload[i].size - sizeOf(p)
  IN /\ upload[i].stage = "begun"
     /\ IF delta > 0 /\ ~quotaFn(delta)
          THEN /\ refused' = [path |-> p, size |-> upload[i].size]
               /\ upload' = [upload EXCEPT ![i] = NoUpload]
               /\ UNCHANGED disk
          ELSE /\ disk' = [disk EXCEPT ![p] = 0]
               /\ upload' = [upload EXCEPT ![i].stage = "copying", ![i].linked = TRUE]
               /\ UNCHANGED refused
     /\ UNCHANGED <<vars, files, removal, begun, drifted>>

Copy(i) ==
  /\ upload[i].stage = "copying" /\ upload[i].written < upload[i].size
  /\ upload' = [upload EXCEPT ![i].written = @ + 1]
  /\ disk' = IF upload[i].linked
               THEN [disk EXCEPT ![upload[i].path] = Max({@, upload[i].written + 1})] ELSE disk
  /\ UNCHANGED <<vars, files, removal, begun, refused, drifted>>

\* os.Remove takes the name away from every upload that writes to the file.
unlinked(uploads, p) == [j \in Uploads |-> [uploads[j] EXCEPT !.linked = @ /\ uploads[j].path # p]]

\* The body ended early: the file goes, the entry and the counter stay.
CopyFails(i) ==
  /\ upload[i].stage = "copying"
  /\ disk' = [disk EXCEPT ![upload[i].path] = NoFile]
  /\ upload' = [unlinked(upload, upload[i].path) EXCEPT ![i] = NoUpload]
  /\ UNCHANGED <<vars, files, removal, begun, refused, drifted>>

\* Mutant: the whole new size is counted.
IndexWhole(i) ==
  LET p == upload[i].path IN
  /\ upload[i].stage = "copying"
  /\ upload[i].written = upload[i].size \/ upload[i].size = MaxSize
  /\ files' = [files EXCEPT ![p] = upload[i].written]
  /\ upload' = [upload EXCEPT ![i].stage = "indexed", ![i].delta = upload[i].written]
  /\ UNCHANGED <<vars, disk, removal, begun, refused, drifted>>

\* A body of declared length ends with its last byte; one sent in chunks,
\* whose hint is the maximum, may end anywhere.
IndexFile(i) ==
  LET p == upload[i].path IN
  /\ upload[i].stage = "copying"
  /\ upload[i].written = upload[i].size \/ upload[i].size = MaxSize
  /\ files' = [files EXCEPT ![p] = upload[i].written]
  /\ upload' = [upload EXCEPT ![i].stage = "indexed", ![i].delta = upload[i].written - sizeOf(p)]
  /\ UNCHANGED <<vars, disk, removal, begun, refused, drifted>>

CountFile(i) ==
  /\ upload[i].stage = "indexed"
  /\ usageFn(upload[i].delta)
  /\ upload' = [upload EXCEPT ![i] = NoUpload]
  /\ UNCHANGED <<files, disk, removal, begun, refused>>

(***************************************************************************)
(* Delete and DeleteFile: the file's size on the disk is what is freed,     *)
(* the entry's when that is zero.                                           *)
(***************************************************************************)
Unlink(p) ==
  /\ removal.stage = "none" /\ disk[p] # NoFile
  /\ removal' = [stage |-> "unlinked", path |-> p, freed |-> disk[p]]
  /\ disk' = [disk EXCEPT ![p] = NoFile]
  /\ upload' = unlinked(upload, p)
  /\ UNCHANGED <<vars, files, begun, refused, drifted>>

Delete(p) == Serving /\ Unlink(p)

DropEntry ==
  LET freed == IF removal.freed = 0 THEN sizeOf(removal.path) ELSE removal.freed IN
  /\ removal.stage = "unlinked"
  /\ files' = [files EXCEPT ![removal.path] = NoFile]
  /\ removal' = [removal EXCEPT !.stage = "dropped", !.freed = freed]
  /\ drifted' = (drifted \/ freed # sizeOf(removal.path))
  /\ UNCHANGED <<vars, disk, upload, begun, refused>>

CountRemoval ==
  /\ removal.stage = "dropped"
  /\ usageFn(-removal.freed)
  /\ removal' = NoRemoval
  /\ UNCHANGED <<files, disk, upload, begun, refused>>

\* The index is not stored anywhere: it is empty after a restart.
StorageRestart ==
  /\ Restart
  /\ files' = [p \in Paths |-> NoFile]
  /\ upload' = [i \in Uploads |-> NoUpload] /\ removal' = NoRemoval
  /\ drifted' = (drifted \/ row[Owner].used # 0)
  /\ UNCHANGED <<disk, begun, refused>>

(***************************************************************************)
(* The specification, from the state in which the administrator has been    *)
(* seeded and every token has run out.                                      *)
(***************************************************************************)
Seeded == [email |-> AdminEmail, pw |-> CHOOSE p \in Passwords : TRUE, role |-> "admin",
           used |-> 0, tailscaleIP |-> "100.0.0.1", prefs |-> "{}"]

StorageInit ==
  /\ user = [u \in Uids |-> IF u = Owner THEN Seeded ELSE NoUser] /\ users = {Owner}
  /\ emails = [e \in Emails |-> IF e = AdminEmail THEN Owner ELSE NoOne]
  /\ tokens = [t \in Tokens |-> NoOne] /\ refreshTokens = [t \in Tokens |-> NoOne]
  /\ tokenExpiry = {} /\ past = {}
  /\ row = user
  /\ write = [w \in Writers |-> Idle]
  /\ seed = "done" /\ seedPw = NoPassword /\ secretFile = Seeded.pw /\ seedCut = FALSE
  /\ doubt = {} /\ changes = 0 /\ failures = 0 /\ restarts = 0
  /\ files = [p \in Paths |-> NoFile] /\ disk = [p \in Paths |-> NoFile]
  /\ upload = [i \in Uploads |-> NoUpload] /\ removal = NoRemoval
  /\ begun = 0 /\ refused = [path |-> NoFile, size |-> 0] /\ drifted = FALSE

StorageNext ==
  \/ \E i \in Uploads, p \in Paths, size \in 1..MaxSize : Upload(i, p, size)
  \/ \E i \in Uploads : OpenFile(i) \/ Copy(i) \/ CopyFails(i) \/ IndexFile(i) \/ CountFile(i)
  \/ \E p \in Paths : Delete(p)
  \/ DropEntry \/ CountRemoval
  \/ \E w \in Writers : (ReadForWrite(w) \/ FinishWrite(w)) /\ UNCHANGED fileVars
  \/ SeedKnown /\ UNCHANGED fileVars
  \/ StorageRestart

StorageSpec == StorageInit /\ [][StorageNext]_storageVars

(***************************************************************************)
(* Properties.                                                              *)
(***************************************************************************)
\* The sum of the positive values of f on S, none of them above MaxSize, as the
\* number of their bytes.
Total(S, f) == Cardinality({b \in S \X (1..MaxSize) : b[2] <= f[b[1]]})

Indexed == Total(Paths, [p \in Paths |-> sizeOf(p)])
Gained  == Total(Uploads, [i \in Uploads |-> upload[i].delta])
Lost    == Total(Uploads, [i \in Uploads |-> -upload[i].delta])
Freed   == IF removal.stage = "dropped" THEN removal.freed ELSE 0

\* StorageUsed is the sum of the entries' sizes once every upload and removal
\* that changed an entry has reported it, whatever uploads of one path
\* overlap ("Replace any existing entry ... so overwrites don't ...
\* double-count storage usage", storage.go:172-173), except after the three
\* things drifted names.
UsageFollowsIndex == ~drifted => used + Gained = Indexed + Lost + Freed

\* The quota is checked before the copy and counted after it: uploads that
\* overlap may exceed it together, by one largest file less than their number
\* and never by more, however many follow.
QuotaOvershootBounded == used <= Quota + (Cardinality(Uploads) - 1) * MaxSize

\* The counter the quota is asked of is right, and the quota holds as far as
\* uploads that overlap let it.
UsageWithinQuota == UsageFollowsIndex /\ QuotaOvershootBounded

\* "When a file is being overwritten, only the delta counts against quota"
\* (storage.go:119): an upload is refused only if what it adds does not fit.
OverwriteChargedByDelta ==
  [][refused' # refused => used + refused'.size - sizeOf(refused'.path) > Quota]_storageVars

=============================================================================

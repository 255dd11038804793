------------------------------- MODULE SdkCache -------------------------------
(***************************************************************************)
(* The Android platform cache (src/android/sdk): Fetch, Path and Remove of  *)
(* one API level, by processes that share the cache directory and may be    *)
(* killed at any step.  Files are inodes: os.Create truncates the file a    *)
(* name refers to, open descriptors keep writing to the inode they hold,    *)
(* and rename moves a name.  A jar is written a chunk at a time; a chunk    *)
(* holds the platform revision its bytes come from, or 0.                   *)
(***************************************************************************)
EXTENDS Integers, FiniteSets

CONSTANTS
  Proc,        \* processes that use the cache
  Inode,       \* files the directory can hold
  Chunks,      \* bound: chunks a jar is copied in
  MaxRevision, \* bound: revisions the repository publishes
  MaxCalls,    \* bound: calls each process makes
  MaxCrashes,  \* bound: kills
  Options      \* what callers do: "force", "remove"

ASSUME SdkAssumption ==
  /\ Chunks \in Nat \ {0} /\ MaxRevision \in Nat \ {0} /\ MaxCalls \in Nat
  /\ MaxCrashes \in Nat /\ Options \subseteq {"force", "remove"}
  /\ IsFiniteSet(Inode) /\ 0 \notin Inode

VARIABLES
  repo,     \* external: the newest revision in Google's repository
  index,    \* index/repository.xml: the revision it lists, 0 when not cached
  dir,      \* platforms/android-N exists
  jar,      \* the inode android.jar names, or 0
  tmp,      \* the inode android.jar.tmp names, or 0
  meta,     \* the revision meta.json records, or 0
  content,  \* what each inode holds, chunk by chunk
  zips,     \* scratch archives under tmp/, by the call that made them
  pc,       \* where each process is
  plat,     \* the revision it looked up
  zip,      \* the revision its archive holds, 0 when damaged
  fd,       \* the inode it is writing, or 0
  done,     \* chunks it has written
  calls, crashes,
  last      \* the result of its last call

files == <<dir, jar, tmp, meta, content>>
local == <<plat, zip, fd, done>>
vars  == <<repo, index, files, zips, pc, local, calls, crashes, last>>

Revision == 1..MaxRevision
Empty == [k \in 1..Chunks |-> 0]

Init ==
  /\ repo = 1 /\ index = 0 /\ dir = FALSE /\ jar = 0 /\ tmp = 0 /\ meta = 0
  /\ content = [i \in Inode |-> Empty] /\ zips = {}
  /\ pc = [p \in Proc |-> "idle"] /\ plat = [p \in Proc |-> 0]
  /\ zip = [p \in Proc |-> 0] /\ fd = [p \in Proc |-> 0] /\ done = [p \in Proc |-> 0]
  /\ calls = [p \in Proc |-> 0] /\ crashes = 0 /\ last = [p \in Proc |-> "none"]

(* Path: the completion marker first, then the jar. *)
Path == meta # 0 /\ jar # 0

(* A call returns; the deferred removal of the archive runs. *)
Return(p, result) ==
  /\ pc' = [pc EXCEPT ![p] = "idle"] /\ fd' = [fd EXCEPT ![p] = 0]
  /\ done' = [done EXCEPT ![p] = 0]
  /\ last' = [last EXCEPT ![p] = result] /\ zips' = zips \ {<<p, calls[p]>>}
-----------------------------------------------------------------------------
(* Fetch *)

Fetch(p, force) ==
  /\ pc[p] = "idle" /\ calls[p] < MaxCalls /\ (force => "force" \in Options)
  /\ calls' = [calls EXCEPT ![p] = @ + 1]
  /\ IF ~force /\ Path
     THEN last' = [last EXCEPT ![p] = "cached"] /\ UNCHANGED pc
     ELSE pc' = [pc EXCEPT ![p] = "lookup"] /\ last' = [last EXCEPT ![p] = "none"]
  /\ UNCHANGED <<repo, index, files, zips, local, crashes>>

(* Lookup: a cached index that is young enough, or a new copy of it. *)
Lookup(p) ==
  /\ pc[p] = "lookup"
  /\ \/ index # 0 /\ plat' = [plat EXCEPT ![p] = index] /\ UNCHANGED index
     \/ index' = repo /\ plat' = [plat EXCEPT ![p] = repo]
  /\ pc' = [pc EXCEPT ![p] = "download"]
  /\ UNCHANGED <<repo, files, zips, zip, fd, done, calls, crashes, last>>

LookupFails(p) ==
  /\ pc[p] = "lookup" /\ Return(p, "error")
  /\ UNCHANGED <<repo, index, files, plat, zip, calls, crashes>>

(* The archive is streamed to a temp file of its own; what arrives may be   *)
(* damaged.  download removes the file itself when it fails or is short.    *)
Download(p) ==
  /\ pc[p] = "download"
  /\ \E r \in {plat[p], 0} : zip' = [zip EXCEPT ![p] = r]
  /\ zips' = zips \cup {<<p, calls[p]>>} /\ pc' = [pc EXCEPT ![p] = "verify"]
  /\ UNCHANGED <<repo, index, files, plat, fd, done, calls, crashes, last>>

DownloadFails(p) ==
  /\ pc[p] = "download" /\ Return(p, "error")
  /\ UNCHANGED <<repo, index, files, plat, zip, calls, crashes>>

(* The size and the SHA-1 of the index, then MkdirAll of the platform.      *)
(* Without a SHA-1 in the index the CRC of the archive's entry refuses the  *)
(* damage, a moment later and to the same effect.                           *)
Verify(p) ==
  /\ pc[p] = "verify"
  /\ IF zip[p] = plat[p]
     THEN /\ pc' = [pc EXCEPT ![p] = "create"] /\ dir' = TRUE
          /\ UNCHANGED <<zips, fd, done, last>>
     ELSE Return(p, "error") /\ UNCHANGED dir
  /\ UNCHANGED <<repo, index, jar, tmp, meta, content, plat, zip, calls, crashes>>

Free == Inode \ ({jar, tmp} \cup {fd[p] : p \in Proc})

(* Mutant of CreateTemp: the jar is written in place. *)
CreateTempInPlace(p) ==
  /\ pc[p] = "create" /\ dir
  /\ \E i \in (IF jar # 0 THEN {jar} ELSE Free) :
       /\ tmp' = i /\ jar' = i /\ fd' = [fd EXCEPT ![p] = i]
       /\ content' = [content EXCEPT ![i] = Empty]
  /\ done' = [done EXCEPT ![p] = 0]
  /\ pc' = [pc EXCEPT ![p] = "copy"]
  /\ UNCHANGED <<repo, index, dir, meta, zips, plat, zip, calls, crashes, last>>

(* extractStub: os.Create(android.jar.tmp) truncates what the name refers   *)
(* to, or makes a new file.                                                 *)
CreateTemp(p) ==
  /\ pc[p] = "create" /\ dir
  /\ \E i \in (IF tmp # 0 THEN {tmp} ELSE Free) :
       /\ tmp' = i /\ fd' = [fd EXCEPT ![p] = i]
       /\ content' = [content EXCEPT ![i] = Empty]
  /\ done' = [done EXCEPT ![p] = 0]
  /\ pc' = [pc EXCEPT ![p] = "copy"]
  /\ UNCHANGED <<repo, index, dir, jar, meta, zips, plat, zip, calls, crashes, last>>

(* The archive cannot be opened, holds no android.jar or more than one, or  *)
(* the directory has gone.                                                  *)
CreateFails(p) ==
  /\ pc[p] = "create" /\ Return(p, "error")
  /\ UNCHANGED <<repo, index, files, plat, zip, calls, crashes>>

Copy(p) ==
  /\ pc[p] = "copy" /\ done[p] < Chunks
  /\ content' = [content EXCEPT ![fd[p]][done[p] + 1] = zip[p]]
  /\ done' = [done EXCEPT ![p] = @ + 1]
  /\ UNCHANGED <<repo, index, dir, jar, tmp, meta, zips, pc, plat, zip, fd, calls,
                 crashes, last>>

(* A failed copy removes whatever android.jar.tmp is by then. *)
CopyFails(p) ==
  /\ pc[p] = "copy" /\ tmp' = 0 /\ Return(p, "error")
  /\ UNCHANGED <<repo, index, dir, jar, meta, content, plat, zip, calls, crashes>>

Rename(p) ==
  /\ pc[p] = "copy" /\ done[p] = Chunks
  /\ IF tmp # 0
     THEN /\ jar' = tmp /\ tmp' = 0
          /\ pc' = [pc EXCEPT ![p] = "meta"] /\ fd' = [fd EXCEPT ![p] = 0]
          /\ UNCHANGED <<zips, done, last>>
     ELSE Return(p, "error") /\ UNCHANGED <<jar, tmp>>
  /\ UNCHANGED <<repo, index, dir, meta, content, plat, zip, calls, crashes>>

(* Mutant of WriteMeta: the record may be written before the jar. *)
WriteMetaEarly(p) ==
  /\ pc[p] \in {"create", "meta"}
  /\ dir' = TRUE /\ meta' = plat[p]
  /\ Return(p, "fetched")
  /\ UNCHANGED <<repo, index, jar, tmp, content, plat, zip, calls, crashes>>

(* writeMeta: a temp file of its own and a rename, the directory made anew. *)
WriteMeta(p) ==
  /\ pc[p] = "meta"
  /\ dir' = TRUE /\ meta' = plat[p] /\ Return(p, "fetched")
  /\ UNCHANGED <<repo, index, jar, tmp, content, plat, zip, calls, crashes>>

MetaFails(p) ==
  /\ pc[p] = "meta" /\ Return(p, "error")
  /\ UNCHANGED <<repo, index, files, plat, zip, calls, crashes>>
-----------------------------------------------------------------------------
(* Remove: os.RemoveAll unlinks the entries one by one, then the directory. *)

Remove(p) ==
  /\ "remove" \in Options /\ pc[p] = "idle" /\ calls[p] < MaxCalls
  /\ calls' = [calls EXCEPT ![p] = @ + 1]
  /\ pc' = [pc EXCEPT ![p] = "remove"] /\ last' = [last EXCEPT ![p] = "none"]
  /\ UNCHANGED <<repo, index, files, zips, local, crashes>>

Unlink(p) ==
  /\ pc[p] = "remove"
  /\ \/ jar # 0 /\ jar' = 0 /\ UNCHANGED <<tmp, meta>>
     \/ tmp # 0 /\ tmp' = 0 /\ UNCHANGED <<jar, meta>>
     \/ meta # 0 /\ meta' = 0 /\ UNCHANGED <<jar, tmp>>
  /\ UNCHANGED <<repo, index, dir, content, zips, pc, local, calls, crashes, last>>

RemoveEnds(p) ==
  /\ pc[p] = "remove" /\ jar = 0 /\ tmp = 0 /\ meta = 0
  /\ dir' = FALSE /\ Return(p, "removed")
  /\ UNCHANGED <<repo, index, jar, tmp, meta, content, plat, zip, calls, crashes>>
-----------------------------------------------------------------------------
(* Environment *)

(* The process is killed: its descriptor goes, its files stay. *)
Crash(p) ==
  /\ pc[p] # "idle" /\ crashes < MaxCrashes /\ crashes' = crashes + 1
  /\ pc' = [pc EXCEPT ![p] = "idle"] /\ fd' = [fd EXCEPT ![p] = 0]
  /\ done' = [done EXCEPT ![p] = 0] /\ last' = [last EXCEPT ![p] = "killed"]
  /\ UNCHANGED <<repo, index, files, zips, plat, zip, calls>>

(* external: Google publishes a new revision. *)
Publish ==
  /\ repo < MaxRevision /\ repo' = repo + 1
  /\ UNCHANGED <<index, files, zips, pc, local, calls, crashes, last>>

FetchStep(p) ==
  \/ Lookup(p) \/ LookupFails(p) \/ Download(p) \/ DownloadFails(p) \/ Verify(p)
  \/ CreateTemp(p) \/ CreateFails(p) \/ Copy(p) \/ CopyFails(p) \/ Rename(p)
  \/ WriteMeta(p) \/ MetaFails(p)

Next ==
  \/ \E p \in Proc : \/ \E force \in BOOLEAN : Fetch(p, force)
                     \/ FetchStep(p)
                     \/ Remove(p) \/ Unlink(p) \/ RemoveEnds(p) \/ Crash(p)
  \/ Publish

Spec == Init /\ [][Next]_vars
-----------------------------------------------------------------------------
Results == {"none", "cached", "fetched", "removed", "error", "killed"}

TypeOK ==
  /\ repo \in Revision /\ index \in {0} \cup Revision /\ dir \in BOOLEAN
  /\ jar \in Inode \cup {0} /\ tmp \in Inode \cup {0} /\ meta \in {0} \cup Revision
  /\ content \in [Inode -> [1..Chunks -> {0} \cup Revision]]
  /\ pc \in [Proc -> {"idle", "lookup", "download", "verify", "create", "copy", "meta", "remove"}]
  /\ plat \in [Proc -> {0} \cup Revision] /\ zip \in [Proc -> {0} \cup Revision]
  /\ fd \in [Proc -> Inode \cup {0}] /\ done \in [Proc -> 0..Chunks]
  /\ calls \in [Proc -> 0..MaxCalls] /\ crashes \in 0..MaxCrashes
  /\ last \in [Proc -> Results]
  /\ zips \subseteq Proc \X (0..MaxCalls)

Whole(i) == \E r \in Revision : content[i] = [k \in 1..Chunks |-> r]

(* "An interrupted write cannot leave a truncated file that a later run     *)
(* treats as valid" (src/android/sdk/README.md): whatever Path returns is   *)
(* one complete jar, wherever a process was killed (extractStub, writeMeta, *)
(* Path).                                                                   *)
WholeJar == Path => Whole(jar)

(* A Fetch that reports success leaves a platform Path finds and a jar of   *)
(* the revision it looked up, whatever earlier calls left behind (Fetch).   *)
FetchedIsUsable ==
  [][\A p \in Proc : pc[p] # "idle" /\ last'[p] = "fetched"
       => Path' /\ content'[jar'] = [k \in 1..Chunks |-> plat[p]] /\ meta' = plat[p]]_vars
=============================================================================

---------------------------- MODULE SdkCacheProofs ----------------------------
(***************************************************************************)
(* Proofs about SdkCache, for any number of chunks, revisions, calls and    *)
(* kills.                                                                   *)
(***************************************************************************)
EXTENDS SdkCache, TLAPS

-----------------------------------------------------------------------------
(* Type correctness, for any number of processes: an empty cache. *)
LEMMA TypeInit == Init => TypeOK
<1> SUFFICES ASSUME Init PROVE TypeOK OBVIOUS
<1>1. 1 \in Revision /\ 0 \in 0..Chunks /\ 0 \in 0..MaxCalls /\ 0 \in 0..MaxCrashes
  BY SdkAssumption DEF Revision
<1>2. content \in [Inode -> [1..Chunks -> {0} \cup Revision]] BY DEF Init, Empty
<1> QED BY <1>1, <1>2 DEF Init, TypeOK, Results

(* What every return of a call does to the types. *)
LEMMA ReturnType ==
  ASSUME TypeOK, NEW p \in Proc, NEW r \in Results, Return(p, r)
  PROVE  /\ pc' \in [Proc -> {"idle", "lookup", "download", "verify", "create", "copy",
                              "meta", "remove"}]
         /\ fd' \in [Proc -> Inode \cup {0}] /\ done' \in [Proc -> 0..Chunks]
         /\ last' \in [Proc -> Results] /\ zips' \subseteq Proc \X (0..MaxCalls)
BY SdkAssumption DEF TypeOK, Return

(* Every step of Fetch, Remove and their environment keeps the types. *)
LEMMA TypeStep ==
  ASSUME TypeOK, [Next]_vars
  PROVE  TypeOK'
<1> USE SdkAssumption DEF Revision
<1>1. ASSUME NEW p \in Proc, NEW force \in BOOLEAN, Fetch(p, force) PROVE TypeOK'
  <2>1. calls' \in [Proc -> 0..MaxCalls] BY <1>1 DEF TypeOK, Fetch
  <2>2. /\ pc' \in [Proc -> {"idle", "lookup", "download", "verify", "create", "copy",
                              "meta", "remove"}]
        /\ last' \in [Proc -> Results]
    BY <1>1 DEF TypeOK, Fetch, Results
  <2> QED BY <1>1, <2>1, <2>2 DEF TypeOK, Fetch, files, local
<1>2. ASSUME NEW p \in Proc, Lookup(p) PROVE TypeOK'
  BY <1>2 DEF TypeOK, Lookup, files
<1>3. ASSUME NEW p \in Proc,
             LookupFails(p) \/ DownloadFails(p) \/ CreateFails(p) \/ MetaFails(p)
      PROVE  TypeOK'
  <2>1. Return(p, "error") /\ UNCHANGED <<repo, index, files, plat, zip, calls, crashes>>
    BY <1>3 DEF LookupFails, DownloadFails, CreateFails, MetaFails
  <2> QED BY <2>1, ReturnType DEF TypeOK, files, Results
<1>4. ASSUME NEW p \in Proc, Download(p) PROVE TypeOK'
  <2>1. zip' \in [Proc -> {0} \cup Revision] BY <1>4 DEF TypeOK, Download
  <2>2. zips' \subseteq Proc \X (0..MaxCalls)
    <3>1. <<p, calls[p]>> \in Proc \X (0..MaxCalls) BY DEF TypeOK
    <3> QED BY <1>4, <3>1 DEF TypeOK, Download
  <2> QED BY <1>4, <2>1, <2>2 DEF TypeOK, Download, files
<1>5. ASSUME NEW p \in Proc, Verify(p) PROVE TypeOK'
  <2>1. CASE zip[p] = plat[p] BY <1>5, <2>1 DEF TypeOK, Verify
  <2>2. CASE zip[p] # plat[p]
    BY <1>5, <2>2, ReturnType DEF TypeOK, Verify, Results
  <2> QED BY <2>1, <2>2
<1>6. ASSUME NEW p \in Proc, CreateTemp(p) PROVE TypeOK'
  <2>1. PICK i \in (IF tmp # 0 THEN {tmp} ELSE Free) :
          /\ tmp' = i /\ fd' = [fd EXCEPT ![p] = i]
          /\ content' = [content EXCEPT ![i] = Empty]
    BY <1>6 DEF CreateTemp
  <2>2. i \in Inode BY <2>1 DEF TypeOK, Free
  <2>3. content' \in [Inode -> [1..Chunks -> {0} \cup Revision]]
    <3>1. Empty \in [1..Chunks -> {0} \cup Revision] BY DEF Empty
    <3> QED BY <2>1, <2>2, <3>1 DEF TypeOK
  <2> QED BY <1>6, <2>1, <2>2, <2>3 DEF TypeOK, CreateTemp
<1>7. ASSUME NEW p \in Proc, Copy(p) PROVE TypeOK'
  <2>1. content' \in [Inode -> [1..Chunks -> {0} \cup Revision]]
    <3>1. done[p] + 1 \in 1..Chunks /\ zip[p] \in {0} \cup Revision
      BY <1>7 DEF TypeOK, Copy
    <3>2. CASE fd[p] \in Inode
      <4>1. [content[fd[p]] EXCEPT ![done[p] + 1] = zip[p]]
              \in [1..Chunks -> {0} \cup Revision]
        BY <3>1, <3>2 DEF TypeOK
      <4> QED BY <1>7, <3>2, <4>1 DEF TypeOK, Copy
    <3>3. CASE fd[p] \notin Inode
      BY <1>7, <3>3 DEF TypeOK, Copy
    <3> QED BY <3>2, <3>3
  <2>2. done' \in [Proc -> 0..Chunks] BY <1>7 DEF TypeOK, Copy
  <2> QED BY <1>7, <2>1, <2>2 DEF TypeOK, Copy
<1>8. ASSUME NEW p \in Proc, CopyFails(p) PROVE TypeOK'
  BY <1>8, ReturnType DEF TypeOK, CopyFails, Results
<1>9. ASSUME NEW p \in Proc, Rename(p) PROVE TypeOK'
  <2>1. CASE tmp # 0 BY <1>9, <2>1 DEF TypeOK, Rename
  <2>2. CASE tmp = 0 BY <1>9, <2>2, ReturnType DEF TypeOK, Rename, Results
  <2> QED BY <2>1, <2>2
<1>10. ASSUME NEW p \in Proc, WriteMeta(p) PROVE TypeOK'
  BY <1>10, ReturnType DEF TypeOK, WriteMeta, Results
<1>11. ASSUME NEW p \in Proc, Remove(p) PROVE TypeOK'
  BY <1>11 DEF TypeOK, Remove, files, local, Results
<1>12. ASSUME NEW p \in Proc, Unlink(p) PROVE TypeOK'
  BY <1>12 DEF TypeOK, Unlink, local
<1>13. ASSUME NEW p \in Proc, RemoveEnds(p) PROVE TypeOK'
  BY <1>13, ReturnType DEF TypeOK, RemoveEnds, Results
<1>14. ASSUME NEW p \in Proc, Crash(p) PROVE TypeOK'
  BY <1>14 DEF TypeOK, Crash, files, Results
<1>15. CASE Publish
  BY <1>15 DEF TypeOK, Publish, files, local
<1>16. CASE UNCHANGED vars
  BY <1>16 DEF TypeOK, vars, files, local
<1> QED BY <1>1, <1>2, <1>3, <1>4, <1>5, <1>6, <1>7, <1>8, <1>9, <1>10, <1>11, <1>12,
           <1>13, <1>14, <1>15, <1>16 DEF Next, FetchStep

(* The cache's files and the state of Fetch and Remove keep their types,    *)
(* for any number of processes and kills.                                   *)
THEOREM CacheTypes == Spec => []TypeOK
BY TypeInit, TypeStep, PTL DEF Spec

-----------------------------------------------------------------------------
(* One process at a time.  While it copies, the temp file is its own and    *)
(* not the jar; what it has copied so far is the revision it verified.      *)

Sound(q) ==
  /\ jar # 0 => Whole(jar)
  /\ tmp # 0 => tmp # jar
  /\ pc[q] \in {"download", "verify", "create", "copy"} => plat[q] \in Revision
  /\ pc[q] \in {"create", "copy"} => zip[q] = plat[q]
  /\ pc[q] = "copy" => /\ tmp # 0 /\ fd[q] = tmp
                       /\ \A k \in 1..done[q] : content[tmp][k] = zip[q]

(* Every step of the one process keeps its jar and its temp file sound. *)
LEMMA SoundStep ==
  ASSUME NEW q, Proc = {q}, TypeOK, TypeOK', Sound(q), [Next]_vars
  PROVE  Sound(q)'
<1> USE SdkAssumption
<1>1. ASSUME NEW force \in BOOLEAN, Fetch(q, force) PROVE Sound(q)'
  BY <1>1 DEF TypeOK, Sound, Fetch, files, local, Whole
<1>2. CASE Lookup(q)
  BY <1>2 DEF TypeOK, Sound, Lookup, files, Whole, Revision
<1>3. CASE LookupFails(q) \/ DownloadFails(q) \/ CreateFails(q) \/ MetaFails(q)
  <2>1. Return(q, "error") /\ UNCHANGED <<repo, index, files, plat, zip, calls, crashes>>
    BY <1>3 DEF LookupFails, DownloadFails, CreateFails, MetaFails
  <2> QED BY <2>1 DEF TypeOK, Sound, Return, files, Whole
<1>4. CASE Download(q)
  BY <1>4 DEF TypeOK, Sound, Download, files, Whole
<1>5. CASE Verify(q)
  BY <1>5 DEF TypeOK, Sound, Verify, Return, Whole
<1>6. CASE CreateTemp(q)
  <2>1. PICK i \in (IF tmp # 0 THEN {tmp} ELSE Free) :
          /\ tmp' = i /\ fd' = [fd EXCEPT ![q] = i]
          /\ content' = [content EXCEPT ![i] = Empty]
    BY <1>6 DEF CreateTemp
  <2>2. i \in Inode /\ i # jar /\ i # 0 BY <2>1 DEF TypeOK, Free, Sound
  <2>3. /\ pc' = [pc EXCEPT ![q] = "copy"] /\ done' = [done EXCEPT ![q] = 0]
        /\ UNCHANGED <<jar, plat, zip>> /\ pc[q] = "create"
    BY <1>6 DEF CreateTemp
  <2>4. pc'[q] = "copy" /\ done'[q] = 0 /\ fd'[q] = i BY <2>1, <2>3 DEF TypeOK
  <2>5. jar # 0 => content'[jar] = content[jar] BY <2>1, <2>2 DEF TypeOK
  <2>6. 1..0 = {} OBVIOUS
  <2> QED BY <2>1, <2>2, <2>3, <2>4, <2>5, <2>6 DEF Sound, Whole
<1>7. CASE Copy(q)
  <2>1. /\ pc[q] = "copy" /\ done[q] < Chunks /\ UNCHANGED <<jar, tmp, pc, plat, zip, fd>>
        /\ content' = [content EXCEPT ![fd[q]][done[q] + 1] = zip[q]]
        /\ done' = [done EXCEPT ![q] = @ + 1]
    BY <1>7 DEF Copy
  <2>2. tmp \in Inode /\ fd[q] = tmp /\ tmp # jar BY <2>1 DEF TypeOK, Sound
  <2>3. jar # 0 => content'[jar] = content[jar] BY <2>1, <2>2 DEF TypeOK
  <2>4. done'[q] = done[q] + 1 /\ done[q] \in Nat /\ done[q] + 1 \in 1..Chunks
    BY <2>1 DEF TypeOK
  <2>5. content'[tmp] = [content[tmp] EXCEPT ![done[q] + 1] = zip[q]]
    BY <2>1, <2>2 DEF TypeOK
  <2>6. content[tmp] \in [1..Chunks -> {0} \cup Revision] BY <2>2 DEF TypeOK
  <2>7. \A k \in 1..done'[q] : content'[tmp][k] = zip[q]
    BY <2>1, <2>4, <2>5, <2>6 DEF Sound
  <2> QED BY <2>1, <2>2, <2>3, <2>7 DEF Sound, Whole
<1>8. CASE CopyFails(q)
  BY <1>8 DEF TypeOK, Sound, CopyFails, Return, Whole
<1>9. CASE Rename(q)
  <2>1. /\ pc[q] = "copy" /\ done[q] = Chunks /\ tmp # 0 /\ jar' = tmp /\ tmp' = 0
        /\ pc' = [pc EXCEPT ![q] = "meta"] /\ content' = content
    BY <1>9 DEF Rename, Sound
  <2>2. content[tmp] \in [1..Chunks -> {0} \cup Revision] BY <2>1 DEF TypeOK
  <2>3. zip[q] \in Revision /\ \A k \in 1..Chunks : content[tmp][k] = zip[q]
    BY <2>1 DEF Sound
  <2>4. content[tmp] = [k \in 1..Chunks |-> zip[q]] BY <2>2, <2>3
  <2>5. Whole(jar)' BY <2>1, <2>3, <2>4 DEF Whole, Revision
  <2>6. pc'[q] = "meta" BY <2>1 DEF TypeOK
  <2> QED BY <2>1, <2>5, <2>6 DEF Sound
<1>10. CASE WriteMeta(q)
  BY <1>10 DEF TypeOK, Sound, WriteMeta, Return, Whole
<1>11. CASE Remove(q)
  BY <1>11 DEF TypeOK, Sound, Remove, files, local, Whole
<1>12. CASE Unlink(q)
  BY <1>12 DEF TypeOK, Sound, Unlink, local, Whole
<1>13. CASE RemoveEnds(q)
  BY <1>13 DEF TypeOK, Sound, RemoveEnds, Return, Whole
<1>14. CASE Crash(q)
  BY <1>14 DEF TypeOK, Sound, Crash, files, Whole
<1>15. CASE Publish
  BY <1>15 DEF TypeOK, Sound, Publish, files, local, Whole
<1>16. CASE UNCHANGED vars
  BY <1>16 DEF Sound, vars, files, local, Whole
<1> QED BY <1>1, <1>2, <1>3, <1>4, <1>5, <1>6, <1>7, <1>8, <1>9, <1>10, <1>11, <1>12,
           <1>13, <1>14, <1>15, <1>16 DEF Next, FetchStep

(* With one process at a time, whatever Path returns is one complete jar:   *)
(* no kill, forced fetch, failed copy or interrupted Remove, in any number  *)
(* and any order, leaves a truncated or mixed one behind (extractStub,      *)
(* Fetch, Remove).                                                          *)
THEOREM JarIsWhole ==
  ASSUME NEW CONSTANT q, Proc = {q}
  PROVE  Spec => []WholeJar
<1>1. Init => Sound(q)
  BY DEF Init, Sound
<1>2. TypeOK /\ TypeOK' /\ Sound(q) /\ [Next]_vars => Sound(q)'
  BY SoundStep
<1>3. Sound(q) => WholeJar
  BY DEF Sound, WholeJar, Path
<1> QED BY <1>1, <1>2, <1>3, CacheTypes, PTL DEF Spec

-----------------------------------------------------------------------------
(* Before the record is written the jar is the one that was looked up, and  *)
(* the result of a call is set when it returns.                             *)

JarOf(r) == [k \in 1..Chunks |-> r]
Ready(q) ==
  /\ pc[q] # "idle" => last[q] = "none"
  /\ pc[q] = "meta" => plat[q] \in Revision /\ jar # 0 /\ content[jar] = JarOf(plat[q])

(* Every step of the one process keeps it ready. *)
LEMMA ReadyStep ==
  ASSUME NEW q, Proc = {q}, TypeOK, Sound(q), Ready(q), [Next]_vars
  PROVE  Ready(q)'
<1> USE SdkAssumption
<1>1. ASSUME NEW force \in BOOLEAN, Fetch(q, force) PROVE Ready(q)'
  BY <1>1 DEF TypeOK, Ready, Fetch, files, local
<1>2. CASE Lookup(q)
  BY <1>2 DEF TypeOK, Ready, Lookup, files
<1>3. ASSUME NEW r, Return(q, r) PROVE Ready(q)'
  BY <1>3 DEF TypeOK, Ready, Return
<1>4. CASE Download(q)
  BY <1>4 DEF TypeOK, Ready, Download, files
<1>5. CASE Verify(q)
  <2>1. CASE zip[q] = plat[q] BY <1>5, <2>1 DEF TypeOK, Ready, Verify
  <2>2. CASE zip[q] # plat[q]
    <3>1. Return(q, "error") BY <1>5, <2>2 DEF Verify
    <3> QED BY <1>3, <3>1
  <2> QED BY <2>1, <2>2
<1>6. CASE CreateTemp(q)
  BY <1>6 DEF TypeOK, Ready, CreateTemp
<1>7. CASE Copy(q)
  <2>1. pc[q] = "copy" /\ pc' = pc /\ last' = last BY <1>7 DEF Copy
  <2> QED BY <2>1 DEF Ready
<1>8. CASE Rename(q)
  <2>1. /\ pc[q] = "copy" /\ done[q] = Chunks /\ tmp # 0 /\ jar' = tmp
        /\ content' = content /\ plat' = plat /\ last' = last
    BY <1>8 DEF Rename, Sound
  <2>2. content[tmp] \in [1..Chunks -> {0} \cup Revision] BY <2>1 DEF TypeOK
  <2>3. plat[q] \in Revision /\ \A k \in 1..Chunks : content[tmp][k] = plat[q]
    BY <2>1 DEF Sound
  <2>4. content[tmp] = JarOf(plat[q]) BY <2>2, <2>3 DEF JarOf
  <2> QED BY <2>1, <2>3, <2>4 DEF Ready, JarOf, Revision
<1>9. CASE Remove(q)
  BY <1>9 DEF TypeOK, Ready, Remove
<1>10. CASE Unlink(q)
  <2>1. pc[q] = "remove" /\ pc' = pc /\ last' = last BY <1>10 DEF Unlink
  <2> QED BY <2>1 DEF Ready
<1>11. CASE Crash(q)
  BY <1>11 DEF TypeOK, Ready, Crash
<1>12. CASE Publish \/ UNCHANGED vars
  <2>1. UNCHANGED <<pc, last, plat, jar, content>> BY <1>12 DEF Publish, vars, files, local
  <2> QED BY <2>1 DEF Ready, JarOf, Revision
<1>13. CASE LookupFails(q) \/ DownloadFails(q) \/ CreateFails(q) \/ MetaFails(q) \/ CopyFails(q)
            \/ WriteMeta(q) \/ RemoveEnds(q)
  <2>1. \E r : Return(q, r)
    BY <1>13 DEF LookupFails, DownloadFails, CreateFails, MetaFails, CopyFails, WriteMeta, RemoveEnds
  <2> QED BY <1>3, <2>1
<1> QED BY <1>1, <1>2, <1>4, <1>5, <1>6, <1>7, <1>8, <1>9, <1>10, <1>11, <1>12, <1>13
        DEF Next, FetchStep

(* A step that reports success wrote the record of the jar that is there. *)
LEMMA SuccessIsReady ==
  ASSUME NEW q, Proc = {q}, TypeOK, Ready(q), [Next]_vars,
         pc[q] # "idle", last'[q] = "fetched"
  PROVE  Path' /\ content'[jar'] = JarOf(plat[q]) /\ meta' = plat[q]
<1> USE SdkAssumption
<1>0. last \in [Proc -> Results] /\ q \in Proc /\ last[q] = "none" BY DEF TypeOK, Ready
<1>1. CASE WriteMeta(q)
  <2>1. pc[q] = "meta" /\ meta' = plat[q] /\ jar' = jar /\ content' = content
    BY <1>1 DEF WriteMeta
  <2>2. plat[q] \in Revision /\ jar # 0 /\ content[jar] = JarOf(plat[q]) BY <2>1 DEF Ready
  <2>3. plat[q] # 0 BY <2>2 DEF Revision
  <2> QED BY <2>1, <2>2, <2>3 DEF Path
<1>2. ASSUME NEW r, r # "fetched", Return(q, r) PROVE FALSE
  BY <1>0, <1>2 DEF Return
<1>3. CASE UNCHANGED last BY <1>0, <1>3
<1>4. CASE Crash(q) BY <1>0, <1>4 DEF Crash
<1>5. ~(\E force \in BOOLEAN : Fetch(q, force)) /\ ~Remove(q) BY DEF Fetch, Remove
<1>6. CASE Verify(q) BY <1>2, <1>3, <1>6 DEF Verify
<1>7. CASE Rename(q) BY <1>2, <1>3, <1>7 DEF Rename
<1>8. CASE LookupFails(q) \/ DownloadFails(q) \/ CreateFails(q) \/ MetaFails(q) \/ CopyFails(q)
           \/ RemoveEnds(q)
  <2>1. Return(q, "error") \/ Return(q, "removed")
    BY <1>8 DEF LookupFails, DownloadFails, CreateFails, MetaFails, CopyFails, RemoveEnds
  <2> QED BY <1>2, <2>1
<1>9. CASE Lookup(q) \/ Download(q) \/ CreateTemp(q) \/ Copy(q) \/ Unlink(q) \/ Publish \/ UNCHANGED vars
  <2>1. UNCHANGED last BY <1>9 DEF Lookup, Download, CreateTemp, Copy, Unlink, Publish, vars
  <2> QED BY <1>3, <2>1
<1> QED BY <1>1, <1>4, <1>5, <1>6, <1>7, <1>8, <1>9 DEF Next, FetchStep

(* With one process at a time, a Fetch that reports success leaves a record *)
(* and a jar of exactly the revision it looked up, whatever earlier calls   *)
(* and kills left behind (Fetch, extractStub, writeMeta).                   *)
THEOREM SuccessIsUsable ==
  ASSUME NEW CONSTANT q, Proc = {q}
  PROVE  Spec => FetchedIsUsable
<1>1. Init => Sound(q) /\ Ready(q)
  BY DEF Init, Sound, Ready
<1>2. TypeOK /\ TypeOK' /\ Sound(q) /\ [Next]_vars => Sound(q)'
  BY SoundStep
<1>3. TypeOK /\ Sound(q) /\ Ready(q) /\ [Next]_vars => Ready(q)'
  BY ReadyStep
<1>4. TypeOK /\ Ready(q) /\ [Next]_vars =>
        [\A p \in Proc : pc[p] # "idle" /\ last'[p] = "fetched"
           => Path' /\ content'[jar'] = [k \in 1..Chunks |-> plat[p]] /\ meta' = plat[p]]_vars
  BY SuccessIsReady DEF JarOf
<1> QED BY <1>1, <1>2, <1>3, <1>4, CacheTypes, PTL DEF Spec, FetchedIsUsable
=============================================================================

------------------------------- MODULE Persist ------------------------------
(***************************************************************************)
(* How the answer cache reaches cache.json and comes back: the saves of    *)
(* save_cache_to_disk_sync, run by the 120-second task and by the shutdown *)
(* path of src/main.rs, and load_cache_from_disk at start-up.              *)
(*                                                                         *)
(* A name is bound to an inode; a save writes through the descriptor it    *)
(* opened, whatever the name is bound to by then.  Both savers use the one *)
(* name cache.tmp.  A document is Chunks write calls long, all but the     *)
(* last made while serializing, the last by the drop of the BufWriter,     *)
(* whose error nobody sees.  A document counts as readable exactly when    *)
(* all its chunks come from one save.                                      *)
(*                                                                         *)
(* The engine is the environment: it inserts entries at any time.          *)
(***************************************************************************)
EXTENDS DnsTtl

CONSTANTS
  Keys,
  Savers,       \* subset of {"periodic", "shutdown"}
  Inodes,       \* enough that a free one always exists
  Chunks,       \* write calls per document
  Ttls,         \* effective TTLs the engine stores
  OldDocs,      \* documents an older run may have left in cache.json
  FlushMayFail, \* whether the last write may be lost unnoticed
  MaxTime,      \* bound of the model: the clock stops here
  MaxBoots,     \* bound of the model: restarts
  None          \* no entry, no file, nothing written there

\* What persistence reads of a stored entry; `verdict` says whether its DNSSEC
\* status was recorded, which older versions did not do.
Entry == [minTtl : Nat, cachedAt : Nat, verdict : BOOLEAN]
Doc   == [Keys -> Entry \cup {None}]
Chunk == [by : Savers \cup {"old"}, doc : Doc]
File  == [1 .. Chunks -> Chunk \cup {None}]

ASSUME PersistAssumption ==
  /\ Savers \subseteq {"periodic", "shutdown"}
  /\ Chunks \in Nat \ {0}
  /\ Ttls \subseteq Nat
  /\ OldDocs \subseteq Doc
  /\ FlushMayFail \in BOOLEAN
  /\ None \notin Entry /\ None \notin Chunk /\ None \notin Inodes

VARIABLES
  now,      \* now_secs()
  mem,      \* the cache in memory
  file,     \* contents of every inode
  tmp,      \* inode named cache.tmp, or None
  json,     \* inode named cache.json, or None
  spc,      \* per saver: "idle", "collect", "write", "rename", "ended"
  fd,       \*   the inode it writes
  began,    \*   the clock its staleness test uses
  todo,     \*   keys it has still to visit
  snap,     \*   what it has collected
  pos,      \*   the next chunk it writes
  boots,    \* restarts so far
  alone,    \* history: savers no other save has overlapped so far
  touched,  \* history: per saver, keys inserted since its save began
  suspect,  \* history: the published file may come from an overlapped save,
            \*   or from one that lost its last write
  published \* history: unless it is suspect, what was collected for it

saveVars == <<spc, fd, began, todo, snap, pos>>
ghosts   == <<alone, touched, suspect, published>>
vars     == <<now, mem, file, tmp, json, saveVars, boots, ghosts>>

Empty     == [k \in Keys |-> None]
Blank     == [i \in 1 .. Chunks |-> None]
Active    == {s \in Savers : spc[s] \notin {"idle", "ended"}}
Whole(f)  == f[1] # None /\ \A i \in 1 .. Chunks : f[i] = f[1]
Expired(e, t) == Freshness(e, t) = "Expired"

-----------------------------------------------------------------------------
\* load_cache_from_disk: an unreadable file yields nothing; an entry without a
\* status, or past its stale window, is left behind.
Loaded(f) ==
  IF ~ Whole(f) THEN Empty
  ELSE [k \in Keys |->
         LET e == f[1].doc[k]
         IN  IF e # None /\ e.verdict /\ ~ Expired(e, now) THEN e ELSE None]

\* What a start may begin with: an existing file may fail to open.
Starts == {Empty} \cup IF json = None THEN {} ELSE {Loaded(file[json])}

\* The process starts on an empty disk, or over the file of an older run.
Init ==
  /\ now = 0
  /\ boots = 0
  /\ tmp = None
  /\ \/ json = None /\ file = [n \in Inodes |-> Blank] /\ published = Empty
     \/ \E n \in Inodes, d \in OldDocs :
          /\ json = n
          /\ published = d
          /\ file = [m \in Inodes |->
                      IF m = n THEN [i \in 1 .. Chunks |-> [by |-> "old", doc |-> d]]
                      ELSE Blank]
  /\ mem \in Starts
  /\ spc = [s \in Savers |-> "idle"]
  /\ fd = [s \in Savers |-> None]
  /\ began = [s \in Savers |-> 0]
  /\ todo = [s \in Savers |-> {}]
  /\ snap = [s \in Savers |-> Empty]
  /\ pos = [s \in Savers |-> 1]
  /\ alone = {}
  /\ touched = [s \in Savers |-> {}]
  /\ suspect = FALSE

Tick ==
  /\ now < MaxTime
  /\ now' = now + 1
  /\ UNCHANGED <<mem, file, tmp, json, saveVars, boots, ghosts>>

\* The engine stores a conclusive answer.
Insert(k) ==
  /\ \E ttl \in Ttls :
       mem' = [mem EXCEPT ![k] = [minTtl |-> ttl, cachedAt |-> now, verdict |-> TRUE]]
  /\ touched' = [s \in Savers |-> IF s \in Active THEN touched[s] \cup {k} ELSE {}]
  /\ UNCHANGED <<now, file, tmp, json, saveVars, boots, alone, suspect, published>>

-----------------------------------------------------------------------------
(* One save *)

\* Save s is over: the periodic task waits for its next tick, the process is
\* about to exit after the other.
EndSave(s) ==
  /\ spc' = [spc EXCEPT ![s] = IF s = "shutdown" THEN "ended" ELSE "idle"]
  /\ fd' = [fd EXCEPT ![s] = None]
  /\ snap' = [snap EXCEPT ![s] = Empty]
  /\ pos' = [pos EXCEPT ![s] = 1]
  /\ began' = [began EXCEPT ![s] = 0]
  /\ touched' = [touched EXCEPT ![s] = {}]

\* With a mistake: the document is written over cache.json in place.
CreateInPlace(s) ==
  /\ spc[s] = "idle"
  /\ \E n \in Inodes :
       /\ IF json # None THEN n = json ELSE n # tmp /\ \A o \in Active : fd[o] # n
       /\ json' = n
       /\ file' = [file EXCEPT ![n] = Blank]
       /\ fd' = [fd EXCEPT ![s] = n]
  /\ spc' = [spc EXCEPT ![s] = "collect"]
  /\ began' = [began EXCEPT ![s] = now]
  /\ todo' = [todo EXCEPT ![s] = Keys]
  /\ snap' = [snap EXCEPT ![s] = Empty]
  /\ pos' = [pos EXCEPT ![s] = 1]
  /\ alone' = IF Active = {} THEN {s} ELSE {}
  /\ touched' = [touched EXCEPT ![s] = {}]
  /\ UNCHANGED <<now, mem, tmp, boots, suspect, published>>

\* File::create: truncates the inode cache.tmp names, or makes a new one; then
\* the clock is read.
Create(s) ==
  /\ spc[s] = "idle"
  /\ \E n \in Inodes :
       /\ IF tmp # None THEN n = tmp
          ELSE n # json /\ \A o \in Active : fd[o] # n
       /\ tmp' = n
       /\ file' = [file EXCEPT ![n] = Blank]
       /\ fd' = [fd EXCEPT ![s] = n]
  /\ spc' = [spc EXCEPT ![s] = "collect"]
  /\ began' = [began EXCEPT ![s] = now]
  /\ todo' = [todo EXCEPT ![s] = Keys]
  /\ snap' = [snap EXCEPT ![s] = Empty]
  /\ pos' = [pos EXCEPT ![s] = 1]
  /\ alone' = IF Active = {} THEN {s} ELSE {}
  /\ touched' = [touched EXCEPT ![s] = {}]
  /\ UNCHANGED <<now, mem, json, boots, suspect, published>>

\* File::create fails: there is no save this time.
CreateFail(s) ==
  /\ spc[s] = "idle"
  /\ EndSave(s)
  /\ UNCHANGED <<now, mem, file, tmp, json, todo, boots, alone, suspect, published>>

\* An inode without a name or a descriptor is gone.
Reclaim(f) ==
  [n \in Inodes |-> IF n = tmp' \/ n = json' \/ \E s \in Savers : fd'[s] = n
                   THEN f[n] ELSE Blank]

\* With a mistake: only fresh entries are written.
CollectFresh(s) ==
  /\ spc[s] = "collect"
  /\ \E k \in todo[s] :
       /\ snap' = [snap EXCEPT ![s][k] =
                    IF mem[k] # None /\ Freshness(mem[k], began[s]) = "Fresh"
                    THEN mem[k] ELSE None]
       /\ todo' = [todo EXCEPT ![s] = @ \ {k}]
  /\ spc' = [spc EXCEPT ![s] = IF todo'[s] = {} THEN "write" ELSE "collect"]
  /\ UNCHANGED <<now, mem, file, tmp, json, fd, began, pos, boots, ghosts>>

\* The iteration visits the live map key by key, in no particular order.
Collect(s) ==
  /\ spc[s] = "collect"
  /\ \E k \in todo[s] :
       /\ snap' = [snap EXCEPT ![s][k] =
                    IF mem[k] # None /\ ~ Expired(mem[k], began[s]) THEN mem[k] ELSE None]
       /\ todo' = [todo EXCEPT ![s] = @ \ {k}]
  /\ spc' = [spc EXCEPT ![s] = IF todo'[s] = {} THEN "write" ELSE "collect"]
  /\ UNCHANGED <<now, mem, file, tmp, json, fd, began, pos, boots, ghosts>>

\* With a mistake: the end of the document is noticed one write too late.
WritePastEnd(s) ==
  /\ spc[s] = "write"
  /\ file' = IF pos[s] <= Chunks
             THEN [file EXCEPT ![fd[s]][pos[s]] = [by |-> s, doc |-> snap[s]]] ELSE file
  /\ pos' = [pos EXCEPT ![s] = @ + 1]
  /\ spc' = [spc EXCEPT ![s] = IF pos[s] > Chunks THEN "rename" ELSE "write"]
  /\ UNCHANGED <<now, mem, tmp, json, fd, began, todo, snap, boots, ghosts>>

Write(s) ==
  /\ spc[s] = "write"
  /\ file' = [file EXCEPT ![fd[s]][pos[s]] = [by |-> s, doc |-> snap[s]]]
  /\ pos' = [pos EXCEPT ![s] = @ + 1]
  /\ spc' = [spc EXCEPT ![s] = IF pos[s] = Chunks THEN "rename" ELSE "write"]
  /\ UNCHANGED <<now, mem, tmp, json, fd, began, todo, snap, boots, ghosts>>

\* A write error met while serializing abandons the save.
WriteFail(s) ==
  /\ spc[s] = "write"
  /\ pos[s] < Chunks
  /\ EndSave(s)
  /\ UNCHANGED <<tmp, json>>
  /\ file' = Reclaim(file)
  /\ UNCHANGED <<now, mem, todo, boots, alone, suspect, published>>

\* The drop of the BufWriter ignores the error of the last write.
FlushLost(s) ==
  /\ FlushMayFail
  /\ spc[s] = "write"
  /\ pos[s] = Chunks
  /\ spc' = [spc EXCEPT ![s] = "rename"]
  /\ alone' = alone \ {s}
  /\ UNCHANGED <<now, mem, file, tmp, json, fd, began, todo, snap, pos, boots, touched, suspect,
                 published>>

\* cache.tmp, whatever it names by now, becomes cache.json.
Rename(s) ==
  /\ spc[s] = "rename"
  /\ tmp # None
  /\ json' = tmp
  /\ tmp' = None
  /\ suspect' = (s \notin alone)
  /\ published' = IF s \in alone THEN snap[s] ELSE Empty
  /\ EndSave(s)
  /\ file' = Reclaim(file)
  /\ UNCHANGED <<now, mem, todo, boots, alone>>

\* With a mistake: the old file is removed to make room for the new one.
RenameFailUnlinks(s) ==
  /\ spc[s] = "rename"
  /\ EndSave(s)
  /\ json' = None
  /\ UNCHANGED tmp
  /\ file' = Reclaim(file)
  /\ UNCHANGED <<now, mem, todo, boots, alone, suspect, published>>

\* fs::rename fails, as it does without a cache.tmp: cache.tmp is left behind and
\* cache.json is what it was.
RenameFail(s) ==
  /\ spc[s] = "rename"
  /\ EndSave(s)
  /\ UNCHANGED <<tmp, json>>
  /\ file' = Reclaim(file)
  /\ UNCHANGED <<now, mem, todo, boots, alone, suspect, published>>

\* The process dies, or exits, at any moment and starts again.
Restart ==
  /\ boots < MaxBoots
  /\ boots' = boots + 1
  /\ mem' \in Starts
  /\ spc' = [s \in Savers |-> "idle"]
  /\ fd' = [s \in Savers |-> None]
  /\ began' = [s \in Savers |-> 0]
  /\ todo' = [s \in Savers |-> {}]
  /\ snap' = [s \in Savers |-> Empty]
  /\ pos' = [s \in Savers |-> 1]
  /\ alone' = {}
  /\ touched' = [s \in Savers |-> {}]
  /\ UNCHANGED <<now, tmp, json, suspect, published>>
  /\ file' = Reclaim(file)

SaveStep(s) ==
  \/ Create(s) \/ CreateFail(s)
  \/ Collect(s)
  \/ Write(s) \/ WriteFail(s) \/ FlushLost(s)
  \/ Rename(s) \/ RenameFail(s)

Next ==
  \/ Tick
  \/ \E k \in Keys : Insert(k)
  \/ \E s \in Savers : SaveStep(s)
  \/ Restart

Spec == Init /\ [][Next]_vars

-----------------------------------------------------------------------------
(* Properties *)

TypeOK ==
  /\ now \in Nat /\ boots \in Nat
  /\ mem \in [Keys -> Entry \cup {None}]
  /\ file \in [Inodes -> File]
  /\ tmp \in Inodes \cup {None} /\ json \in Inodes \cup {None}
  /\ spc \in [Savers -> {"idle", "collect", "write", "rename", "ended"}]
  /\ fd \in [Savers -> Inodes \cup {None}]
  /\ began \in [Savers -> Nat]
  /\ todo \in [Savers -> SUBSET Keys]
  /\ snap \in [Savers -> Doc]
  /\ pos \in [Savers -> 1 .. Chunks + 1]
  /\ alone \in SUBSET Savers
  /\ touched \in [Savers -> SUBSET Keys]
  /\ suspect \in BOOLEAN
  /\ published \in Doc

\* cache.json, once there, is one whole document.
DiskWhole == json # None => Whole(file[json])

\* README: "Persistence uses an atomic temporary-file write followed by
\* rename".  The file is a whole document unless two saves overlapped, or one lost its
\* last write, the last time it was published; the next save that runs alone
\* repairs it, whatever crashes and failed saves came before.
TornOnlyByOverlap == ~ suspect /\ Active \subseteq alone => DiskWhole

\* A save that runs alone and ends with something published has published every
\* entry that was in the cache, inside its stale window, from its beginning to its
\* end, although the map is visited key by key while the engine writes to it.
SavedCompletely ==
  [][\A s \in Savers :
       s \in alone /\ spc[s] = "rename" /\ spc'[s] # "rename" /\ json' # json =>
         \A k \in Keys \ touched[s] :
           mem[k] # None /\ ~ Expired(mem[k], began[s]) =>
             json' # None /\ file'[json'][1].doc[k] = mem[k]]_vars

Usable(e) == e # None /\ e.verdict /\ ~ Expired(e, now)

\* A restart brings back what was published last, each entry of it that may still be
\* served and no other, unless the file is there and cannot be opened: neither the
\* saves that crashed or failed since, wherever they did, nor the cache.tmp they left
\* have taken anything from it or added anything to it.
RestartRecovers ==
  [][boots' # boots /\ ~ suspect =>
       \/ json # None /\ mem' = Empty
       \/ \A k \in Keys : mem'[k] = IF Usable(published[k]) THEN published[k] ELSE None]_vars
=============================================================================

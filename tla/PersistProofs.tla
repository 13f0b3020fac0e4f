---------------------------- MODULE PersistProofs ---------------------------
(***************************************************************************)
(* What the cache file guarantees for every set of keys and savers, every  *)
(* length of a document, and crashes and lost writes at every point.       *)
(***************************************************************************)
EXTENDS Persist, TLAPS

-----------------------------------------------------------------------------
(* The invariant *)

Saving == {"collect", "write", "rename"}

\* A save that is under way has an open file and a place in its document.
Under(s) ==
  /\ spc[s] \in Saving => fd[s] \in Inodes
  /\ spc[s] = "collect" => pos[s] = 1
  /\ spc[s] = "write" => pos[s] <= Chunks
  /\ spc[s] \in {"write", "rename"} => todo[s] = {}

\* What a save that nobody has overlapped has collected and written.
Undisturbed(s) ==
  s \in alone /\ spc[s] \in Saving =>
    /\ Active = {s}
    /\ tmp = fd[s]
    /\ \A i \in 1 .. pos[s] - 1 : file[fd[s]][i] = [by |-> s, doc |-> snap[s]]
    /\ spc[s] = "rename" => pos[s] = Chunks + 1
    /\ \A k \in Keys \ (todo[s] \cup touched[s]) :
         mem[k] # None /\ ~ Expired(mem[k], began[s]) => snap[s][k] = mem[k]

\* The two names are of different files, and what is published is whole, what was
\* collected for it, and nobody's to write, unless it is suspect.
OnDisk ==
  /\ tmp # None => tmp # json
  /\ ~ suspect => /\ DiskWhole
                  /\ published = IF json = None THEN Empty ELSE file[json][1].doc
                  /\ \A s \in Active : fd[s] # json

Lone == \A s, o \in alone : s = o

IInv ==
  /\ TypeOK
  /\ OnDisk
  /\ Lone
  /\ \A s \in Savers : Under(s) /\ Undisturbed(s)

LEMMA SavingIsActive ==
  ASSUME TypeOK, NEW s \in Savers
  PROVE  s \in Active <=> spc[s] \in Saving
BY DEF TypeOK, Active, Saving

\* While one save is under way, no other is left alone.
LEMMA OthersOverlapped ==
  ASSUME IInv, NEW s \in Active, NEW o \in Savers, o # s,
         spc'[o] = spc[o], alone' \subseteq alone
  PROVE  Undisturbed(o)'
<1>1. ~ (o \in alone /\ spc[o] \in Saving)
  BY DEF IInv, Undisturbed
<1> QED
  BY <1>1 DEF Undisturbed

-----------------------------------------------------------------------------
(* Files and loads *)

\* What start-up takes from a file is typed, has verdicts, and has not expired.
LEMMA LoadedGood ==
  ASSUME NEW f \in File, NEW k \in Keys
  PROVE  /\ Loaded(f) \in [Keys -> Entry \cup {None}]
         /\ Loaded(f)[k] # None => Loaded(f)[k].verdict /\ ~ Expired(Loaded(f)[k], now)
<1>1. CASE ~ Whole(f)
  BY <1>1 DEF Loaded, Empty
<1>2. CASE Whole(f)
  <2>1. 1 \in 1 .. Chunks
    BY PersistAssumption
  <2>2. f[1].doc \in [Keys -> Entry \cup {None}]
    BY <1>2, <2>1 DEF Whole, File, Chunk, Doc
  <2>3. Loaded(f) = [x \in Keys |->
          IF f[1].doc[x] # None /\ f[1].doc[x].verdict /\ ~ Expired(f[1].doc[x], now)
          THEN f[1].doc[x] ELSE None]
    BY <1>2 DEF Loaded
  <2> QED
    BY <2>2, <2>3
<1> QED
  BY <1>1, <1>2

LEMMA StartsGood ==
  ASSUME file \in [Inodes -> File], json \in Inodes \cup {None},
         NEW m \in Starts, NEW k \in Keys
  PROVE  /\ m \in [Keys -> Entry \cup {None}]
         /\ m[k] # None => m[k].verdict /\ ~ Expired(m[k], now)
<1>1. CASE m = Empty
  BY <1>1 DEF Empty
<1>2. CASE m # Empty
  <2>1. json # None /\ m = Loaded(file[json])
    BY <1>2 DEF Starts
  <2> QED
    BY <2>1, LoadedGood
<1> QED
  BY <1>1, <1>2

LEMMA BlankIsFile == Blank \in File
BY DEF Blank, File

\* Reclaiming spares the files with a name.
LEMMA ReclaimKeeps ==
  ASSUME file \in [Inodes -> File]
  PROVE  /\ Reclaim(file) \in [Inodes -> File]
         /\ \A n \in Inodes : n = json' => Reclaim(file)[n] = file[n]
BY BlankIsFile DEF Reclaim

-----------------------------------------------------------------------------
(* Types *)

LEMMA InitInv == Init => IInv
<1> SUFFICES ASSUME Init PROVE IInv
  OBVIOUS
<1>1. /\ file \in [Inodes -> File] /\ json \in Inodes \cup {None} /\ DiskWhole
      /\ published = IF json = None THEN Empty ELSE file[json][1].doc
      /\ published \in Doc
  <2>1. CASE json = None /\ file = [n \in Inodes |-> Blank] /\ published = Empty
    BY <2>1, BlankIsFile DEF DiskWhole, Empty, Doc
  <2>2. CASE \E n \in Inodes, d \in OldDocs :
               /\ json = n
               /\ published = d
               /\ file = [m \in Inodes |->
                      IF m = n THEN [i \in 1 .. Chunks |-> [by |-> "old", doc |-> d]]
                      ELSE Blank]
    <3>1. PICK n \in Inodes, d \in OldDocs :
               /\ json = n
               /\ published = d
               /\ file = [m \in Inodes |->
                      IF m = n THEN [i \in 1 .. Chunks |-> [by |-> "old", doc |-> d]]
                      ELSE Blank]
      BY <2>2
    <3>2. [by |-> "old", doc |-> d] \in Chunk
      BY PersistAssumption DEF Chunk
    <3>3. [i \in 1 .. Chunks |-> [by |-> "old", doc |-> d]] \in File
      BY <3>2 DEF File
    <3>4. 1 \in 1 .. Chunks /\ [by |-> "old", doc |-> d] # None /\ n # None /\ d \in Doc
      BY <3>2, PersistAssumption
    <3>5. file[n] = [i \in 1 .. Chunks |-> [by |-> "old", doc |-> d]]
      BY <3>1
    <3>6. file[n][1].doc = d /\ file \in [Inodes -> File] /\ Whole(file[n])
      BY <3>1, <3>3, <3>4, <3>5, BlankIsFile DEF Whole
    <3> QED
      BY <3>1, <3>4, <3>6 DEF DiskWhole
  <2> QED
    BY <2>1, <2>2 DEF Init
<1>2. mem \in [Keys -> Entry \cup {None}]
  <2>1. mem \in Starts
    BY DEF Init
  <2>2. CASE Keys = {}
    BY <2>1, <2>2 DEF Starts, Empty, Loaded
  <2> QED
    BY <1>1, <2>1, <2>2, StartsGood
<1>3. Active = {}
  BY DEF Init, Active
<1>4. TypeOK
  <2>1. Empty \in Doc /\ 1 \in 1 .. Chunks + 1
    BY PersistAssumption DEF Empty, Doc
  <2>2. /\ now = 0 /\ boots = 0 /\ tmp = None /\ alone = {} /\ suspect = FALSE
        /\ spc = [s \in Savers |-> "idle"] /\ fd = [s \in Savers |-> None]
        /\ began = [s \in Savers |-> 0] /\ todo = [s \in Savers |-> {}]
        /\ snap = [s \in Savers |-> Empty] /\ pos = [s \in Savers |-> 1]
        /\ touched = [s \in Savers |-> {}]
    BY DEF Init
  <2> QED
    BY <1>1, <1>2, <2>1, <2>2 DEF TypeOK
<1> QED
  BY <1>1, <1>3, <1>4 DEF Init, IInv, OnDisk, Lone, Under, Undisturbed, Saving

-----------------------------------------------------------------------------
(* Steps that end no save *)

LEMMA TickStep == ASSUME IInv, Tick PROVE IInv'
BY DEF IInv, TypeOK, OnDisk, Lone, Under, Undisturbed, Tick, Active, DiskWhole,
       Whole, saveVars, ghosts

LEMMA InsertStep ==
  ASSUME IInv, NEW k \in Keys, Insert(k)
  PROVE  IInv'
<1>1. PICK ttl \in Ttls :
        mem' = [mem EXCEPT ![k] = [minTtl |-> ttl, cachedAt |-> now, verdict |-> TRUE]]
  BY DEF Insert
<1>2. [minTtl |-> ttl, cachedAt |-> now, verdict |-> TRUE] \in Entry
  BY PersistAssumption DEF Entry, IInv, TypeOK
<1>3. /\ touched' = [s \in Savers |-> IF s \in Active THEN touched[s] \cup {k} ELSE {}]
      /\ UNCHANGED <<now, file, tmp, json, spc, fd, began, todo, snap, pos, boots, alone, suspect, published>>
  BY DEF Insert, saveVars
<1>4. TypeOK'
  BY <1>1, <1>2, <1>3 DEF IInv, TypeOK
<1>5. Active' = Active
  BY <1>3 DEF Active
<1>6. \A x \in Keys : x # k => mem'[x] = mem[x]
  BY <1>1 DEF IInv, TypeOK
<1>7. ASSUME NEW s \in Savers PROVE Undisturbed(s)'
  <2>1. CASE s \in alone /\ spc[s] \in Saving
    <3>1. touched'[s] = touched[s] \cup {k}
      BY <1>3, <2>1, SavingIsActive DEF IInv
    <3>2. Undisturbed(s)
      BY DEF IInv
    <3> QED
      BY <1>3, <1>5, <1>6, <2>1, <3>1, <3>2 DEF Undisturbed
  <2>2. CASE ~ (s \in alone /\ spc[s] \in Saving)
    BY <1>3, <2>2 DEF Undisturbed
  <2> QED
    BY <2>1, <2>2
<1>8. ASSUME NEW s \in Savers PROVE Under(s)'
  BY <1>3 DEF IInv, Under
<1>9. OnDisk' /\ Lone'
  BY <1>3, <1>5 DEF IInv, OnDisk, Lone, DiskWhole, Whole
<1> QED
  BY <1>4, <1>7, <1>8, <1>9 DEF IInv

LEMMA CreateStep ==
  ASSUME IInv, NEW s \in Savers, Create(s)
  PROVE  IInv'
<1>1. PICK n \in Inodes :
        /\ IF tmp # None THEN n = tmp ELSE n # json /\ \A o \in Active : fd[o] # n
        /\ tmp' = n
        /\ file' = [file EXCEPT ![n] = Blank]
        /\ fd' = [fd EXCEPT ![s] = n]
  BY DEF Create
<1>2. /\ spc[s] = "idle"
      /\ spc' = [spc EXCEPT ![s] = "collect"]
      /\ began' = [began EXCEPT ![s] = now]
      /\ todo' = [todo EXCEPT ![s] = Keys]
      /\ snap' = [snap EXCEPT ![s] = Empty]
      /\ pos' = [pos EXCEPT ![s] = 1]
      /\ alone' = IF Active = {} THEN {s} ELSE {}
      /\ touched' = [touched EXCEPT ![s] = {}]
      /\ UNCHANGED <<now, mem, json, boots, suspect, published>>
  BY DEF Create
<1>3. Empty \in Doc /\ 1 \in 1 .. Chunks + 1 /\ 1 <= Chunks /\ None \notin Inodes
  BY PersistAssumption DEF Empty, Doc
<1>4. TypeOK'
  BY <1>1, <1>2, <1>3, BlankIsFile DEF IInv, TypeOK
<1>5. n # json /\ (json # None => file'[json] = file[json])
  BY <1>1, <1>3 DEF IInv, OnDisk, TypeOK
<1>6. Active' = Active \cup {s}
  BY <1>2 DEF IInv, TypeOK, Active
<1>7. OnDisk'
  <2>1. \A o \in Active' : o # s => o \in Active /\ fd'[o] = fd[o]
    BY <1>1, <1>6 DEF IInv, TypeOK, Active
  <2>2. fd'[s] = n
    BY <1>1 DEF IInv, TypeOK
  <2> QED
    BY <1>1, <1>2, <1>5, <2>1, <2>2 DEF IInv, OnDisk, DiskWhole, Whole
<1>8. Lone'
  BY <1>2 DEF Lone
<1>9. ASSUME NEW o \in Savers PROVE Under(o)'
  BY <1>1, <1>2, <1>3 DEF IInv, TypeOK, Under, Saving
<1>10. ASSUME NEW o \in Savers PROVE Undisturbed(o)'
  <2>1. CASE o \in alone'
    <3>1. o = s /\ Active = {}
      BY <1>2, <2>1
    <3>2. tmp' = n /\ fd'[s] = n /\ pos'[s] = 1 /\ spc'[s] = "collect" /\ todo'[s] = Keys
      BY <1>1, <1>2 DEF IInv, TypeOK
    <3> QED
      BY <1>6, <3>1, <3>2 DEF Undisturbed, Saving
  <2>2. CASE o \notin alone'
    BY <2>2 DEF Undisturbed
  <2> QED
    BY <2>1, <2>2
<1> QED
  BY <1>4, <1>7, <1>8, <1>9, <1>10 DEF IInv

LEMMA CreateFailStep ==
  ASSUME IInv, NEW s \in Savers, CreateFail(s)
  PROVE  IInv'
<1>1. /\ spc[s] = "idle"
      /\ spc' = [spc EXCEPT ![s] = IF s = "shutdown" THEN "ended" ELSE "idle"]
      /\ fd' = [fd EXCEPT ![s] = None]
      /\ snap' = [snap EXCEPT ![s] = Empty]
      /\ pos' = [pos EXCEPT ![s] = 1]
      /\ began' = [began EXCEPT ![s] = 0]
      /\ touched' = [touched EXCEPT ![s] = {}]
      /\ UNCHANGED <<now, mem, file, tmp, json, todo, boots, alone, suspect, published>>
  BY DEF CreateFail, EndSave
<1>2. Empty \in Doc /\ 1 \in 1 .. Chunks + 1
  BY PersistAssumption DEF Empty, Doc
<1>3. TypeOK'
  BY <1>1, <1>2 DEF IInv, TypeOK
<1>4. /\ spc'[s] \in {"idle", "ended"}
      /\ \A o \in Savers : o # s =>
           /\ spc'[o] = spc[o] /\ fd'[o] = fd[o] /\ snap'[o] = snap[o] /\ pos'[o] = pos[o]
           /\ began'[o] = began[o] /\ touched'[o] = touched[o]
  BY <1>1 DEF IInv, TypeOK
<1>5. Active' = Active /\ s \notin Active
  BY <1>1, <1>4 DEF Active
<1>6. \A o \in Active : fd'[o] = fd[o]
  BY <1>4, <1>5 DEF Active
<1>7. OnDisk' /\ Lone'
  BY <1>1, <1>5, <1>6 DEF IInv, OnDisk, Lone, DiskWhole, Whole
<1>8. ASSUME NEW o \in Savers PROVE Under(o)' /\ Undisturbed(o)'
  <2>1. CASE o = s
    BY <1>4, <2>1 DEF Under, Undisturbed, Saving
  <2>2. CASE o # s
    BY <1>1, <1>4, <1>5, <2>2 DEF IInv, Under, Undisturbed
  <2> QED
    BY <2>1, <2>2
<1> QED
  BY <1>3, <1>7, <1>8 DEF IInv

LEMMA CollectStep ==
  ASSUME IInv, NEW s \in Savers, Collect(s)
  PROVE  IInv'
<1>1. PICK k \in todo[s] :
        /\ snap' = [snap EXCEPT ![s][k] =
                     IF mem[k] # None /\ ~ Expired(mem[k], began[s]) THEN mem[k] ELSE None]
        /\ todo' = [todo EXCEPT ![s] = @ \ {k}]
  BY DEF Collect
<1>2. /\ spc[s] = "collect"
      /\ spc' = [spc EXCEPT ![s] = IF todo'[s] = {} THEN "write" ELSE "collect"]
      /\ UNCHANGED <<now, mem, file, tmp, json, fd, began, pos, boots, alone, touched, suspect, published>>
  BY DEF Collect, ghosts
<1>3. k \in Keys
  BY <1>1 DEF IInv, TypeOK
<1>4. /\ snap'[s] = [snap[s] EXCEPT ![k] =
           IF mem[k] # None /\ ~ Expired(mem[k], began[s]) THEN mem[k] ELSE None]
      /\ \A o \in Savers : o # s => snap'[o] = snap[o] /\ todo'[o] = todo[o] /\ spc'[o] = spc[o]
      /\ todo'[s] = todo[s] \ {k}
      /\ spc'[s] = IF todo'[s] = {} THEN "write" ELSE "collect"
  BY <1>1, <1>2 DEF IInv, TypeOK
<1>5. TypeOK'
  <2>1. snap'[s] \in Doc
    BY <1>3, <1>4 DEF IInv, TypeOK, Doc
  <2>2. snap' \in [Savers -> Doc]
    BY <1>1, <2>1 DEF IInv, TypeOK
  <2> QED
    BY <1>1, <1>2, <2>2 DEF IInv, TypeOK
<1>6. Active' = Active
  BY <1>2, <1>4 DEF Active
<1>7. OnDisk' /\ Lone'
  BY <1>2, <1>6 DEF IInv, OnDisk, Lone, DiskWhole, Whole
<1>8. ASSUME NEW o \in Savers PROVE Under(o)'
  <2>1. 1 <= Chunks
    BY PersistAssumption
  <2> QED
    BY <1>2, <1>4, <2>1 DEF IInv, Under, Saving
<1>9. ASSUME NEW o \in Savers PROVE Undisturbed(o)'
  <2>1. CASE o = s
    <3>1. Undisturbed(s) /\ pos[s] = 1
      BY <1>2 DEF IInv, Under
    <3>2. \A x \in Keys : x # k => snap'[s][x] = snap[s][x]
      BY <1>4 DEF IInv, TypeOK, Doc
    <3>3. mem[k] # None /\ ~ Expired(mem[k], began[s]) => snap'[s][k] = mem[k]
      BY <1>3, <1>4 DEF IInv, TypeOK, Doc
    <3>4. spc'[s] # "rename" /\ spc[s] \in Saving
      BY <1>2, <1>4 DEF Saving
    <3>5. pos'[s] = 1 /\ 1 .. pos'[s] - 1 = {}
      BY <1>2, <3>1
    <3>6. ASSUME s \in alone, NEW x \in Keys \ (todo'[s] \cup touched'[s]),
                 mem'[x] # None, ~ Expired(mem[x], began[s])
          PROVE  snap'[s][x] = mem'[x]
      <4>1. x # k => x \in Keys \ (todo[s] \cup touched[s])
        BY <1>2, <1>4
      <4> QED
        BY <1>2, <3>1, <3>2, <3>3, <3>4, <3>6, <4>1 DEF Undisturbed
    <3>7. s \in alone => Active' = {s} /\ tmp' = fd'[s]
      BY <1>2, <1>6, <3>1, <3>4 DEF Undisturbed
    <3> QED
      BY <1>2, <2>1, <3>4, <3>5, <3>6, <3>7 DEF Undisturbed
  <2>2. CASE o # s
    <3>1. s \in Active
      BY <1>2 DEF Active
    <3> QED
      BY <1>2, <1>4, <2>2, <3>1, OthersOverlapped
  <2> QED
    BY <2>1, <2>2
<1> QED
  BY <1>5, <1>7, <1>8, <1>9 DEF IInv

LEMMA WriteStep ==
  ASSUME IInv, NEW s \in Savers, Write(s)
  PROVE  IInv'
<1> DEFINE chunk == [by |-> s, doc |-> snap[s]]
<1>1. /\ spc[s] = "write"
      /\ file' = [file EXCEPT ![fd[s]][pos[s]] = chunk]
      /\ pos' = [pos EXCEPT ![s] = pos[s] + 1]
      /\ spc' = [spc EXCEPT ![s] = IF pos[s] = Chunks THEN "rename" ELSE "write"]
      /\ UNCHANGED <<now, mem, tmp, json, fd, began, todo, snap, boots, alone, touched, suspect, published>>
  BY DEF Write, ghosts
<1>2. fd[s] \in Inodes /\ pos[s] \in 1 .. Chunks /\ chunk \in Chunk /\ Chunks \in Nat
      /\ s \in Active /\ todo[s] = {}
  BY <1>1, PersistAssumption DEF IInv, TypeOK, Under, Saving, Chunk, Active
<1>3. /\ file[fd[s]] \in File
      /\ file'[fd[s]] = [file[fd[s]] EXCEPT ![pos[s]] = chunk]
      /\ \A n \in Inodes : n # fd[s] => file'[n] = file[n]
  BY <1>1, <1>2 DEF IInv, TypeOK
<1>4. TypeOK'
  <2>1. file' \in [Inodes -> File]
    <3>1. file'[fd[s]] \in File
      BY <1>2, <1>3 DEF File
    <3> QED
      BY <1>1, <1>2, <3>1 DEF IInv, TypeOK
  <2>2. pos[s] + 1 \in 1 .. Chunks + 1
    BY <1>2
  <2> QED
    BY <1>1, <2>1, <2>2 DEF IInv, TypeOK
<1>5. Active' = Active
  BY <1>1 DEF IInv, TypeOK, Active
<1>6. OnDisk' /\ Lone'
  <2>1. ~ suspect /\ json # None => file'[json] = file[json]
    BY <1>2, <1>3 DEF IInv, TypeOK, OnDisk
  <2> QED
    BY <1>1, <1>5, <2>1 DEF IInv, OnDisk, Lone, DiskWhole, Whole
<1>7. spc'[s] = (IF pos[s] = Chunks THEN "rename" ELSE "write") /\ pos'[s] = pos[s] + 1
      /\ \A o \in Savers : o # s => spc'[o] = spc[o] /\ pos'[o] = pos[o]
  BY <1>1 DEF IInv, TypeOK
<1>8. ASSUME NEW o \in Savers PROVE Under(o)'
  <2>1. CASE o = s
    BY <1>1, <1>2, <1>7, <2>1 DEF Under
  <2>2. CASE o # s
    BY <1>1, <1>7, <2>2 DEF IInv, Under
  <2> QED
    BY <2>1, <2>2
<1>9. ASSUME NEW o \in Savers PROVE Undisturbed(o)'
  <2>1. CASE o = s
    <3>1. Undisturbed(s) /\ spc[s] \in Saving
      BY <1>1 DEF IInv, Saving
    <3>2. ASSUME s \in alone, NEW i \in 1 .. pos'[s] - 1
          PROVE  file'[fd[s]][i] = chunk
      <4>1. CASE i = pos[s]
        BY <1>2, <1>3, <4>1 DEF File
      <4>2. CASE i # pos[s]
        <5>1. i \in 1 .. pos[s] - 1 /\ i \in 1 .. Chunks
          BY <1>2, <1>7, <4>2
        <5> QED
          BY <1>2, <1>3, <3>1, <3>2, <4>2, <5>1 DEF Undisturbed, File
      <4> QED
        BY <4>1, <4>2
    <3>3. spc'[s] = "rename" => pos'[s] = Chunks + 1
      BY <1>7
    <3> QED
      BY <1>1, <1>5, <2>1, <3>1, <3>2, <3>3 DEF Undisturbed
  <2>2. CASE o # s
    BY <1>1, <1>2, <1>7, <2>2, OthersOverlapped
  <2> QED
    BY <2>1, <2>2
<1> QED
  BY <1>4, <1>6, <1>8, <1>9 DEF IInv

LEMMA FlushLostStep ==
  ASSUME IInv, NEW s \in Savers, FlushLost(s)
  PROVE  IInv'
<1>1. /\ spc[s] = "write"
      /\ spc' = [spc EXCEPT ![s] = "rename"]
      /\ alone' = alone \ {s}
      /\ UNCHANGED <<now, mem, file, tmp, json, fd, began, todo, snap, pos, boots, touched, suspect, published>>
  BY DEF FlushLost
<1>2. TypeOK'
  BY <1>1 DEF IInv, TypeOK
<1>3. Active' = Active /\ s \in Active
  BY <1>1 DEF IInv, TypeOK, Active
<1>4. OnDisk' /\ Lone'
  BY <1>1, <1>3 DEF IInv, OnDisk, Lone, DiskWhole, Whole
<1>5. spc'[s] = "rename" /\ \A o \in Savers : o # s => spc'[o] = spc[o]
  BY <1>1 DEF IInv, TypeOK
<1>6. ASSUME NEW o \in Savers PROVE Under(o)'
  BY <1>1, <1>5 DEF IInv, Under, Saving
<1>7. ASSUME NEW o \in Savers PROVE Undisturbed(o)'
  <2>1. CASE o = s
    BY <1>1, <2>1 DEF Undisturbed
  <2>2. CASE o # s
    BY <1>1, <1>3, <1>5, <2>2, OthersOverlapped
  <2> QED
    BY <2>1, <2>2
<1> QED
  BY <1>2, <1>4, <1>6, <1>7 DEF IInv

-----------------------------------------------------------------------------
(* The end of a save *)

\* The parts of the invariant about savers, when one of them ends.
LEMMA EndStep ==
  ASSUME IInv, NEW s \in Savers, spc[s] \in Saving, EndSave(s),
         tmp' \in Inodes \cup {None}, json' \in Inodes \cup {None}, suspect' \in BOOLEAN,
         published' \in Doc, file' = Reclaim(file),
         UNCHANGED <<now, mem, todo, boots, alone>>
  PROVE  /\ TypeOK' /\ Lone'
         /\ Active' = Active \ {s}
         /\ \A o \in Active' : fd'[o] = fd[o]
         /\ \A n \in Inodes : n = json' => file'[n] = file[n]
         /\ \A o \in Savers : Under(o)' /\ Undisturbed(o)'
<1>1. /\ spc' = [spc EXCEPT ![s] = IF s = "shutdown" THEN "ended" ELSE "idle"]
      /\ fd' = [fd EXCEPT ![s] = None]
      /\ snap' = [snap EXCEPT ![s] = Empty]
      /\ pos' = [pos EXCEPT ![s] = 1]
      /\ began' = [began EXCEPT ![s] = 0]
      /\ touched' = [touched EXCEPT ![s] = {}]
  BY DEF EndSave
<1>2. /\ spc'[s] \in {"idle", "ended"}
      /\ \A o \in Savers : o # s => spc'[o] = spc[o] /\ fd'[o] = fd[o] /\ pos'[o] = pos[o]
  BY <1>1 DEF IInv, TypeOK
<1>3. Empty \in Doc /\ 1 \in 1 .. Chunks + 1
  BY PersistAssumption DEF Empty, Doc
<1>4. TypeOK'
  <2>1. file' \in [Inodes -> File]
    BY ReclaimKeeps DEF IInv, TypeOK
  <2> QED
    BY <1>1, <1>3, <2>1 DEF IInv, TypeOK
<1>5. Active' = Active \ {s} /\ s \in Active
  BY <1>2 DEF Active, Saving
<1>6. \A o \in Active' : fd'[o] = fd[o]
  BY <1>2, <1>5 DEF Active
<1>7. ASSUME NEW o \in Savers PROVE Under(o)'
  <2>1. CASE o = s
    BY <1>2, <2>1 DEF Under, Saving
  <2>2. CASE o # s
    BY <1>2, <2>2 DEF IInv, Under
  <2> QED
    BY <2>1, <2>2
<1>8. ASSUME NEW o \in Savers PROVE Undisturbed(o)'
  <2>1. CASE o = s
    BY <1>2, <2>1 DEF Undisturbed, Saving
  <2>2. CASE o # s
    BY <1>2, <1>5, <2>2, OthersOverlapped
  <2> QED
    BY <2>1, <2>2
<1>9. Lone' /\ \A n \in Inodes : n = json' => file'[n] = file[n]
  BY ReclaimKeeps DEF IInv, TypeOK, Lone
<1> QED
  BY <1>4, <1>5, <1>6, <1>7, <1>8, <1>9

LEMMA WriteFailStep ==
  ASSUME IInv, NEW s \in Savers, WriteFail(s)
  PROVE  IInv'
<1>1. /\ spc[s] \in Saving /\ EndSave(s) /\ UNCHANGED <<tmp, json>> /\ file' = Reclaim(file)
      /\ UNCHANGED <<now, mem, todo, boots, alone, suspect, published>>
  BY DEF WriteFail, Saving
<1>2. tmp \in Inodes \cup {None} /\ json \in Inodes \cup {None} /\ suspect \in BOOLEAN
      /\ published \in Doc
  BY DEF IInv, TypeOK
<1>3. /\ TypeOK' /\ Lone' /\ Active' = Active \ {s}
      /\ \A o \in Active' : fd'[o] = fd[o]
      /\ \A n \in Inodes : n = json' => file'[n] = file[n]
      /\ \A o \in Savers : Under(o)' /\ Undisturbed(o)'
  BY <1>1, <1>2, EndStep
<1>4. OnDisk'
  BY <1>1, <1>2, <1>3 DEF IInv, OnDisk, DiskWhole, Whole
<1> QED
  BY <1>3, <1>4 DEF IInv

LEMMA RenameFailStep ==
  ASSUME IInv, NEW s \in Savers, RenameFail(s)
  PROVE  IInv'
<1>1. /\ spc[s] \in Saving /\ EndSave(s) /\ UNCHANGED <<tmp, json>> /\ file' = Reclaim(file)
      /\ UNCHANGED <<now, mem, todo, boots, alone, suspect, published>>
  BY DEF RenameFail, Saving
<1>2. tmp \in Inodes \cup {None} /\ json \in Inodes \cup {None} /\ suspect \in BOOLEAN
      /\ published \in Doc
  BY DEF IInv, TypeOK
<1>3. /\ TypeOK' /\ Lone' /\ Active' = Active \ {s}
      /\ \A o \in Active' : fd'[o] = fd[o]
      /\ \A n \in Inodes : n = json' => file'[n] = file[n]
      /\ \A o \in Savers : Under(o)' /\ Undisturbed(o)'
  BY <1>1, <1>2, EndStep
<1>4. OnDisk'
  BY <1>1, <1>2, <1>3 DEF IInv, OnDisk, DiskWhole, Whole
<1> QED
  BY <1>3, <1>4 DEF IInv

LEMMA RenameStep ==
  ASSUME IInv, NEW s \in Savers, Rename(s)
  PROVE  IInv'
<1>1. /\ spc[s] = "rename" /\ spc[s] \in Saving /\ EndSave(s) /\ file' = Reclaim(file)
      /\ UNCHANGED <<now, mem, todo, boots, alone>> /\ suspect' = (s \notin alone)
      /\ published' = IF s \in alone THEN snap[s] ELSE Empty
      /\ tmp # None /\ json' = tmp /\ tmp' = None
  BY DEF Rename, Saving
<1>2. /\ tmp' \in Inodes \cup {None} /\ json' \in Inodes \cup {None} /\ suspect' \in BOOLEAN
      /\ published' \in Doc
  BY <1>1 DEF IInv, TypeOK, Empty, Doc
<1>3. /\ TypeOK' /\ Lone' /\ Active' = Active \ {s}
      /\ \A o \in Active' : fd'[o] = fd[o]
      /\ \A n \in Inodes : n = json' => file'[n] = file[n]
      /\ \A o \in Savers : Under(o)' /\ Undisturbed(o)'
  BY <1>1, <1>2, EndStep
<1>4. ASSUME s \in alone
      PROVE  Active' = {} /\ DiskWhole' /\ json' # None /\ published' = file'[json'][1].doc
  <2>1. /\ Active = {s} /\ tmp = fd[s] /\ pos[s] = Chunks + 1
        /\ \A i \in 1 .. pos[s] - 1 : file[fd[s]][i] = [by |-> s, doc |-> snap[s]]
    BY <1>1, <1>4 DEF IInv, Undisturbed
  <2>2. fd[s] \in Inodes /\ fd[s] # None
    BY <1>1, PersistAssumption DEF IInv, Under
  <2>3. json' = fd[s] /\ file'[fd[s]] = file[fd[s]]
    BY <1>1, <1>3, <2>1, <2>2
  <2>4. [by |-> s, doc |-> snap[s]] # None
    BY PersistAssumption DEF IInv, TypeOK, Chunk
  <2>5. 1 \in 1 .. Chunks /\ pos[s] - 1 = Chunks
    BY <2>1, PersistAssumption
  <2>6. \A i \in 1 .. Chunks : file'[json'][i] = [by |-> s, doc |-> snap[s]]
    BY <2>1, <2>3, <2>5
  <2>7. Whole(file'[json'])
    BY <2>4, <2>5, <2>6 DEF Whole
  <2>8. Active' = {}
    BY <1>3, <2>1
  <2>9. file'[json'][1].doc = snap[s]
    BY <2>5, <2>6
  <2> QED
    BY <1>1, <1>4, <2>2, <2>3, <2>7, <2>8, <2>9 DEF DiskWhole
<1>5. OnDisk'
  BY <1>1, <1>4 DEF IInv, OnDisk
<1> QED
  BY <1>3, <1>5 DEF IInv

LEMMA RestartStep ==
  ASSUME IInv, Restart
  PROVE  IInv'
<1>1. /\ boots' = boots + 1 /\ mem' \in Starts /\ file' = Reclaim(file)
      /\ spc' = [s \in Savers |-> "idle"] /\ fd' = [s \in Savers |-> None]
      /\ began' = [s \in Savers |-> 0] /\ todo' = [s \in Savers |-> {}]
      /\ snap' = [s \in Savers |-> Empty] /\ pos' = [s \in Savers |-> 1]
      /\ alone' = {} /\ touched' = [s \in Savers |-> {}]
      /\ UNCHANGED <<now, tmp, json, suspect, published>>
  BY DEF Restart
<1>2. mem' \in [Keys -> Entry \cup {None}]
  <2>1. CASE Keys = {}
    BY <1>1, <2>1 DEF Starts, Empty, Loaded
  <2>2. CASE Keys # {}
    BY <1>1, <2>2, StartsGood DEF IInv, TypeOK
  <2> QED
    BY <2>1, <2>2
<1>3. Empty \in Doc /\ 1 \in 1 .. Chunks + 1
  BY PersistAssumption DEF Empty, Doc
<1>4. file' \in [Inodes -> File] /\ (json # None => file'[json] = file[json])
  BY <1>1, ReclaimKeeps DEF IInv, TypeOK
<1>5. TypeOK'
  BY <1>1, <1>2, <1>3, <1>4 DEF IInv, TypeOK
<1>6. Active' = {}
  BY <1>1 DEF Active
<1>7. OnDisk' /\ Lone'
  BY <1>1, <1>4, <1>6 DEF IInv, OnDisk, Lone, DiskWhole, Whole
<1>8. \A s \in Savers : Under(s)' /\ Undisturbed(s)'
  BY <1>1 DEF Under, Undisturbed, Saving
<1> QED
  BY <1>5, <1>7, <1>8 DEF IInv

-----------------------------------------------------------------------------

LEMMA NextInv == IInv /\ [Next]_vars => IInv'
<1> SUFFICES ASSUME IInv, [Next]_vars PROVE IInv'
  OBVIOUS
<1>1. CASE UNCHANGED vars
  BY <1>1 DEF IInv, TypeOK, OnDisk, Lone, Under, Undisturbed, Active, DiskWhole,
              Whole, vars, saveVars, ghosts
<1> QED
  BY <1>1, TickStep, InsertStep, CreateStep, CreateFailStep, CollectStep, WriteStep,
     WriteFailStep, FlushLostStep, RenameStep, RenameFailStep, RestartStep DEF Next, SaveStep

LEMMA Invariance == Spec => []IInv
BY InitInv, NextInv, PTL DEF Spec

\* Every reachable state is well typed; a save never writes past its document.
THEOREM PersistTypeCorrect == Spec => []TypeOK
<1>1. IInv => TypeOK
  BY DEF IInv
<1> QED
  BY <1>1, Invariance, PTL

\* cache.json is one whole document after any crashes and failed saves, unless
\* what was published last comes from overlapping saves or lost its last write.
THEOREM TornOnlyByOverlapHolds == Spec => []TornOnlyByOverlap
<1>1. IInv => TornOnlyByOverlap
  BY DEF IInv, OnDisk, TornOnlyByOverlap
<1> QED
  BY <1>1, Invariance, PTL

LEMMA SavedStep ==
  ASSUME IInv, [Next]_vars, NEW s \in Savers, s \in alone, spc[s] = "rename",
         spc'[s] # "rename", json' # json, NEW k \in Keys \ touched[s],
         mem[k] # None, ~ Expired(mem[k], began[s])
  PROVE  json' # None /\ file'[json'][1].doc[k] = mem[k]
<1>1. Rename(s)
  <2>1. ASSUME spc'[s] = spc[s] PROVE FALSE
    BY <2>1
  <2>2. ASSUME NEW o \in Savers, o # s, SaveStep(o) PROVE spc'[s] = spc[s]
    BY <2>2 DEF SaveStep, Create, CreateFail, Collect, Write, WriteFail, FlushLost, Rename,
                RenameFail, EndSave, IInv, TypeOK
  <2>3. ASSUME SaveStep(s) PROVE Rename(s)
    BY <2>3 DEF SaveStep, Create, CreateFail, Collect, Write, WriteFail, FlushLost, RenameFail
  <2>4. ~ Restart
    BY DEF Restart
  <2>5. ASSUME Tick \/ (\E x \in Keys : Insert(x)) \/ UNCHANGED vars PROVE spc'[s] = spc[s]
    BY <2>5 DEF Tick, Insert, vars, saveVars
  <2> QED
    BY <2>1, <2>2, <2>3, <2>4, <2>5 DEF Next
<1>2. /\ tmp = fd[s] /\ pos[s] = Chunks + 1 /\ todo[s] = {} /\ fd[s] \in Inodes
      /\ \A i \in 1 .. pos[s] - 1 : file[fd[s]][i] = [by |-> s, doc |-> snap[s]]
      /\ snap[s][k] = mem[k]
  BY DEF IInv, Undisturbed, Under, Saving
<1>3. fd[s] # None /\ 1 \in 1 .. pos[s] - 1
  BY <1>2, PersistAssumption
<1>4. json' = fd[s]
  BY <1>1, <1>2, <1>3 DEF Rename
<1>5. file'[fd[s]] = file[fd[s]]
  BY <1>1, <1>2, <1>4, ReclaimKeeps DEF Rename, IInv, TypeOK
<1>6. file[fd[s]][1] = [by |-> s, doc |-> snap[s]]
  BY <1>2, <1>3
<1>7. file'[json'][1].doc = snap[s] /\ json' # None
  BY <1>3, <1>4, <1>5, <1>6
<1> QED
  BY <1>2, <1>7

\* A save that no other overlaps, when it publishes anything, publishes all that
\* was in the cache, and live, from its beginning to its end, whatever is written
\* meanwhile.  One whose rename fails publishes nothing.
THEOREM SavedCompletelyHolds == Spec => SavedCompletely
<1>1. IInv /\ [Next]_vars =>
        [\A s \in Savers :
           s \in alone /\ spc[s] = "rename" /\ spc'[s] # "rename" /\ json' # json =>
             \A k \in Keys \ touched[s] :
               mem[k] # None /\ ~ Expired(mem[k], began[s]) =>
                 json' # None /\ file'[json'][1].doc[k] = mem[k]]_vars
  BY SavedStep
<1> QED
  BY <1>1, Invariance, PTL DEF Spec, SavedCompletely

LEMMA RecoversStep ==
  ASSUME IInv, [Next]_vars, boots' # boots, ~ suspect
  PROVE  \/ json # None /\ mem' = Empty
         \/ \A k \in Keys : mem'[k] = IF Usable(published[k]) THEN published[k] ELSE None
<1>1. Restart
  BY DEF Next, SaveStep, Tick, Insert, Create, CreateFail, Collect, Write, WriteFail, FlushLost,
         Rename, RenameFail, vars
<1>2. mem' \in Starts
  BY <1>1 DEF Restart
<1>3. DiskWhole /\ published = IF json = None THEN Empty ELSE file[json][1].doc
  BY DEF IInv, OnDisk
<1>4. CASE json = None
  BY <1>2, <1>3, <1>4 DEF Starts, Empty, Usable
<1>5. CASE json # None /\ mem' # Empty
  <2>1. mem' = Loaded(file[json]) /\ Whole(file[json])
    BY <1>2, <1>3, <1>5 DEF Starts, DiskWhole
  <2> QED
    BY <1>3, <1>5, <2>1 DEF Loaded, Usable
<1> QED
  BY <1>4, <1>5

\* After any crashes, failed renames and abandoned saves, a restart has exactly what
\* the last save to publish had collected, less what may no longer be served.
THEOREM RestartRecoversHolds == Spec => RestartRecovers
<1>1. IInv /\ [Next]_vars =>
        [boots' # boots /\ ~ suspect =>
           \/ json # None /\ mem' = Empty
           \/ \A k \in Keys :
                mem'[k] = IF Usable(published[k]) THEN published[k] ELSE None]_vars
  BY RecoversStep
<1> QED
  BY <1>1, Invariance, PTL DEF Spec, RestartRecovers
=============================================================================

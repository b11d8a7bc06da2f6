-------------------------- MODULE FileCacheProofs ---------------------------
(***************************************************************************)
(* What holds of the file cache for any files, any contents and any sizes: *)
(* it is coherent with the disk, it implements a plain store of files, and *)
(* its list and its hash hold the same files.                              *)
(***************************************************************************)
EXTENDS FileCache, FiniteSetTheorems, SequenceTheorems, TLAPS

\* Its lemmas on induction over numbers and sequences serve here too.
Ind == INSTANCE TimerQueueProofs

\* A Sysop only adds a feeling that is neither on disk nor in the cache.
Fresh ==
  \A s \in Sysop : adding[s] # NoFile =>
    disk[adding[s]] = NoFile /\ adding[s] \notin Cached

Types ==
  /\ disk \in [File -> Content \cup {NoFile}]
  /\ Cached \subseteq File
  /\ mem \in [Cached -> Content]
  /\ Unsaved \subseteq Cached \cap Data
  /\ adding \in [Sysop -> Feeling \cup {NoFile}]

IInv == Types /\ Coherent /\ Fresh

(***************************************************************************)
(* The shapes that actions are made of.                                    *)
(***************************************************************************)
LEMMA StayingIn ==
  ASSUME NEW f \in File, Types
  PROVE  Staying(f) \subseteq Cached \cup {f}
BY DEF Staying

\* Files that leave the cache disturb nothing.
LEMMA KeepKeeps ==
  ASSUME IInv, NEW K \in SUBSET Cached, Keep(K), UNCHANGED <<disk, adding>>
  PROVE  IInv'
<1>1. Types'
  BY DEF IInv, Types, Keep, Cached, Unsaved
<1>2. Coherent'
  BY DEF IInv, Types, Keep, Cached, Unsaved, Coherent
<1>3. Fresh'
  BY DEF IInv, Types, Keep, Cached, Fresh
<1> QED
  BY <1>1, <1>2, <1>3 DEF IInv

\* A file that is dropped may change on disk.
LEMMA DropKeeps ==
  ASSUME IInv, NEW F \in SUBSET File, Drop(F), UNCHANGED adding,
         disk' \in [File -> Content \cup {NoFile}],
         \A g \in File \ F : disk'[g] = disk[g],
         \A g \in F : disk[g] = NoFile => disk'[g] = NoFile \/ g \notin Feeling
  PROVE  IInv'
<1> Cached \ F \in SUBSET Cached /\ Cached' = Cached \ F
  BY DEF Drop, Keep, Cached
<1>1. Types'
  BY DEF IInv, Types, Drop, Keep, Cached, Unsaved
<1>2. Coherent'
  BY DEF IInv, Types, Drop, Keep, Cached, Unsaved, Coherent
<1>3. Fresh'
  <2> SUFFICES ASSUME NEW s \in Sysop, adding[s] # NoFile
               PROVE  disk'[adding[s]] = NoFile /\ adding[s] \notin Cached'
    BY DEF Fresh
  <2>1. adding[s] \in Feeling /\ adding[s] \in File
    BY DEF IInv, Types, File
  <2>2. disk[adding[s]] = NoFile /\ adding[s] \notin Cached
    BY DEF IInv, Fresh
  <2> QED
    BY <2>1, <2>2
<1> QED
  BY <1>1, <1>2, <1>3 DEF IInv

\* A file that is used holds what is on disk, or what was to be saved.
LEMMA UseKeeps ==
  ASSUME IInv, NEW f \in File, NEW v \in Content, Use(f, v), UNCHANGED adding,
         \/ /\ dirty' = dirty \cap Staying(f) /\ cut' = cut \cap Staying(f)
            /\ disk' = disk
            /\ disk[f] = v \/ f \in Unsaved
         \/ Sync(f, v) /\ f \in Data
  PROVE  IInv'
<1>1. Cached' = Staying(f) /\ Staying(f) \subseteq Cached \cup {f}
  BY StayingIn DEF IInv, Use, Cached
<1>2. \A g \in Cached' : mem'[g] = IF g = f THEN v ELSE mem[g]
  BY <1>1 DEF Use, Cached
<1>3. mem' \in [Cached' -> Content]
  BY <1>1 DEF IInv, Types, Use, Cached
<1>4. /\ disk' \in [File -> Content \cup {NoFile}]
      /\ \A g \in File \ {f} : disk'[g] = disk[g]
      /\ Unsaved' \subseteq Cached' \cap Data
      /\ \A g \in Cached' \ {f} : g \in Unsaved => g \in Unsaved'
      /\ f \in Cached' \ Unsaved' => disk'[f] = v
  <2>1. CASE Sync(f, v) /\ f \in Data
    BY <1>1, <2>1 DEF IInv, Types, Sync, Unsaved
  <2>2. CASE /\ dirty' = dirty \cap Staying(f) /\ cut' = cut \cap Staying(f)
             /\ disk' = disk
             /\ disk[f] = v \/ f \in Unsaved
    BY <1>1, <2>2 DEF IInv, Types, Unsaved
  <2> QED
    BY <2>1, <2>2
<1>5. Types'
  BY <1>1, <1>3, <1>4 DEF IInv, Types
<1>6. Coherent'
  BY <1>1, <1>2, <1>4 DEF IInv, Types, Coherent
<1>7. \A s \in Sysop : adding[s] # f
  <2>1. CASE disk[f] = v
    BY <2>1, FileAssumption DEF IInv, Fresh
  <2>2. CASE f \in Data
    BY <2>2, FileAssumption DEF IInv, Types, File
  <2>3. disk[f] = v \/ f \in Data
    BY DEF IInv, Types
  <2> QED
    BY <2>1, <2>2, <2>3
<1>8. Fresh'
  <2> SUFFICES ASSUME NEW s \in Sysop, adding[s] # NoFile
               PROVE  disk'[adding[s]] = NoFile /\ adding[s] \notin Cached'
    BY DEF Fresh
  <2>1. adding[s] \in File \ {f}
    BY <1>7 DEF IInv, Types, File
  <2> QED
    BY <1>1, <1>4, <2>1 DEF IInv, Fresh
<1> QED
  BY <1>5, <1>6, <1>8 DEF IInv

(***************************************************************************)
(* The actions.                                                            *)
(***************************************************************************)
LEMMA Inits == Init => IInv
<1> SUFFICES ASSUME Init PROVE IInv
  OBVIOUS
<1>1. Cached = {}
  BY DEF Init, Cached
<1> QED
  BY <1>1 DEF Init, IInv, Types, Unsaved, Coherent, Fresh

LEMMA ReadKeeps ==
  ASSUME IInv, NEW f \in File, Read(f)
  PROVE  IInv'
<1> DEFINE v == IF f \in Cached THEN mem[f] ELSE disk[f]
<1>1. v \in Content
  BY DEF Read, IInv, Types
<1>2. Use(f, v) /\ UNCHANGED adding
  BY DEF Read
<1>3. CASE f \in dirty
  <2>1. f \in Data /\ Sync(f, v)
    BY <1>3 DEF Read, IInv, Types, Unsaved
  <2> QED
    BY <1>1, <1>2, <2>1, UseKeeps
<1>4. CASE f \notin dirty
  <2>1. disk[f] = v \/ f \in Unsaved
    BY DEF IInv, Coherent
  <2>2. /\ dirty' = dirty \cap Staying(f) /\ cut' = cut \cap Staying(f)
        /\ disk' = disk
    BY <1>4 DEF Read
  <2> QED
    BY <1>1, <1>2, <2>1, <2>2, UseKeeps
<1> QED
  BY <1>3, <1>4

LEMMA WriteKeeps ==
  ASSUME IInv, NEW f \in File, NEW v \in Content, Write(f, v)
  PROVE  IInv'
<1>1. Use(f, v) /\ Sync(f, v) /\ f \in Data /\ UNCHANGED adding
  BY DEF Write
<1> QED
  BY <1>1, UseKeeps

LEMMA UploadKeeps ==
  ASSUME IInv, NEW f \in File, NEW v \in Content, Upload(f, v)
  PROVE  IInv'
<1>1. {f} \in SUBSET File /\ f \notin Feeling
  BY FileAssumption DEF Upload
<1>2. Drop({f}) /\ UNCHANGED adding
  BY DEF Upload
<1>3. /\ disk' \in [File -> Content \cup {NoFile}]
      /\ \A g \in File \ {f} : disk'[g] = disk[g]
  BY DEF Upload, SaveText, IInv, Types
<1> QED
  BY <1>1, <1>2, <1>3, DropKeeps

LEMMA UnlinkKeeps ==
  ASSUME IInv, NEW f \in File, Unlink(f)
  PROVE  IInv'
<1>1. Drop({f}) /\ UNCHANGED adding /\ {f} \in SUBSET File
  BY DEF Unlink
<1>2. /\ disk' \in [File -> Content \cup {NoFile}]
      /\ \A g \in File \ {f} : disk'[g] = disk[g]
      /\ disk'[f] = NoFile
  BY DEF Unlink, IInv, Types
<1> QED
  BY <1>1, <1>2, DropKeeps

LEMMA UncacheKeeps ==
  ASSUME IInv, NEW f \in File, Uncache(f)
  PROVE  IInv'
<1>1. Cached \ {f} \in SUBSET Cached /\ Keep(Cached \ {f}) /\ UNCHANGED <<disk, adding>>
  BY DEF Uncache, Drop
<1> QED
  BY <1>1, KeepKeeps

LEMMA RenameDirKeeps ==
  ASSUME IInv, NEW F \in Trash, RenameDir(F)
  PROVE  IInv'
<1>1. Drop(F) /\ UNCHANGED adding /\ F \in SUBSET File
  BY FileAssumption DEF RenameDir, File
<1>2. /\ disk' \in [File -> Content \cup {NoFile}]
      /\ \A g \in File \ F : disk'[g] = disk[g]
      /\ \A g \in F : disk'[g] \in {NoFile, disk[g]}
  BY <1>1 DEF RenameDir, IInv, Types
<1> QED
  BY <1>1, <1>2, DropKeeps

LEMMA ExpireKeeps ==
  ASSUME IInv, Expire
  PROVE  IInv'
<1>1. PICK K \in SUBSET Cached : Keep(K)
  <2>1. PICK k \in 0 .. Len(fifo) - 1 : Drop(Cached \ {fifo[i] : i \in 1 .. k})
    BY DEF Expire
  <2> DEFINE K == Cached \ (Cached \ {fifo[i] : i \in 1 .. k})
  <2>2. K \in SUBSET Cached /\ Keep(K)
    BY <2>1 DEF Drop
  <2> QED
    BY <2>2
<1> QED
  BY <1>1, KeepKeeps DEF Expire

\* The size of the cache changes.
LEMMA ParamsKeep ==
  ASSUME IInv, ToggleFileCache \/ \E n \in 0 .. MaxCached : SetMaxCached(n)
  PROVE  IInv'
<1>1. UNCHANGED <<disk, adding>>
  BY DEF ToggleFileCache, SetMaxCached
<1>2. \/ \E K \in SUBSET Cached : Keep(K)
      \/ UNCHANGED <<mem, dirty, cut>>
  BY DEF ToggleFileCache, SetMaxCached, Deinit, Resize
<1>3. CASE UNCHANGED <<mem, dirty, cut>>
  BY <1>1, <1>3 DEF IInv, Types, Unsaved, Coherent, Fresh, Cached
<1> QED
  BY <1>1, <1>2, <1>3, KeepKeeps

\* A feeling is added while it is nowhere, by one Sysop at a time.
LEMMA FeelingsKeep ==
  ASSUME IInv, Alone, NEW s \in Sysop,
         \/ \E f \in File : AddFeeling(s, f)
         \/ \E v \in Content : SaveFeeling(s, v)
         \/ AbortFeeling(s)
  PROVE  IInv'
<1>1. UNCHANGED <<mem, dirty, cut>> /\ Cached' = Cached /\ Unsaved' = Unsaved
  BY DEF AddFeeling, SaveFeeling, AbortFeeling, Cached, Unsaved
<1>2. CASE \E f \in File : AddFeeling(s, f)
  <2>1. PICK f \in File : AddFeeling(s, f)
    BY <1>2
  <2>2. f \in Feeling /\ f \notin Unsaved /\ disk[f] = NoFile
    BY <2>1, FileAssumption DEF AddFeeling, IInv, Types
  <2>3. f \notin Cached
    BY <2>2, FileAssumption DEF IInv, Types, Coherent
  <2> QED
    BY <2>1, <2>2, <2>3, <1>1 DEF AddFeeling, IInv, Types, Coherent, Fresh
<1>3. CASE \E v \in Content : SaveFeeling(s, v)
  <2> DEFINE f == adding[s]
  <2>1. PICK v \in Content : SaveFeeling(s, v)
    BY <1>3
  <2>2. f \in File /\ f \notin Cached
    BY <2>1 DEF SaveFeeling, IInv, Types, Fresh, File
  <2>3. /\ disk' \in [File -> Content \cup {NoFile}]
        /\ \A g \in Cached : disk'[g] = disk[g]
    BY <2>1, <2>2 DEF SaveFeeling, SaveText, IInv, Types
  <2>4. \A t \in Sysop : adding'[t] = NoFile
    BY <2>1 DEF SaveFeeling, Alone, IInv, Types
  <2>5. adding' \in [Sysop -> Feeling \cup {NoFile}]
    BY <2>1 DEF SaveFeeling, IInv, Types
  <2> QED
    BY <2>3, <2>4, <2>5, <1>1 DEF IInv, Types, Coherent, Fresh
<1>4. CASE AbortFeeling(s)
  BY <1>4, <1>1 DEF AbortFeeling, IInv, Types, Coherent, Fresh
<1> QED
  BY <1>2, <1>3, <1>4

LEMMA Steps ==
  ASSUME IInv, Alone, [Next]_vars
  PROVE  IInv'
<1>1. CASE UNCHANGED vars
  BY <1>1 DEF vars, IInv, Types, Unsaved, Coherent, Fresh, Cached
<1>2. ASSUME NEW f \in File, ReadNone(f)
      PROVE  IInv'
  BY <1>2 DEF ReadNone, IInv, Types, Unsaved, Coherent, Fresh, Cached
<1> QED
  BY <1>1, <1>2, ReadKeeps, WriteKeeps, UploadKeeps, UnlinkKeeps, UncacheKeeps,
     RenameDirKeeps, ExpireKeeps, ParamsKeep, FeelingsKeep DEF Next

(***************************************************************************)
(* While Sysops do not add feelings at the same time, the cache never      *)
(* holds anything else than the disk but what a failed save left, whatever *)
(* goes past the cache, and whatever becomes of its size.                  *)
(***************************************************************************)
THEOREM CacheCoherent ==
  ASSUME Alone
  PROVE  Spec => []Coherent
<1>1. IInv => Coherent
  BY DEF IInv
<1>2. IInv /\ [Next]_vars => IInv'
  BY Steps
<1> QED
  BY <1>1, <1>2, Inits, PTL DEF Spec

(***************************************************************************)
(* The cache implements FileStore.                                         *)
(***************************************************************************)
\* Files that leave the cache are forgotten, and no others.
LEMMA KeepForgets ==
  ASSUME IInv, NEW K \in SUBSET Cached, Keep(K)
  PROVE  \A g \in File : Pending'[g] = IF g \in K THEN Pending[g] ELSE NoFile
<1>1. \A g \in File : g \in Unsaved' => g \in K /\ g \in Unsaved /\ mem'[g] = mem[g]
  BY DEF Keep, Unsaved
<1>2. \A g \in File : g \in Unsaved /\ g \in K => g \in Unsaved'
  BY DEF Keep, Unsaved
<1> QED
  BY <1>1, <1>2 DEF Pending

LEMMA DropForgets ==
  ASSUME IInv, NEW F \in SUBSET File, Drop(F)
  PROVE  /\ \A g \in F : Pending'[g] = NoFile
         /\ \A g \in File : Pending'[g] \in {Pending[g], NoFile}
<1>1. Cached \ F \in SUBSET Cached /\ Keep(Cached \ F)
  BY DEF Drop
<1>2. \A g \in File : Pending'[g] = IF g \in Cached \ F THEN Pending[g] ELSE NoFile
  BY <1>1, KeepForgets
<1> QED
  BY <1>2

\* To use a file makes the cache forget others at most.
LEMMA UseForgets ==
  ASSUME IInv, NEW f \in File, NEW v \in Content, Use(f, v),
         \A g \in File \ {f} : g \in Unsaved' => g \in Unsaved /\ g \in Staying(f)
  PROVE  \A g \in File \ {f} : Pending'[g] \in {Pending[g], NoFile}
<1>1. \A g \in File \ {f} : g \in Unsaved' => g \in Unsaved /\ mem'[g] = mem[g]
  BY DEF Use
<1> QED
  BY <1>1 DEF Pending

\* What a reader gets.
LEMMA Holds ==
  ASSUME IInv, NEW f \in File
  PROVE  store!Held(f) = IF f \in Cached THEN mem[f] ELSE disk[f]
<1>1. f \in Unsaved => f \in Cached /\ mem[f] # NoFile
  BY FileAssumption DEF IInv, Types
<1>2. f \in Cached /\ f \notin Unsaved => mem[f] = disk[f]
  BY DEF IInv, Coherent
<1> QED
  BY <1>1, <1>2 DEF store!Held, Pending

\* What Fclose() of a dirty file makes of it.
LEMMA SyncOutcome ==
  ASSUME IInv, NEW f \in File, NEW v \in Content, Use(f, v), Sync(f, v)
  PROVE  /\ store!Elsewhere({f})
         /\ \/ disk'[f] = v /\ Pending'[f] = NoFile
            \/ disk'[f] = disk[f] /\ Pending'[f] \in {v, NoFile}
            \/ disk'[f] \in Content /\ Pending'[f] \in {v, NoFile}
<1>1. \A g \in File \ {f} : g \in Unsaved' => g \in Unsaved /\ g \in Staying(f)
  BY DEF Sync, Unsaved
<1>2. \A g \in File \ {f} : Pending'[g] \in {Pending[g], NoFile}
  BY <1>1, UseForgets
<1>3. \A g \in File \ {f} : disk'[g] = disk[g]
  BY DEF Sync, IInv, Types
<1>4. Pending'[f] \in {v, NoFile}
  <2>1. f \in Unsaved' => mem'[f] = v
    BY DEF Use, Sync, Unsaved
  <2> QED
    BY <2>1 DEF Pending
<1>5. CASE /\ disk' = [disk EXCEPT ![f] = v] /\ dirty' = (dirty \ {f}) \cap Staying(f)
           /\ cut' = (cut \ {f}) \cap Staying(f)
  <2>1. disk'[f] = v /\ f \notin Unsaved'
    BY <1>5 DEF IInv, Types, Unsaved
  <2> QED
    BY <1>2, <1>3, <2>1 DEF store!Elsewhere, Pending
<1>6. CASE disk' = disk \/ \E w \in Content \ {v} : disk' = [disk EXCEPT ![f] = w]
  <2>1. disk'[f] = disk[f] \/ disk'[f] \in Content
    BY <1>6 DEF IInv, Types
  <2> QED
    BY <1>2, <1>3, <1>4, <2>1 DEF store!Elsewhere
<1> QED
  BY <1>5, <1>6 DEF Sync

LEMMA ReadImplements ==
  ASSUME IInv, NEW f \in File, Read(f)
  PROVE  store!Read(f)
<1> DEFINE v == IF f \in Cached THEN mem[f] ELSE disk[f]
<1>1. v \in Content /\ v # NoFile /\ v = store!Held(f)
  BY Holds, FileAssumption DEF Read, IInv, Types
<1>2. Use(f, v) /\ got' = <<f, store!Held(f)>>
  BY Holds DEF Read
<1>3. Pending[f] # NoFile <=> f \in Unsaved
  BY FileAssumption DEF Pending, IInv, Types
<1>4. CASE f \notin dirty
  <2>1. /\ dirty' = dirty \cap Staying(f) /\ cut' = cut \cap Staying(f)
        /\ disk' = disk
    BY <1>4 DEF Read
  <2>2. \A g \in File : g \in Unsaved' => g \in Unsaved /\ g \in Staying(f)
    BY <2>1 DEF Unsaved
  <2>3. \A g \in File \ {f} : Pending'[g] \in {Pending[g], NoFile}
    BY <1>1, <1>2, <2>2, UseForgets
  <2>4. Pending'[f] \in {Pending[f], NoFile}
    BY <1>2, <2>2 DEF Pending, Use, IInv, Types
  <2>5. store!Elsewhere({})
    BY <2>1, <2>3, <2>4 DEF store!Elsewhere
  <2> QED
    BY <1>2, <2>5 DEF store!Read
<1>5. CASE f \in dirty
  <2>1. Sync(f, v) /\ f \in Unsaved
    BY <1>5 DEF Read, Unsaved
  <2>2. /\ store!Elsewhere({f})
        /\ \/ disk'[f] = v /\ Pending'[f] = NoFile
           \/ disk'[f] = disk[f] /\ Pending'[f] \in {v, NoFile}
           \/ disk'[f] \in Content /\ Pending'[f] \in {v, NoFile}
    BY <1>1, <1>2, <2>1, SyncOutcome
  <2>3. Pending[f] = v
    BY <2>1 DEF Pending, IInv, Types
  <2>4. CASE disk'[f] = disk[f] /\ Pending'[f] \in {v, NoFile}
    <3>1. store!Elsewhere({})
      BY <2>2, <2>3, <2>4 DEF store!Elsewhere
    <3> QED
      BY <1>2, <3>1 DEF store!Read
  <2> QED
    BY <1>1, <1>2, <1>3, <2>1, <2>2, <2>4 DEF store!Read
<1> QED
  BY <1>4, <1>5

\* Write() is a save, one that fails, or one that is cut short.
LEMMA WriteImplements ==
  ASSUME IInv, NEW f \in File, NEW v \in Content, Write(f, v)
  PROVE  store!Save(f, v) \/ store!Fail(f, v) \/ store!Cut(f, v)
<1>1. Use(f, v) /\ Sync(f, v) /\ UNCHANGED got
  BY DEF Write
<1> QED
  BY <1>1, SyncOutcome DEF store!Save, store!Fail, store!Cut

LEMMA UploadImplements ==
  ASSUME IInv, NEW f \in File, NEW v \in Content, Upload(f, v)
  PROVE  store!Save(f, v) \/ store!Fail(f, v) \/ store!Cut(f, v)
<1>1. Drop({f}) /\ {f} \in SUBSET File /\ SaveText(f, v) /\ UNCHANGED got
  BY DEF Upload
<1>2. Pending'[f] = NoFile /\ \A g \in File : Pending'[g] \in {Pending[g], NoFile}
  BY <1>1, DropForgets
<1>3. store!Elsewhere({f}) /\ (disk'[f] \in {v, disk[f]} \/ disk'[f] \in Content)
  BY <1>1, <1>2 DEF store!Elsewhere, SaveText, IInv, Types
<1> QED
  BY <1>1, <1>2, <1>3 DEF store!Save, store!Fail, store!Cut

LEMMA RemoveImplements ==
  ASSUME IInv, NEW F \in SUBSET File,
         \/ RenameDir(F)
         \/ \E f \in File : F = {f} /\ Unlink(f)
  PROVE  store!Remove(F)
<1>1. Drop(F) /\ UNCHANGED got
  BY DEF RenameDir, Unlink
<1>2. /\ \A g \in F : disk'[g] \in {NoFile, disk[g]}
      /\ \A g \in File \ F : disk'[g] = disk[g]
  BY DEF RenameDir, Unlink, IInv, Types
<1>3. /\ \A g \in F : Pending'[g] = NoFile
      /\ \A g \in File : Pending'[g] \in {Pending[g], NoFile}
  BY <1>1, DropForgets
<1> QED
  BY <1>1, <1>2, <1>3 DEF store!Remove, store!Elsewhere

LEMMA ForgetImplements ==
  ASSUME IInv, UNCHANGED <<disk, got>>,
         UNCHANGED <<mem, dirty, cut>> \/ \E K \in SUBSET Cached : Keep(K)
  PROVE  store!Forget
<1>1. \A g \in File : Pending'[g] \in {Pending[g], NoFile}
  <2>1. CASE UNCHANGED <<mem, dirty, cut>>
    BY <2>1 DEF Pending, Unsaved
  <2>2. CASE \E K \in SUBSET Cached : Keep(K)
    BY <2>2, KeepForgets
  <2> QED
    BY <2>1, <2>2
<1> QED
  BY <1>1 DEF store!Forget, store!Elsewhere

LEMMA SaveFeelingImplements ==
  ASSUME IInv, NEW s \in Sysop, NEW v \in Content, SaveFeeling(s, v)
  PROVE  \E f \in File : store!Save(f, v) \/ store!Fail(f, v) \/ store!Cut(f, v)
<1> DEFINE f == adding[s]
<1>1. f \in File /\ f \notin Unsaved
  BY DEF SaveFeeling, IInv, Types, Fresh, File
<1>2. \A g \in File : Pending'[g] = Pending[g]
  BY DEF SaveFeeling, Pending, Unsaved
<1>3. Pending'[f] = NoFile
  BY <1>1, <1>2 DEF Pending
<1>4. store!Elsewhere({f}) /\ (disk'[f] \in {v, disk[f]} \/ disk'[f] \in Content)
  BY <1>1, <1>2 DEF store!Elsewhere, SaveFeeling, SaveText, IInv, Types
<1>5. UNCHANGED got
  BY DEF SaveFeeling
<1> QED
  BY <1>1, <1>3, <1>4, <1>5 DEF store!Save, store!Fail, store!Cut

LEMMA StepsImplement ==
  ASSUME IInv, [Next]_vars
  PROVE  [store!Next]_(store!vars)
<1>1. CASE UNCHANGED vars
  BY <1>1 DEF vars, store!vars, Pending, Unsaved
<1>2. ASSUME NEW f \in File, ReadNone(f)
      PROVE  store!Next
  <2>1. got' = <<f, store!Held(f)>>
    BY <1>2, Holds DEF ReadNone
  <2>2. store!Elsewhere({})
    BY <1>2 DEF ReadNone, store!Elsewhere, Pending, Unsaved
  <2> QED
    BY <2>1, <2>2 DEF store!Read, store!Next
<1>3. ASSUME NEW f \in File, Read(f)
      PROVE  store!Next
  BY <1>3, ReadImplements DEF store!Next
<1>4. ASSUME NEW f \in File, NEW v \in Content, Write(f, v) \/ Upload(f, v)
      PROVE  store!Next
  BY <1>4, WriteImplements, UploadImplements DEF store!Next
<1>5. ASSUME NEW f \in File, Unlink(f)
      PROVE  store!Next
  <2>1. {f} \in SUBSET File
    OBVIOUS
  <2> QED
    BY <1>5, <2>1, RemoveImplements DEF store!Next
<1>6. ASSUME NEW F \in Trash, RenameDir(F)
      PROVE  store!Next
  <2>1. F \in SUBSET File
    BY FileAssumption DEF File
  <2> QED
    BY <1>6, <2>1, RemoveImplements DEF store!Next
<1>7. ASSUME NEW f \in File, Uncache(f)
      PROVE  store!Next
  <2>1. Cached \ {f} \in SUBSET Cached /\ Keep(Cached \ {f}) /\ UNCHANGED <<disk, got>>
    BY <1>7 DEF Uncache, Drop
  <2> QED
    BY <2>1, ForgetImplements DEF store!Next
<1>8. ASSUME Expire
      PROVE  store!Next
  <2>1. PICK k \in 0 .. Len(fifo) - 1 : Drop(Cached \ {fifo[i] : i \in 1 .. k})
    BY <1>8 DEF Expire
  <2> DEFINE K == Cached \ (Cached \ {fifo[i] : i \in 1 .. k})
  <2>2. K \in SUBSET Cached /\ Keep(K) /\ UNCHANGED <<disk, got>>
    BY <1>8, <2>1 DEF Drop, Expire
  <2> QED
    BY <2>2, ForgetImplements DEF store!Next
<1>9. ASSUME ToggleFileCache \/ \E n \in 0 .. MaxCached : SetMaxCached(n)
      PROVE  store!Next
  <2>1. UNCHANGED <<disk, got>>
    BY <1>9 DEF ToggleFileCache, SetMaxCached
  <2>2. UNCHANGED <<mem, dirty, cut>> \/ \E K \in SUBSET Cached : Keep(K)
    BY <1>9 DEF ToggleFileCache, SetMaxCached, Deinit, Resize
  <2> QED
    BY <2>1, <2>2, ForgetImplements DEF store!Next
<1>10. ASSUME NEW s \in Sysop, NEW v \in Content, SaveFeeling(s, v)
       PROVE  store!Next
  BY <1>10, SaveFeelingImplements DEF store!Next
<1>11. ASSUME NEW s \in Sysop, (\E f \in File : AddFeeling(s, f)) \/ AbortFeeling(s)
       PROVE  store!Next
  <2>1. UNCHANGED <<disk, got, mem, dirty, cut>>
    BY <1>11 DEF AddFeeling, AbortFeeling
  <2> QED
    BY <2>1, ForgetImplements DEF store!Next
<1> QED
  BY <1>1, <1>2, <1>3, <1>4, <1>5, <1>6, <1>7, <1>8, <1>9, <1>10, <1>11 DEF Next

(***************************************************************************)
(* While Sysops do not add feelings at the same time, everyone who reads a *)
(* file gets what was saved last, or what the last save that failed left:  *)
(* evicting, expiring, resizing and switching off the cache are not seen.  *)
(***************************************************************************)
THEOREM CacheImplementsStore ==
  ASSUME Alone
  PROVE  Spec => ImplementsStore
<1>1. Init => store!Init
  BY DEF Init, store!Init, Pending, Unsaved
<1>2. IInv /\ [Next]_vars => IInv'
  BY Steps
<1>3. IInv /\ [Next]_vars => [store!Next]_(store!vars)
  BY StepsImplement
<1> QED
  BY <1>1, <1>2, <1>3, Inits, PTL DEF Spec, ImplementsStore, store!Spec

(***************************************************************************)
(* The FIFO and the hash.                                                  *)
(***************************************************************************)
\* What the recursion of Kept computes, for the first n of s.
Upto(f, s, K, n) ==
  f = [i \in 0 .. n |-> IF i = 0 THEN << >>
                        ELSE IF s[i] \in K THEN Append(f[i - 1], s[i]) ELSE f[i - 1]]

\* The recursion of Kept has a value,
LEMMA UptoExists ==
  ASSUME NEW s, NEW K PROVE \A n \in Nat : \E f : Upto(f, s, K, n)
<1> DEFINE S == {n \in Nat : \E f : Upto(f, s, K, n)}
<1>1. 0 \in S
  <2> DEFINE f == [i \in 0 .. 0 |-> << >>]
  <2>1. Upto(f, s, K, 0)
    BY DEF Upto
  <2> QED
    BY <2>1
<1>2. ASSUME NEW n \in Nat, n \in S PROVE n + 1 \in S
  <2>1. PICK f : Upto(f, s, K, n)
    BY <1>2
  <2> DEFINE m == n + 1
             g == [i \in 0 .. m |-> IF i = m
                     THEN IF s[m] \in K THEN Append(f[n], s[m]) ELSE f[n] ELSE f[i]]
             h == [i \in 0 .. m |-> IF i = 0 THEN << >>
                        ELSE IF s[i] \in K THEN Append(g[i - 1], s[i]) ELSE g[i - 1]]
  <2>2. \A i \in 0 .. n : f[i] = IF i = 0 THEN << >>
                        ELSE IF s[i] \in K THEN Append(f[i - 1], s[i]) ELSE f[i - 1]
    BY <2>1 DEF Upto
  <2>3. \A i \in 0 .. n : g[i] = f[i]
    OBVIOUS
  <2>4. ASSUME NEW i \in 0 .. m PROVE g[i] = h[i]
    <3>1. CASE i = 0
      BY <3>1, <2>2, <2>3
    <3>2. CASE i = m
      BY <3>2, <2>3
    <3>3. CASE i # 0 /\ i # m
      BY <3>3, <2>2, <2>3
    <3> QED
      BY <3>1, <3>2, <3>3
  <2>5. g = h
    BY <2>4
  <2>6. Upto(g, s, K, m)
    BY <2>5 DEF Upto
  <2> QED
    BY <2>6
<1> HIDE DEF S
<1>3. \A n \in Nat : n \in S
  BY <1>1, <1>2, Ind!SetInduction
<1> QED
  BY <1>3 DEF S

\* which goes on by one file at a time,
LEMMA UptoNext ==
  ASSUME NEW f, NEW s, NEW K, NEW n \in Nat, NEW i \in Nat, i + 1 <= n, Upto(f, s, K, n)
  PROVE  f[i + 1] = IF s[i + 1] \in K THEN Append(f[i], s[i + 1]) ELSE f[i]
<1> DEFINE j == i + 1
<1>1. j \in 0 .. n /\ j # 0 /\ j - 1 = i
  OBVIOUS
<1> HIDE DEF j
<1>2. f[j] = IF s[j] \in K THEN Append(f[i], s[j]) ELSE f[i]
  BY <1>1 DEF Upto
<1> QED
  BY <1>2 DEF j

\* The prefix of length i does not depend on what comes after it.
LEMMA UptoAgrees ==
  ASSUME NEW s, NEW t, NEW K, NEW f, NEW g, NEW m \in Nat, NEW n \in Nat, NEW k \in Nat,
         Upto(f, s, K, m), Upto(g, t, K, n), k <= m, k <= n, \A i \in 1 .. k : s[i] = t[i]
  PROVE  f[k] = g[k]
<1> DEFINE S == {i \in Nat : i <= k => f[i] = g[i]}
<1>1. 0 \in S
  BY DEF Upto
<1>2. ASSUME NEW i \in Nat, i \in S PROVE i + 1 \in S
  <2> SUFFICES ASSUME i + 1 <= k PROVE f[i + 1] = g[i + 1]
    OBVIOUS
  <2>1. f[i] = g[i] /\ s[i + 1] = t[i + 1]
    BY <1>2
  <2>2. f[i + 1] = IF s[i + 1] \in K THEN Append(f[i], s[i + 1]) ELSE f[i]
    BY UptoNext
  <2>3. g[i + 1] = IF t[i + 1] \in K THEN Append(g[i], t[i + 1]) ELSE g[i]
    BY UptoNext
  <2> QED
    BY <2>1, <2>2, <2>3
<1> HIDE DEF S
<1>3. \A i \in Nat : i \in S
  BY <1>1, <1>2, Ind!SetInduction
<1> QED
  BY <1>3 DEF S

\* Kept is its value at the end of s.
LEMMA KeptUpto ==
  ASSUME NEW T, NEW s \in Seq(T), NEW K
  PROVE  \E f : Upto(f, s, K, Len(s)) /\ Kept(s, K) = f[Len(s)]
<1> DEFINE f == CHOOSE f : Upto(f, s, K, Len(s))
<1>1. Upto(f, s, K, Len(s))
  BY UptoExists
<1>2. Kept(s, K) = f[Len(s)]
  BY DEF Kept, Upto
<1> QED
  BY <1>1, <1>2

\* What is kept of no file,
LEMMA KeptEmpty ==
  ASSUME NEW K PROVE Kept(<< >>, K) = << >>
<1> DEFINE e == << >>
<1>1. e \in Seq({}) /\ Len(e) = 0
  OBVIOUS
<1> HIDE DEF e
<1>2. PICK f : Upto(f, e, K, Len(e)) /\ Kept(e, K) = f[Len(e)]
  BY <1>1, KeptUpto
<1>3. f[0] = << >>
  BY <1>1, <1>2 DEF Upto
<1>4. Kept(e, K) = << >>
  BY <1>1, <1>2, <1>3
<1> QED
  BY <1>4 DEF e

\* of a sequence with one more:
LEMMA KeptAppend ==
  ASSUME NEW T, NEW s \in Seq(T), NEW m \in T, NEW K
  PROVE  Kept(Append(s, m), K) = IF m \in K THEN Append(Kept(s, K), m) ELSE Kept(s, K)
<1> DEFINE t == Append(s, m)
           n == Len(s)
<1>1. t \in Seq(T) /\ Len(t) = n + 1 /\ n \in Nat /\ t[n + 1] = m /\ \A i \in 1 .. n : s[i] = t[i]
  OBVIOUS
<1>2. PICK f : Upto(f, s, K, n) /\ Kept(s, K) = f[n]
  BY KeptUpto
<1>3. PICK g : Upto(g, t, K, n + 1) /\ Kept(t, K) = g[n + 1]
  BY <1>1, KeptUpto
<1> HIDE DEF t, n
<1>4. f[n] = g[n]
  BY <1>1, <1>2, <1>3, UptoAgrees
<1>5. g[n + 1] = IF m \in K THEN Append(g[n], m) ELSE g[n]
  <2>1. g[n + 1] = IF t[n + 1] \in K THEN Append(g[n], t[n + 1]) ELSE g[n]
    BY <1>1, <1>3, UptoNext
  <2> QED
    BY <2>1, <1>1
<1> QED
  BY <1>2, <1>3, <1>4, <1>5 DEF t

\* An element put last
LEMMA AppendedSet ==
  ASSUME NEW T, NEW q \in Seq(T), NEW m \in T
  PROVE  ToSet(Append(q, m)) = ToSet(q) \cup {m}
<1> DEFINE p == Append(q, m)
<1>1. /\ Len(p) = Len(q) + 1 /\ Len(q) \in Nat /\ p[Len(q) + 1] = m /\ p \in Seq(T)
      /\ \A i \in 1 .. Len(q) : p[i] = q[i]
  OBVIOUS
<1> HIDE DEF p
<1>2. DOMAIN p = 1 .. Len(p) /\ DOMAIN q = 1 .. Len(q)
  BY <1>1
<1>3. 1 .. Len(p) = (1 .. Len(q)) \cup {Len(q) + 1}
  BY <1>1
<1>4. ToSet(p) = ToSet(q) \cup {m}
  BY <1>1, <1>2, <1>3 DEF ToSet
<1> QED
  BY <1>4 DEF p

\* What is kept of a sequence are its elements in K, and what is not kept are the others.
LEMMA KeptParts ==
  ASSUME NEW T, NEW q \in Seq(T), NEW K
  PROVE  /\ Kept(q, K) \in Seq(T) /\ ToSet(Kept(q, K)) = ToSet(q) \cap K
         /\ Len(Kept(q, K)) + Len(Kept(q, T \ K)) = Len(q)
<1> DEFINE Parts(s) == /\ Kept(s, K) \in Seq(T) /\ Kept(s, T \ K) \in Seq(T)
                       /\ ToSet(Kept(s, K)) = ToSet(s) \cap K
                       /\ Len(Kept(s, K)) + Len(Kept(s, T \ K)) = Len(s)
           S == {s \in Seq(T) : Parts(s)}
<1>1. << >> \in S
  <2>1. Kept(<< >>, K) = << >> /\ Kept(<< >>, T \ K) = << >>
    BY KeptEmpty
  <2>2. << >> \in Seq(T) /\ Len(<< >>) = 0 /\ ToSet(<< >>) = {}
    BY DEF ToSet
  <2>3. Parts(<< >>)
    <3> DEFINE e == << >>
    <3>1. /\ Kept(e, K) = e /\ Kept(e, T \ K) = e /\ e \in Seq(T) /\ Len(e) = 0
          /\ ToSet(e) = {} /\ Len(e) + Len(e) = Len(e)
      BY <2>1, <2>2
    <3> HIDE DEF e
    <3>2. Parts(e)
      <4>1. Kept(e, K) \in Seq(T) /\ Kept(e, T \ K) \in Seq(T)
        BY <3>1
      <4>2. ToSet(Kept(e, K)) = ToSet(e) \cap K
        BY <3>1
      <4>3. Len(Kept(e, K)) + Len(Kept(e, T \ K)) = Len(e)
        BY <3>1
      <4> QED
        BY <4>1, <4>2, <4>3
    <3> QED
      BY <3>2 DEF e
  <2> HIDE DEF Parts
  <2> QED
    BY <2>2, <2>3
<1>2. ASSUME NEW s \in Seq(T), NEW m \in T, s \in S PROVE Append(s, m) \in S
  <2>1. Append(s, m) \in Seq(T) /\ Parts(s)
    BY <1>2
  <2>2. Kept(Append(s, m), K) = IF m \in K THEN Append(Kept(s, K), m) ELSE Kept(s, K)
    BY KeptAppend
  <2>3. Kept(Append(s, m), T \ K) = IF m \in K THEN Kept(s, T \ K) ELSE Append(Kept(s, T \ K), m)
    BY KeptAppend
  <2>4. /\ Kept(Append(s, m), K) \in Seq(T) /\ Kept(Append(s, m), T \ K) \in Seq(T)
        /\ Len(Kept(Append(s, m), K)) + Len(Kept(Append(s, m), T \ K)) = Len(Append(s, m))
    <3> DEFINE a == Kept(s, K)
               b == Kept(s, T \ K)
    <3>1. a \in Seq(T) /\ b \in Seq(T) /\ Len(a) + Len(b) = Len(s)
      BY <2>1
    <3> HIDE DEF a, b
    <3>2. /\ Append(a, m) \in Seq(T) /\ Len(Append(a, m)) = Len(a) + 1 /\ Len(a) \in Nat
          /\ Append(b, m) \in Seq(T) /\ Len(Append(b, m)) = Len(b) + 1 /\ Len(b) \in Nat
          /\ Len(Append(s, m)) = Len(s) + 1
      BY <3>1
    <3>3. CASE m \in K
      <4>1. Kept(Append(s, m), K) = Append(a, m) /\ Kept(Append(s, m), T \ K) = b
        BY <2>2, <2>3, <3>3 DEF a, b
      <4> QED
        BY <3>1, <3>2, <4>1
    <3>4. CASE m \notin K
      <4>1. Kept(Append(s, m), K) = a /\ Kept(Append(s, m), T \ K) = Append(b, m)
        BY <2>2, <2>3, <3>4 DEF a, b
      <4>2. \A x, y, z \in Nat : x + y = z => x + (y + 1) = z + 1
        OBVIOUS
      <4>3. Len(a) + (Len(b) + 1) = Len(s) + 1
        BY <3>1, <3>2, <4>2, LenProperties
      <4> QED
        BY <3>1, <3>2, <4>1, <4>3
    <3> QED
      BY <3>3, <3>4
  <2>5. ToSet(Kept(Append(s, m), K)) = ToSet(Append(s, m)) \cap K
    <3>1. \A r \in Seq(T) : ToSet(Append(r, m)) = ToSet(r) \cup {m}
      BY AppendedSet
    <3> QED
      BY <2>1, <2>2, <3>1
  <2> HIDE DEF Parts
  <2> QED
    BY <2>1, <2>4, <2>5 DEF Parts
<1> HIDE DEF S
<1>3. q \in S
  BY <1>1, <1>2, Ind!SeqInduction
<1> QED
  BY <1>3 DEF S

\* A sequence has at most as many elements as it is long.
LEMMA SetOfSequence ==
  ASSUME NEW T, NEW q \in Seq(T)
  PROVE  IsFiniteSet(ToSet(q)) /\ Cardinality(ToSet(q)) \in Nat /\ Cardinality(ToSet(q)) <= Len(q)
<1> DEFINE S == {s \in Seq(T) : IsFiniteSet(ToSet(s)) /\ Cardinality(ToSet(s)) <= Len(s)}
<1>1. << >> \in S
  <2> DEFINE e == << >>
  <2>1. e \in Seq(T) /\ Len(e) = 0 /\ ToSet(e) = {}
    BY DEF ToSet
  <2> HIDE DEF e
  <2>2. IsFiniteSet(ToSet(e)) /\ Cardinality(ToSet(e)) = 0
    BY <2>1, FS_EmptySet
  <2>3. e \in S
    BY <2>1, <2>2
  <2> QED
    BY <2>3 DEF e
<1>2. ASSUME NEW s \in Seq(T), NEW m \in T, s \in S PROVE Append(s, m) \in S
  <2>1. ToSet(Append(s, m)) = ToSet(s) \cup {m}
    BY AppendedSet
  <2>2. IsFiniteSet(ToSet(s)) /\ Cardinality(ToSet(s)) <= Len(s) /\ Cardinality(ToSet(s)) \in Nat
    BY <1>2, FS_CardinalityType
  <2>3. /\ IsFiniteSet(ToSet(s) \cup {m})
        /\ Cardinality(ToSet(s) \cup {m}) \in {Cardinality(ToSet(s)), Cardinality(ToSet(s)) + 1}
    BY <2>2, FS_AddElement
  <2>4. Append(s, m) \in Seq(T) /\ Len(Append(s, m)) = Len(s) + 1 /\ Len(s) \in Nat
    OBVIOUS
  <2>5. Cardinality(ToSet(Append(s, m))) <= Len(Append(s, m))
    BY <2>1, <2>2, <2>3, <2>4
  <2>6. IsFiniteSet(ToSet(Append(s, m)))
    BY <2>1, <2>3
  <2> QED
    BY <2>4, <2>5, <2>6
<1> HIDE DEF S
<1>3. q \in S
  BY <1>1, <1>2, Ind!SeqInduction
<1> QED
  BY <1>3, FS_CardinalityType DEF S

\* q has the elements of S, each once.
Lists(q, S) == q \in Seq(File) /\ ToSet(q) = S /\ Len(q) = Cardinality(S)

\* What is kept of a list is a list: neither the part that is kept nor the other can have
\* an element twice, since together they are as long as there are elements.
LEMMA KeptLists ==
  ASSUME NEW q, NEW S, Lists(q, S), NEW K
  PROVE  Lists(Kept(q, K), S \cap K) /\ IsFiniteSet(S \cap K)
<1> DEFINE a == Kept(q, K)
           b == Kept(q, File \ K)
<1>1. q \in Seq(File) /\ ToSet(q) = S /\ Len(q) = Cardinality(S) /\ S \subseteq File
  BY DEF Lists, ToSet
<1>2. /\ a \in Seq(File) /\ ToSet(a) = S \cap K
      /\ b \in Seq(File) /\ ToSet(b) = S \cap (File \ K) /\ Len(a) + Len(b) = Len(q)
  BY <1>1, KeptParts
<1>3. S = (S \cap K) \cup (S \cap (File \ K)) /\ (S \cap K) \cap (S \cap (File \ K)) = {}
  BY <1>1
<1> DEFINE X == S \cap K
           Y == S \cap (File \ K)
<1> HIDE DEF a, b
<1>4. /\ IsFiniteSet(X) /\ Cardinality(X) \in Nat
      /\ Cardinality(X) <= Len(a) /\ Len(a) \in Nat
  <2>1. a \in Seq(File) /\ Len(a) \in Nat
    BY <1>2
  <2>2. /\ IsFiniteSet(ToSet(a)) /\ Cardinality(ToSet(a)) \in Nat
        /\ Cardinality(ToSet(a)) <= Len(a)
    BY <2>1, SetOfSequence
  <2> QED
    BY <1>2, <2>1, <2>2
<1>5. /\ IsFiniteSet(Y) /\ Cardinality(Y) \in Nat
      /\ Cardinality(Y) <= Len(b) /\ Len(b) \in Nat
  <2>1. b \in Seq(File) /\ Len(b) \in Nat
    BY <1>2
  <2>2. /\ IsFiniteSet(ToSet(b)) /\ Cardinality(ToSet(b)) \in Nat
        /\ Cardinality(ToSet(b)) <= Len(b)
    BY <2>1, SetOfSequence
  <2> QED
    BY <1>2, <2>1, <2>2
<1>6. Cardinality(S) = Cardinality(X) + Cardinality(Y)
  <2>1. S = X \cup Y /\ X \cap Y = {}
    BY <1>3
  <2> HIDE DEF X, Y
  <2>2. Cardinality(X \cup Y) = Cardinality(X) + Cardinality(Y) - Cardinality(X \cap Y)
    BY <1>4, <1>5, FS_Union
  <2>3. Cardinality(X \cap Y) = 0
    BY <2>1, FS_EmptySet
  <2> QED
    BY <1>4, <1>5, <2>1, <2>2, <2>3
<1>7. Len(a) = Cardinality(S \cap K)
  BY <1>1, <1>2, <1>4, <1>5, <1>6
<1> QED
  BY <1>2, <1>4, <1>7 DEF Lists, a

\* A file that is not on a list may be put first.
LEMMA FirstLists ==
  ASSUME NEW q, NEW S, Lists(q, S), NEW f \in File \ S
  PROVE  Lists(<<f>> \o q, S \cup {f})
<1> DEFINE p == <<f>> \o q
<1>1. q \in Seq(File) /\ ToSet(q) = S /\ Len(q) = Cardinality(S)
  BY DEF Lists
<1>2. p \in Seq(File) /\ Len(p) = Len(q) + 1 /\ Len(q) \in Nat /\ p[1] = f
      /\ \A i \in 1 .. Len(q) : p[i + 1] = q[i]
  BY <1>1
<1> HIDE DEF p
<1>3. ToSet(p) = ToSet(q) \cup {f}
  <2>1. DOMAIN p = 1 .. Len(p) /\ DOMAIN q = 1 .. Len(q)
    BY <1>1, <1>2
  <2>2. ASSUME NEW i \in 1 .. Len(p) PROVE p[i] \in ToSet(q) \cup {f}
    <3>1. CASE i = 1
      BY <3>1, <1>2
    <3>2. CASE i # 1
      <4>1. PICK j \in 1 .. Len(q) : j + 1 = i
        BY <3>2, <1>2
      <4>2. p[i] = q[j]
        BY <4>1, <1>2
      <4> QED
        BY <4>2, <2>1 DEF ToSet
    <3> QED
      BY <3>1, <3>2
  <2>3. ASSUME NEW j \in 1 .. Len(q) PROVE q[j] \in ToSet(p)
    <3>1. j + 1 \in 1 .. Len(p) /\ p[j + 1] = q[j]
      BY <1>2
    <3> QED
      BY <3>1, <2>1 DEF ToSet
  <2>4. f \in ToSet(p)
    BY <1>2, <2>1 DEF ToSet
  <2> QED
    BY <2>1, <2>2, <2>3, <2>4 DEF ToSet
<1>4. IsFiniteSet(S)
  BY <1>1, SetOfSequence
<1>5. Cardinality(S \cup {f}) = Cardinality(S) + 1
  BY <1>4, FS_AddElement
<1> QED
  BY <1>1, <1>2, <1>3, <1>5 DEF Lists, p

\* The inductive invariant: the FIFO lists the hash, num_cached counts it, and the cache is
\* never larger than the parameter says.
Counted ==
  /\ Lists(fifo, Cached) /\ IsFiniteSet(Cached)
  /\ num_cached = Cardinality(Cached)
  /\ num_cached <= cache_size /\ cache_size <= max_cached

Typed ==
  /\ disk \in [File -> Content \cup {NoFile}]
  /\ Cached \subseteq File /\ mem \in [Cached -> Content]
  /\ dirty \subseteq Cached /\ cut \subseteq Cached
  /\ max_cached \in 0 .. MaxCached /\ cache_size \in 0 .. MaxCached
  /\ have_filecache \in BOOLEAN /\ expire_timer \in BOOLEAN
  /\ adding \in [Sysop -> Feeling \cup {NoFile}]
  /\ got \in File \X (Content \cup {NoFile})

CInv == Typed /\ Counted

\* What Keep leaves is listed.
LEMMA KeepListed ==
  ASSUME CInv, NEW K \in SUBSET Cached, Keep(K)
  PROVE  /\ Cached' = K /\ Lists(fifo', Cached') /\ IsFiniteSet(Cached')
         /\ mem' \in [Cached' -> Content]
         /\ dirty' \subseteq Cached' /\ cut' \subseteq Cached'
<1>1. Cached' = K /\ fifo' = Kept(fifo, K) /\ Cached \cap K = K
  BY DEF Keep, Cached
<1>2. Lists(fifo', K) /\ IsFiniteSet(K)
  <2>1. Lists(fifo, Cached)
    BY DEF CInv, Counted
  <2>2. Lists(Kept(fifo, K), Cached \cap K) /\ IsFiniteSet(Cached \cap K)
    BY <2>1, KeptLists
  <2> QED
    BY <1>1, <2>2
<1>3. mem' \in [K -> Content] /\ dirty' \subseteq K /\ cut' \subseteq K
  BY DEF Keep, CInv, Typed
<1> QED
  BY <1>1, <1>2, <1>3

\* Drop counts what it takes out.
LEMMA DropCounts ==
  ASSUME CInv, NEW F, Drop(F), UNCHANGED params
  PROVE  /\ Counted' /\ Cached' \subseteq Cached /\ mem' \in [Cached' -> Content]
         /\ dirty' \subseteq Cached' /\ cut' \subseteq Cached'
<1> DEFINE K == Cached \ F
           L == Cached \cap F
<1>1. K \in SUBSET Cached /\ Keep(K) /\ num_cached' = num_cached - Cardinality(L)
  BY DEF Drop
<1>2. /\ Cached' = K /\ Lists(fifo', Cached') /\ IsFiniteSet(Cached')
      /\ mem' \in [Cached' -> Content]
      /\ dirty' \subseteq Cached' /\ cut' \subseteq Cached'
  BY <1>1, KeepListed
<1>3. Cached = K \cup L /\ K \cap L = {} /\ L \in SUBSET Cached
  OBVIOUS
<1> HIDE DEF K, L
<1>4. IsFiniteSet(Cached) /\ IsFiniteSet(K) /\ IsFiniteSet(L)
  BY <1>1, <1>3, FS_Subset DEF CInv, Counted
<1>5. Cardinality(Cached) \in Nat /\ Cardinality(K) \in Nat /\ Cardinality(L) \in Nat
  BY <1>4, FS_CardinalityType
<1>6. Cardinality(Cached) = Cardinality(K) + Cardinality(L)
  <2>1. Cardinality(K \cup L) = Cardinality(K) + Cardinality(L) - Cardinality(K \cap L)
    BY <1>4, FS_Union
  <2>2. Cardinality(K \cap L) = 0
    BY <1>3, FS_EmptySet
  <2> QED
    BY <1>3, <1>5, <2>1, <2>2
<1>7. num_cached' = Cardinality(Cached') /\ num_cached' <= num_cached
  BY <1>1, <1>2, <1>5, <1>6 DEF CInv, Counted
<1>8. cache_size' = cache_size /\ max_cached' = max_cached
  BY DEF params
<1>9. num_cached' <= cache_size' /\ cache_size' <= max_cached'
  <2>1. num_cached \in Nat /\ num_cached' \in Nat /\ cache_size \in Nat
    BY <1>2, <1>5, <1>7 DEF CInv, Counted, Typed
  <2> QED
    BY <1>7, <1>8, <2>1 DEF CInv, Counted
<1> QED
  BY <1>1, <1>2, <1>7, <1>9 DEF Counted

\* The file that is expired is one of the files, or the new one.
LEMMA LastListed ==
  ASSUME NEW q \in Seq(File), NEW f \in File
  PROVE  Last(<<f>> \o q) \in ToSet(q) \cup {f}
<1> DEFINE p == <<f>> \o q
<1>1. /\ Len(p) = Len(q) + 1 /\ Len(q) \in Nat /\ p[1] = f
      /\ \A i \in 1 .. Len(q) : p[i + 1] = q[i]
  OBVIOUS
<1> HIDE DEF p
<1>2. CASE Len(q) = 0
  <2>1. Len(p) = 1
    BY <1>1, <1>2
  <2>2. Last(p) = f
    BY <1>1, <2>1 DEF Last
  <2> QED
    BY <2>2 DEF p
<1>3. CASE Len(q) # 0
  <2>1. Len(q) \in 1 .. Len(q) /\ p[Len(q) + 1] = q[Len(q)]
    BY <1>1, <1>3
  <2>2. Last(p) = q[Len(q)]
    BY <1>1, <2>1 DEF Last
  <2>3. q[Len(q)] \in ToSet(q)
    BY <2>1, LenProperties DEF ToSet
  <2> QED
    BY <2>2, <2>3 DEF p
<1> QED
  BY <1>2, <1>3

\* A file that is saved, or is not, leaves the disk and the flags well typed.
LEMMA SyncTypes ==
  ASSUME CInv, NEW f \in File, NEW v \in Content, Sync(f, v)
  PROVE  /\ disk' \in [File -> Content \cup {NoFile}]
         /\ dirty' \subseteq Staying(f) /\ cut' \subseteq Staying(f)
  BY DEF Sync, CInv, Typed

\* Use counts as many as stay.
LEMMA UseCounts ==
  ASSUME CInv, NEW f \in File, NEW v \in Content, Use(f, v), UNCHANGED params
  PROVE  /\ Counted' /\ Cached' = Staying(f) /\ Cached' \subseteq File
         /\ mem' \in [Cached' -> Content]
<1> DEFINE p == Kept(fifo, File \ {f})
           S == Staying(f)
           n == Cardinality(Cached)
<1>1. /\ Lists(fifo, Cached) /\ IsFiniteSet(Cached) /\ Cached \subseteq File
      /\ num_cached = n /\ n \in Nat /\ n <= cache_size
      /\ cache_size \in Nat /\ mem \in [Cached -> Content]
  BY FS_CardinalityType DEF CInv, Counted, Typed
<1>2. Cached' = S
  BY DEF Use, Cached
<1>3. S \subseteq Cached \cup {f}
  BY DEF Staying
<1>4. mem' \in [Cached' -> Content]
  BY <1>1, <1>2, <1>3 DEF Use
<1>5. Lists(<<f>> \o p, Cached \cup {f})
  <2>1. Lists(p, Cached \cap (File \ {f}))
    BY <1>1, KeptLists
  <2>2. Cached \cap (File \ {f}) = Cached \ {f}
    BY <1>1
  <2>3. Lists(p, Cached \ {f}) /\ f \in File \ (Cached \ {f})
    BY <2>1, <2>2
  <2>4. Lists(<<f>> \o p, (Cached \ {f}) \cup {f})
    BY <2>3, FirstLists
  <2>5. (Cached \ {f}) \cup {f} = Cached \cup {f}
    OBVIOUS
  <2> QED
    BY <2>4, <2>5
<1>6. Lists(fifo', S) /\ IsFiniteSet(S)
  <2>1. fifo' = Kept(<<f>> \o p, S)
    BY DEF Use
  <2>2. (Cached \cup {f}) \cap S = S
    BY <1>3
  <2>3. /\ Lists(Kept(<<f>> \o p, S), (Cached \cup {f}) \cap S)
        /\ IsFiniteSet((Cached \cup {f}) \cap S)
    BY <1>5, KeptLists
  <2> QED
    BY <2>1, <2>2, <2>3
<1>7. num_cached' = Cardinality(S) /\ num_cached' <= cache_size
  <2>1. CASE cache_size = 0
    <3>1. S = {} /\ num_cached' = num_cached
      BY <2>1 DEF Staying, Use
    <3>2. Cardinality(S) = 0
      BY <3>1, FS_EmptySet
    <3> QED
      BY <1>1, <2>1, <3>1, <3>2
  <2>2. CASE cache_size # 0 /\ f \in Cached
    <3>1. S = Cached /\ num_cached' = num_cached
      BY <2>2 DEF Staying, Use, Full
    <3> QED
      BY <1>1, <3>1
  <2>3. CASE cache_size # 0 /\ f \notin Cached /\ ~Full(f)
    <3>1. S = Cached \cup {f} /\ num_cached' = num_cached + 1 /\ num_cached + 1 <= cache_size
      BY <1>1, <2>3 DEF Staying, Use, Full
    <3>2. Cardinality(Cached \cup {f}) = n + 1
      BY <1>1, <2>3, FS_AddElement
    <3> QED
      BY <1>1, <3>1, <3>2
  <2>4. CASE cache_size # 0 /\ f \notin Cached /\ Full(f)
    <3> DEFINE l == Last(<<f>> \o fifo)
    <3>1. S = (Cached \cup {f}) \ {l} /\ num_cached' = num_cached
      BY <2>4 DEF Staying, Use
    <3>2. l \in Cached \cup {f}
      BY <1>1, LastListed DEF Lists
    <3>3. IsFiniteSet(Cached \cup {f}) /\ Cardinality(Cached \cup {f}) = n + 1
      BY <1>1, <2>4, FS_AddElement
    <3> HIDE DEF l
    <3>4. Cardinality((Cached \cup {f}) \ {l}) = Cardinality(Cached \cup {f}) - 1
      BY <3>2, <3>3, FS_RemoveElement
    <3> QED
      BY <1>1, <3>1, <3>3, <3>4
  <2> QED
    BY <2>1, <2>2, <2>3, <2>4
<1>8. cache_size' = cache_size /\ max_cached' = max_cached
  BY DEF params
<1>9. Counted'
  BY <1>2, <1>6, <1>7, <1>8 DEF Counted, CInv
<1> QED
  BY <1>1, <1>2, <1>3, <1>4, <1>9

\* The cache starts empty.
LEMMA CacheInit == Init => CInv
<1> SUFFICES ASSUME Init PROVE CInv
  OBVIOUS
<1>1. Cached = {} /\ fifo = << >> /\ num_cached = 0 /\ cache_size = MaxCached /\ max_cached = MaxCached
  BY DEF Init, Cached
<1>2. Typed
  BY <1>1, FileAssumption DEF Typed, Init
<1>3. IsFiniteSet({}) /\ Cardinality({}) = 0
  BY FS_EmptySet
<1>4. << >> \in Seq(File) /\ Len(<< >>) = 0 /\ ToSet(<< >>) = {}
  BY DEF ToSet
<1>5. Counted
  BY <1>1, <1>3, <1>4, FileAssumption DEF Counted, Lists
<1> QED
  BY <1>2, <1>5 DEF CInv

\* A use of a file keeps the cache listed.
LEMMA ReadCounts ==
  ASSUME CInv, NEW f \in File, Read(f)
  PROVE  CInv'
<1> DEFINE v == IF f \in Cached THEN mem[f] ELSE disk[f]
<1>1. v \in Content
  BY DEF Read, CInv, Typed
<1>2. /\ Use(f, v) /\ UNCHANGED params /\ UNCHANGED adding /\ got' = <<f, v>>
      /\ IF f \in dirty THEN Sync(f, v)
         ELSE /\ dirty' = dirty \cap Staying(f) /\ cut' = cut \cap Staying(f)
              /\ UNCHANGED disk
  BY DEF Read
<1> HIDE DEF v
<1>3. /\ Counted' /\ Cached' = Staying(f) /\ Cached' \subseteq File
      /\ mem' \in [Cached' -> Content]
  BY <1>1, <1>2, UseCounts
<1>4. /\ disk' \in [File -> Content \cup {NoFile}]
      /\ dirty' \subseteq Staying(f) /\ cut' \subseteq Staying(f)
  <2>1. CASE Sync(f, v)
    BY <1>1, <2>1, SyncTypes
  <2>2. CASE dirty' = dirty \cap Staying(f) /\ cut' = cut \cap Staying(f) /\ UNCHANGED disk
    BY <2>2 DEF CInv, Typed
  <2> QED
    BY <1>2, <2>1, <2>2
<1>5. Typed'
  BY <1>1, <1>2, <1>3, <1>4 DEF Typed, CInv, params
<1> QED
  BY <1>3, <1>5 DEF CInv

\* A file that is saved is used.
LEMMA WriteCounts ==
  ASSUME CInv, NEW f \in File, NEW v \in Content, Write(f, v)
  PROVE  CInv'
<1>1. Use(f, v) /\ Sync(f, v) /\ UNCHANGED params /\ UNCHANGED <<adding, got>>
  BY DEF Write
<1>2. /\ Counted' /\ Cached' = Staying(f) /\ Cached' \subseteq File
      /\ mem' \in [Cached' -> Content]
  BY <1>1, UseCounts
<1>3. /\ disk' \in [File -> Content \cup {NoFile}]
      /\ dirty' \subseteq Staying(f) /\ cut' \subseteq Staying(f)
  BY <1>1, SyncTypes
<1>4. Typed'
  BY <1>1, <1>2, <1>3 DEF Typed, CInv, params
<1> QED
  BY <1>2, <1>4 DEF CInv

\* What takes files out of the cache keeps it listed.
LEMMA DropCInv ==
  ASSUME CInv, NEW F, Drop(F), UNCHANGED <<params, adding, got>>,
         disk' \in [File -> Content \cup {NoFile}]
  PROVE  CInv'
<1>1. UNCHANGED params
  OBVIOUS
<1>2. /\ Counted' /\ Cached' \subseteq Cached /\ mem' \in [Cached' -> Content]
      /\ dirty' \subseteq Cached' /\ cut' \subseteq Cached'
  BY <1>1, DropCounts
<1>3. Typed'
  BY <1>2 DEF Typed, CInv, params
<1> QED
  BY <1>2, <1>3 DEF CInv

\* Every way a file leaves the cache, and may change on disk, is such.
LEMMA RemovalsCount ==
  ASSUME CInv,
         \/ \E f \in File : Uncache(f) \/ Unlink(f) \/ \E v \in Content : Upload(f, v)
         \/ \E F \in Trash : RenameDir(F)
         \/ Expire
  PROVE  CInv'
<1>1. ASSUME NEW f \in File, Uncache(f) PROVE CInv'
  BY <1>1, DropCInv DEF Uncache, CInv, Typed
<1>2. ASSUME NEW f \in File, Unlink(f) PROVE CInv'
  <2>1. Drop({f}) /\ UNCHANGED <<params, adding, got>>
    BY <1>2 DEF Unlink
  <2>2. disk' \in [File -> Content \cup {NoFile}]
    BY <1>2 DEF Unlink, CInv, Typed
  <2> QED
    BY <2>1, <2>2, DropCInv
<1>3. ASSUME NEW f \in File, NEW v \in Content, Upload(f, v) PROVE CInv'
  <2>1. Drop({f}) /\ UNCHANGED <<params, adding, got>>
    BY <1>3 DEF Upload
  <2>2. disk' \in [File -> Content \cup {NoFile}]
    BY <1>3 DEF Upload, SaveText, CInv, Typed
  <2> QED
    BY <2>1, <2>2, DropCInv
<1>4. ASSUME NEW F \in Trash, RenameDir(F) PROVE CInv'
  <2>1. Drop(F) /\ UNCHANGED <<params, adding, got>>
    BY <1>4 DEF RenameDir
  <2>2. disk' \in [File -> Content \cup {NoFile}]
    BY <1>4 DEF RenameDir, CInv, Typed
  <2> QED
    BY <2>1, <2>2, DropCInv
<1>5. ASSUME Expire PROVE CInv'
  <2>1. PICK k \in 0 .. Len(fifo) - 1 : Drop(Cached \ {fifo[i] : i \in 1 .. k})
    BY <1>5 DEF Expire
  <2>2. UNCHANGED <<disk, params, adding, got>>
    BY <1>5 DEF Expire
  <2> DEFINE F == Cached \ {fifo[i] : i \in 1 .. k}
  <2>3. Drop(F) /\ disk' \in [File -> Content \cup {NoFile}]
    BY <2>1, <2>2 DEF CInv, Typed
  <2> HIDE DEF F
  <2> QED
    BY <2>2, <2>3, DropCInv
<1> QED
  BY <1>1, <1>2, <1>3, <1>4, <1>5

\* A cache that is turned off is empty, and one that is resized counts what stays.
LEMMA SizesCount ==
  ASSUME CInv, ToggleFileCache \/ \E n \in 0 .. MaxCached : SetMaxCached(n)
  PROVE  CInv'
<1>1. UNCHANGED <<disk, adding, got>>
  BY DEF ToggleFileCache, SetMaxCached
<1>2. have_filecache' \in BOOLEAN
  BY DEF ToggleFileCache, SetMaxCached, CInv, Typed
<1>3. /\ Lists(fifo, Cached) /\ IsFiniteSet(Cached) /\ num_cached = Cardinality(Cached)
      /\ num_cached \in Nat /\ num_cached <= cache_size /\ cache_size <= max_cached
      /\ cache_size \in 0 .. MaxCached /\ max_cached \in 0 .. MaxCached /\ MaxCached \in Nat
      /\ mem \in [Cached -> Content] /\ Cached \subseteq File
      /\ dirty \subseteq Cached /\ cut \subseteq Cached /\ expire_timer \in BOOLEAN
  BY FS_CardinalityType, FileAssumption DEF CInv, Counted, Typed
<1>4. ASSUME Deinit, max_cached' \in 0 .. MaxCached PROVE CInv'
  <2>1. Keep({}) /\ cache_size' = 0 /\ num_cached' = 0 /\ expire_timer' = FALSE
    BY <1>4 DEF Deinit
  <2>2. /\ Cached' = {} /\ Lists(fifo', Cached') /\ IsFiniteSet(Cached')
        /\ mem' \in [Cached' -> Content] /\ dirty' \subseteq Cached' /\ cut' \subseteq Cached'
    BY <2>1, KeepListed
  <2>3. Counted'
    BY <1>4, <2>1, <2>2, FS_EmptySet DEF Counted
  <2>4. cache_size' \in 0 .. MaxCached /\ Cached' \subseteq File
    BY <1>3, <2>1, <2>2
  <2>5. expire_timer' \in BOOLEAN
    BY <2>1, Zenon
  <2>6. Typed'
    BY <1>1, <1>2, <1>4, <2>2, <2>4, <2>5 DEF CInv, Typed
  <2> QED
    BY <2>3, <2>6 DEF CInv
<1>5. ASSUME NEW n \in 0 .. MaxCached, Resize(n), max_cached' = n PROVE CInv'
  <2>1. cache_size' = n /\ UNCHANGED expire_timer /\ num_cached' <= n
    BY <1>3, <1>5 DEF Resize
  <2>2. PICK K \in SUBSET Cached : Cardinality(K) = num_cached' /\ Keep(K)
    BY <1>5 DEF Resize
  <2>3. /\ Cached' = K /\ Lists(fifo', Cached') /\ IsFiniteSet(Cached')
        /\ mem' \in [Cached' -> Content] /\ dirty' \subseteq Cached' /\ cut' \subseteq Cached'
    BY <2>2, KeepListed
  <2>4. Counted'
    BY <1>5, <2>1, <2>2, <2>3 DEF Counted
  <2>5. Typed'
    BY <1>1, <1>2, <1>3, <1>5, <2>1, <2>3 DEF CInv, Typed
  <2> QED
    BY <2>4, <2>5 DEF CInv
<1>6. ASSUME UNCHANGED <<fifo, mem, dirty, cut, num_cached>>,
             cache_size' \in 0 .. MaxCached, max_cached' \in 0 .. MaxCached,
             cache_size <= cache_size', cache_size' <= max_cached', expire_timer' \in BOOLEAN
      PROVE  CInv'
  <2>1. Cached' = Cached
    BY <1>6 DEF Cached
  <2>2. num_cached' <= cache_size'
    BY <1>3, <1>6
  <2>3. Counted'
    BY <1>3, <1>6, <2>1, <2>2 DEF Counted
  <2>4. Typed'
    BY <1>1, <1>2, <1>3, <1>6, <2>1 DEF CInv, Typed
  <2> QED
    BY <2>3, <2>4 DEF CInv
<1>7. ASSUME NEW n \in 0 .. MaxCached, SetMaxCached(n) PROVE CInv'
  <2>1. max_cached' = n
    BY <1>7 DEF SetMaxCached
  <2>2. CASE n = cache_size /\ UNCHANGED <<fifo, mem, dirty, cut, cache_size, num_cached, expire_timer>>
    <3>1. /\ UNCHANGED <<fifo, mem, dirty, cut, num_cached>>
          /\ cache_size' \in 0 .. MaxCached /\ max_cached' \in 0 .. MaxCached
          /\ cache_size <= cache_size' /\ cache_size' <= max_cached' /\ expire_timer' \in BOOLEAN
      BY <1>3, <1>7, <2>1, <2>2
    <3> QED
      BY <1>6, <3>1
  <2>3. CASE Deinit
    BY <1>4, <2>1, <2>3
  <2>4. CASE Resize(n)
    BY <1>5, <2>1, <2>4
  <2> QED
    BY <1>7, <2>2, <2>3, <2>4 DEF SetMaxCached
<1>8. ASSUME ToggleFileCache PROVE CInv'
  <2>1. max_cached' = max_cached
    BY <1>8 DEF ToggleFileCache
  <2>2. CASE Deinit
    BY <1>3, <1>4, <2>1, <2>2
  <2>3. CASE /\ IF max_cached > 0 THEN cache_size' = max_cached /\ expire_timer' = TRUE
                ELSE UNCHANGED <<cache_size, expire_timer>>
             /\ UNCHANGED <<fifo, mem, dirty, cut, num_cached>>
    <3>1. cache_size' \in {max_cached, cache_size}
      BY <2>3
    <3>2. expire_timer' \in BOOLEAN
      BY <1>3, <2>3
    <3>3. /\ cache_size' \in 0 .. MaxCached /\ cache_size <= cache_size'
          /\ cache_size' <= max_cached'
      BY <1>3, <2>1, <3>1
    <3> QED
      BY <1>3, <1>6, <2>1, <2>3, <3>2, <3>3
  <2> QED
    BY <1>8, <2>2, <2>3 DEF ToggleFileCache
<1> QED
  BY <1>7, <1>8

\* Every step keeps the cache listed and counted.
LEMMA CacheSteps ==
  ASSUME CInv, [Next]_vars
  PROVE  CInv'
<1>1. ASSUME UNCHANGED <<fifo, mem, dirty, cut, params, num_cached>>,
             disk' \in [File -> Content \cup {NoFile}],
             adding' \in [Sysop -> Feeling \cup {NoFile}],
             got' \in File \X (Content \cup {NoFile})
      PROVE  CInv'
  <2>1. Cached' = Cached
    BY <1>1 DEF Cached
  <2> QED
    BY <1>1, <2>1 DEF CInv, Typed, Counted, params
<1>2. CASE UNCHANGED vars
  BY <1>1, <1>2 DEF vars, params, CInv, Typed
<1>3. ASSUME NEW f \in File, ReadNone(f) PROVE CInv'
  BY <1>1, <1>3 DEF ReadNone, params, CInv, Typed
<1>4. ASSUME NEW s \in Sysop, NEW f \in File, AddFeeling(s, f) PROVE CInv'
  BY <1>1, <1>4 DEF AddFeeling, params, CInv, Typed
<1>5. ASSUME NEW s \in Sysop, AbortFeeling(s) PROVE CInv'
  BY <1>1, <1>5 DEF AbortFeeling, params, CInv, Typed
<1>6. ASSUME NEW s \in Sysop, NEW v \in Content, SaveFeeling(s, v) PROVE CInv'
  BY <1>1, <1>6 DEF SaveFeeling, SaveText, params, CInv, Typed
<1> QED
  BY <1>2, <1>3, <1>4, <1>5, <1>6, ReadCounts, WriteCounts, RemovalsCount, SizesCount DEF Next

(***************************************************************************)
(* The list that says which file goes first and the hash that finds a file *)
(* agree, and no more files are held than the parameter says, whatever is  *)
(* read, saved, expired or removed, and however often the cache is resized *)
(* or switched.                                                            *)
(***************************************************************************)
THEOREM CacheListed == Spec => []FifoIsCache
<1>1. CInv => FifoIsCache
  <2> SUFFICES ASSUME CInv PROVE FifoIsCache
    OBVIOUS
  <2>1. fifo \in Seq(File) /\ ToSet(fifo) = Cached /\ Len(fifo) = Cardinality(Cached)
    BY DEF CInv, Counted, Lists
  <2>2. num_cached = Len(fifo) /\ num_cached <= cache_size /\ num_cached \in Nat
    BY <2>1, FS_CardinalityType DEF CInv, Counted
  <2>3. mem \in UNION {[K -> Content] : K \in SUBSET File}
    BY DEF CInv, Typed
  <2>4. TypeOK
    BY <2>1, <2>2, <2>3 DEF CInv, Typed, TypeOK
  <2> QED
    BY <2>1, <2>2, <2>4 DEF FifoIsCache
<1>2. CInv /\ [Next]_vars => CInv'
  BY CacheSteps
<1> QED
  BY <1>1, <1>2, CacheInit, PTL DEF Spec
=============================================================================

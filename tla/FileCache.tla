----------------------------- MODULE FileCache ------------------------------
(***************************************************************************)
(* The file cache: files stay in memory after they were closed, in the     *)
(* order of their last use, and "data is synced on write (Fclose())".  No  *)
(* file stays open across states, so each action is a whole use of a file, *)
(* from Fopen() or Fcreate() to Fclose().                                  *)
(***************************************************************************)
EXTENDS Integers, Sequences, SequencesExt, FiniteSets

CONSTANTS
  Data,       \* the files of users, rooms and messages
  Screen,     \* the screens, which Sysops upload
  Feeling,    \* the feelings, which Sysops add and users send
  Trash,      \* the sets of files that go to trash/ together, with their user or room
  Content, NoFile,
  Sysop,      \* the Sysops that add feelings
  MaxCached,  \* bound: the largest cache
  DiskFails   \* TRUE when the disk may be full

File == Data \cup Screen \cup Feeling

ASSUME FileAssumption ==
  /\ NoFile \notin Content \cup File
  /\ Data \cap Feeling = {} /\ Screen \cap Feeling = {}
  /\ Trash \subseteq SUBSET Data
  /\ MaxCached \in Nat
  /\ DiskFails \in BOOLEAN

VARIABLES
  disk,             \* what is on disk
  fifo,             \* the cached files, last used first
  mem,              \* what each cached file holds
  dirty,            \* the cached files that are still dirty, and open: Fclose() failed
  cut,              \* history: the cached files of which the end was not saved
  max_cached,       \* PARAM_MAX_CACHED
  have_filecache,   \* PARAM_HAVE_FILECACHE
  cache_size,
  num_cached,
  expire_timer,     \* FALSE for NULL
  adding,           \* the feeling a Sysop is writing, NoFile for none
  got               \* history: the file last read, and what was read

params == <<max_cached, have_filecache, cache_size, expire_timer>>
vars == <<disk, fifo, mem, dirty, cut, params, num_cached, adding, got>>

Cached == DOMAIN mem

\* The cached files of which the last save failed.
Unsaved == dirty \cup cut

Init ==
  /\ disk \in [File -> Content \cup {NoFile}]
  /\ \A f \in Screen : disk[f] # NoFile
  /\ fifo = << >> /\ mem = << >> /\ dirty = {} /\ cut = {}
  /\ max_cached = MaxCached /\ cache_size = MaxCached
  /\ have_filecache = TRUE /\ expire_timer = (MaxCached > 0)
  /\ num_cached = 0
  /\ adding = [s \in Sysop |-> NoFile]
  /\ got \in File \X {NoFile}

\* The files of K in the order of q.
Kept(q, K) ==
  LET upto[i \in 0 .. Len(q)] ==
        IF i = 0 THEN << >> ELSE IF q[i] \in K THEN Append(upto[i - 1], q[i]) ELSE upto[i - 1]
  IN  upto[Len(q)]

\* Only the files of K stay in the cache.
Keep(K) ==
  /\ fifo' = Kept(fifo, K)
  /\ mem' = [f \in K |-> mem[f]]
  /\ dirty' = dirty \cap K /\ cut' = cut \cap K

\* Mutant of Drop: the count is forgotten.
DropUncounted(F) == Keep(Cached \ F) /\ UNCHANGED num_cached

\* remove_Cache_filename, for each file of F.
Drop(F) ==
  /\ Keep(Cached \ F)
  /\ num_cached' = num_cached - Cardinality(Cached \cap F)

\* add_Cache puts f first, and expires the last file when there are too many.
Full(f) == f \notin Cached /\ num_cached + 1 > cache_size

Staying(f) ==
  IF cache_size = 0 THEN {}
  ELSE (Cached \cup {f}) \ (IF Full(f) THEN {Last(<<f>> \o fifo)} ELSE {})

\* f is used, and holds v from now on.
Use(f, v) ==
  /\ fifo' = Kept(<<f>> \o Kept(fifo, File \ {f}), Staying(f))
  /\ mem' = [g \in Staying(f) |-> IF g = f THEN v ELSE mem[g]]
  /\ num_cached' = IF f \in Cached \/ cache_size = 0 \/ Full(f) THEN num_cached
                   ELSE num_cached + 1

\* Fclose of a dirty file.  closefile() does not look at what fclose() returns: when
\* the disk fills up with the last write, the file is cut short and counts as saved.
Sync(f, v) ==
  \/ /\ disk' = [disk EXCEPT ![f] = v]
     /\ dirty' = (dirty \ {f}) \cap Staying(f)
     /\ cut' = (cut \ {f}) \cap Staying(f)
  \/ /\ DiskFails
     /\ dirty' = (dirty \cup {f}) \cap Staying(f)
     /\ cut' = cut \cap Staying(f)
     /\ UNCHANGED disk
  \/ /\ DiskFails
     /\ \E w \in Content \ {v} : disk' = [disk EXCEPT ![f] = w]
     /\ dirty' = (dirty \ {f}) \cap Staying(f)
     /\ cut' = (cut \cup {f}) \cap Staying(f)

\* Fopen, Fgets, Fclose.  A file that a failed save left dirty is saved here.
Read(f) ==
  LET v == IF f \in Cached THEN mem[f] ELSE disk[f]
  IN  /\ v # NoFile
      /\ got' = <<f, v>>
      /\ Use(f, v)
      /\ IF f \in dirty THEN Sync(f, v)
         ELSE /\ dirty' = dirty \cap Staying(f) /\ cut' = cut \cap Staying(f)
              /\ UNCHANGED disk
      /\ UNCHANGED <<params, adding>>

\* Fopen of a file that is not there.
ReadNone(f) ==
  /\ f \notin Cached /\ disk[f] = NoFile
  /\ got' = <<f, NoFile>>
  /\ UNCHANGED <<disk, fifo, mem, dirty, cut, params, num_cached, adding>>

\* Fcreate, Fputs, Fclose: every file that is saved gets at least a line.
Write(f, v) ==
  /\ f \in Data
  /\ Use(f, v) /\ Sync(f, v)
  /\ UNCHANGED <<params, adding, got>>

\* save_StringIO writes a temporary file, and renames it when that is complete.
SaveText(f, v) ==
  \/ disk' = [disk EXCEPT ![f] = v]
  \/ DiskFails /\ UNCHANGED disk
  \/ DiskFails /\ \E w \in Content \ {v} : disk' = [disk EXCEPT ![f] = w]

\* Mutant of Upload: the cached screen stays.
UploadCached(f, v) ==
  /\ f \in Screen
  /\ SaveText(f, v)
  /\ UNCHANGED <<fifo, mem, dirty, cut, params, num_cached, adding, got>>

\* upload_save.
Upload(f, v) ==
  /\ f \in Screen
  /\ Drop({f}) /\ SaveText(f, v)
  /\ UNCHANGED <<params, adding, got>>

\* state_uncache_file, for any file; reload_file does the same for a screen.
Uncache(f) ==
  /\ Drop({f})
  /\ UNCHANGED <<disk, params, adding, got>>

\* A Sysop gets the list of feelings and chooses a name that is not on it.
AddFeeling(s, f) ==
  /\ f \in Feeling /\ adding[s] = NoFile /\ disk[f] = NoFile
  /\ adding' = [adding EXCEPT ![s] = f]
  /\ UNCHANGED <<disk, fifo, mem, dirty, cut, params, num_cached, got>>

SaveFeeling(s, v) ==
  /\ adding[s] # NoFile
  /\ SaveText(adding[s], v)
  /\ adding' = [adding EXCEPT ![s] = NoFile]
  /\ UNCHANGED <<fifo, mem, dirty, cut, params, num_cached, got>>

AbortFeeling(s) ==
  /\ adding[s] # NoFile
  /\ adding' = [adding EXCEPT ![s] = NoFile]
  /\ UNCHANGED <<disk, fifo, mem, dirty, cut, params, num_cached, got>>

\* Mutant of Unlink: the file stays in the cache.
UnlinkDisk(f) ==
  /\ f \in Data \cup Feeling
  /\ disk' = [disk EXCEPT ![f] = NoFile]
  /\ UNCHANGED <<fifo, mem, dirty, cut, num_cached, params, adding, got>>

\* unlink_file.
Unlink(f) ==
  /\ f \in Data \cup Feeling
  /\ Drop({f})
  /\ disk' = [disk EXCEPT ![f] = NoFile]
  /\ UNCHANGED <<params, adding, got>>

\* rename_dir of a user or a room that is nuked; nobody looks at rename().
RenameDir(F) ==
  /\ Drop(F)
  /\ \/ disk' = [f \in File |-> IF f \in F THEN NoFile ELSE disk[f]]
     \/ UNCHANGED disk
  /\ UNCHANGED <<params, adding, got>>

\* cache_expire_timerfunc: the files that were not used for a long time.
Expire ==
  /\ expire_timer
  /\ \E k \in 0 .. Len(fifo) - 1 :
       Drop(Cached \ {fifo[i] : i \in 1 .. k})
  /\ UNCHANGED <<disk, params, adding, got>>

\* deinit_FileCache.
Deinit ==
  /\ Keep({})
  /\ cache_size' = 0 /\ num_cached' = 0 /\ expire_timer' = FALSE

\* resize_Cache: the first files of the hash stay.
Resize(n) ==
  /\ cache_size' = n
  /\ num_cached' = IF Cardinality(Cached) < n THEN Cardinality(Cached) ELSE n
  /\ \E K \in SUBSET Cached : Cardinality(K) = num_cached' /\ Keep(K)
  /\ UNCHANGED expire_timer

\* state_param_cached.
SetMaxCached(n) ==
  /\ max_cached' = n
  /\ \/ n = cache_size /\ UNCHANGED <<fifo, mem, dirty, cut, cache_size, num_cached, expire_timer>>
     \/ n # cache_size /\ (n = 0 \/ ~have_filecache) /\ Deinit
     \/ n # cache_size /\ n > 0 /\ have_filecache /\ Resize(n)
  /\ UNCHANGED <<disk, have_filecache, adding, got>>

\* state_features_menu turns the cache on (init_FileCache) or off.
ToggleFileCache ==
  /\ have_filecache' = ~have_filecache
  /\ \/ have_filecache /\ Deinit
     \/ /\ ~have_filecache
        /\ IF max_cached > 0 THEN cache_size' = max_cached /\ expire_timer' = TRUE
           ELSE UNCHANGED <<cache_size, expire_timer>>
        /\ UNCHANGED <<fifo, mem, dirty, cut, num_cached>>
  /\ UNCHANGED <<disk, max_cached, adding, got>>

Next ==
  \/ \E f \in File :
       \/ Read(f) \/ ReadNone(f) \/ Uncache(f) \/ Unlink(f)
       \/ \E v \in Content : Write(f, v) \/ Upload(f, v)
  \/ \E s \in Sysop :
       \/ \E f \in File : AddFeeling(s, f)
       \/ \E v \in Content : SaveFeeling(s, v)
       \/ AbortFeeling(s)
  \/ \E F \in Trash : RenameDir(F)
  \/ Expire \/ ToggleFileCache
  \/ \E n \in 0 .. MaxCached : SetMaxCached(n)

Spec == Init /\ [][Next]_vars

-----------------------------------------------------------------------------
TypeOK ==
  /\ disk \in [File -> Content \cup {NoFile}]
  /\ fifo \in Seq(File)
  /\ mem \in UNION {[K -> Content] : K \in SUBSET File}
  /\ dirty \subseteq Cached /\ cut \subseteq Cached
  /\ max_cached \in 0 .. MaxCached
  /\ have_filecache \in BOOLEAN
  /\ cache_size \in 0 .. MaxCached
  /\ num_cached \in Nat
  /\ expire_timer \in BOOLEAN
  /\ adding \in [Sysop -> Feeling \cup {NoFile}]
  /\ got \in File \X (Content \cup {NoFile})

\* The FIFO and the hash hold the same files, each once, num_cached of them, and
\* never more than there may be.
FifoIsCache ==
  /\ TypeOK
  /\ ToSet(fifo) = Cached /\ Len(fifo) = Cardinality(Cached)
  /\ num_cached = Len(fifo)
  /\ num_cached <= cache_size

\* Whatever way files go to disk, through the cache or past it (upload_save,
\* save_feeling), a file in the cache is what is on disk, unless its last save failed.
Coherent == \A f \in Cached \ Unsaved : mem[f] = disk[f]

\* Evicting, expiring, resizing and switching the cache are not seen by anyone:
\* who reads a file gets what was saved last, or what a save that failed left.
Pending == [f \in File |-> IF f \in Unsaved THEN mem[f] ELSE NoFile]

store == INSTANCE FileStore WITH content <- disk, pending <- Pending

ImplementsStore == store!Spec

\* Sysops do not add feelings at the same time.
Alone == \A s, t \in Sysop : s = t

=============================================================================

------------------------------ MODULE CacheStore -------------------------------
(***************************************************************************)
(* The persistence of the prefix cache, src/cache/persistence.go: a process *)
(* uses its cache, saves it to the directory of its model, crashes, and     *)
(* restores it in its next life.  The directory is a manifest and one file  *)
(* of keys and values per handle.  os.WriteFile truncates and then writes,  *)
(* so a write that does not end leaves its file as it was or torn.          *)
(***************************************************************************)
EXTENDS PrefixCache

VARIABLES
    up,        \* the process runs
    snap,      \* the snapshot being saved: <<block, handle>>, in LRU order
    todo,      \* files Save has yet to write
    manifest,  \* manifest.json: whether it is written, and the list in it
    blob,      \* blob file of each handle
    restored,  \* blocks this life began with
    clean      \* history: every save so far has ended with all its files written

diskVars == <<snap, todo, manifest, blob>>
storeVars == <<up, diskVars, restored, clean>>
vars == <<cacheVars, storeVars>>

ManifestFile == 0
Written(list) == [state |-> "written", list |-> list]
Absent == [state |-> "absent", list |-> <<>>]
TornManifest == [state |-> "torn", list |-> <<>>]

Init ==
    /\ CacheInit
    /\ up = TRUE
    /\ snap = <<>>
    /\ todo = {}
    /\ manifest = Absent
    /\ blob = [h \in Handles |-> NoBlock]
    /\ restored = 0
    /\ clean = TRUE

\* One goroutine owns the cache: a save does not overlap another call.
UseCache ==
    /\ up
    /\ todo = {}
    /\ CacheNext
    /\ UNCHANGED storeVars

(***************************************************************************)
(* Snapshot and Save                                                        *)
(***************************************************************************)

Snapshot == [i \in 1..Len(lru) |-> <<lru[i], handle[lru[i]]>>]

\* Save: the manifest and the state of every listed block are to be written.
SaveStart ==
    /\ up
    /\ job = Idle
    /\ todo = {}
    /\ snap' = Snapshot
    /\ todo' = {ManifestFile} \cup {handle[p] : p \in Range(lru)}
    /\ UNCHANGED <<cacheVars, up, manifest, blob, restored, clean>>

\* The manifest comes first, the blobs in the order of a map.
Pending == IF ManifestFile \in todo THEN {ManifestFile} ELSE todo

\* File f now holds the given contents.
Holding(f, list, bytes) ==
    /\ manifest' = IF f = ManifestFile THEN list ELSE manifest
    /\ blob' = IF f = ManifestFile THEN blob ELSE [blob EXCEPT ![f] = bytes]

WriteFile ==
    /\ up
    /\ \E f \in Pending :
         /\ Holding(f, Written(snap), IF f \in Handles THEN kv[f] ELSE NoBlock)
         /\ todo' = todo \ {f}
    /\ UNCHANGED <<cacheVars, up, snap, restored, clean>>

\* A write that does not end: its file is torn, or as it was.
Interrupt ==
    \/ \E f \in Pending : Holding(f, TornManifest, Torn)
    \/ UNCHANGED <<manifest, blob>>

\* Save returns the error of a write.
SaveFail ==
    /\ up
    /\ todo # {}
    /\ Interrupt
    /\ todo' = {}
    /\ snap' = <<>>
    /\ clean' = FALSE
    /\ UNCHANGED <<cacheVars, up, restored>>

(***************************************************************************)
(* Crash, Load and RestorePrefixCache                                       *)
(***************************************************************************)

\* The process ends at any moment; what it held in memory is gone.
Crash ==
    /\ up
    /\ up' = FALSE
    /\ Interrupt
    /\ todo' = {}
    /\ snap' = <<>>
    /\ clean' = (clean /\ todo = {})
    /\ restored' = 0
    /\ Renew  \* what the next life begins with

\* Load succeeds: the manifest parses and each of its blobs can be read.  A blob
\* is opaque: a torn one is read like any other.
BlobsLoad == \A i \in DOMAIN manifest.list : blob[manifest.list[i][2]] # NoBlock

Readable == manifest.state = "written" /\ BlobsLoad

\* Mutant of Restorable: a missing blob is not an error.
RestorableAnyway == manifest.state = "written"

Restorable == Readable

\* No cache was saved, or Load reported an error: the process starts cold.
BootCold ==
    /\ ~up
    /\ ~Readable
    /\ up' = TRUE
    /\ UNCHANGED <<cacheVars, diskVars, restored, clean>>

\* The handle a list gives a block, the last of several, and 0 when it has none.
HandleIn(list, p) ==
    LET at == {i \in DOMAIN list : list[i][1] = p}
    IN  IF at = {} THEN 0 ELSE list[Max(at)][2]

\* Rebuild the cache, and let handles go on from next.
RestoreFrom(next) ==
    /\ ~up
    /\ Restorable
    /\ up' = TRUE
    /\ LET saved == manifest.list
       IN  /\ lru' = [i \in DOMAIN saved |-> saved[i][1]]
           /\ handle' = [p \in Prefixes |-> HandleIn(saved, p)]
           /\ kv' = [h \in Handles |->
                        IF \E i \in DOMAIN saved : saved[i][2] = h THEN blob[h] ELSE NoBlock]
           /\ restored' = Len(saved)
    /\ nextID' = next
    /\ UNCHANGED <<capacity, refs, job, want, got, pins, reading, diskVars, clean>>

\* Mutant of Restore: handles start over.
RestoreFromZero == RestoreFrom(0)

Restore == RestoreFrom(Max({0} \cup {manifest.list[i][2] : i \in DOMAIN manifest.list}))

Next == \/ UseCache
        \/ SaveStart \/ WriteFile \/ SaveFail
        \/ Crash \/ BootCold \/ Restore

Spec == Init /\ [][Next]_vars

-----------------------------------------------------------------------------
(* Properties *)

Blocks == Prefixes \cup {NoBlock, Torn}
Listing == Seq(Prefixes \X Handles)
Jobs == [kind : {"idle", "match", "insert", "evict"}, req : Requests \cup {{}}, i : Nat]
Manifests == [state : {"absent", "torn", "written"}, list : Listing]

TypeOK ==
    /\ capacity \in Capacities
    /\ lru \in Seq(Prefixes)
    /\ handle \in [Prefixes -> Handles \cup {0}]
    /\ refs \in [Prefixes -> Nat]
    /\ nextID \in Handles \cup {0}
    /\ job \in Jobs
    /\ want \in [Requests -> Prompts \cup {<<>>}]
    /\ got \in [Requests -> Seq(Handles)]
    /\ pins \in [Requests -> SUBSET Handles]
    /\ reading \in [Requests -> SUBSET Prefixes]
    /\ kv \in [Handles -> Blocks]
    /\ up \in BOOLEAN
    /\ snap \in Listing
    /\ todo \subseteq Handles \cup {ManifestFile}
    /\ manifest \in Manifests
    /\ blob \in [Handles -> Blocks]
    /\ restored \in Nat
    /\ clean \in BOOLEAN

\* Between calls the cache holds no more than its capacity, or than it was
\* restored with: although pinned blocks are never dropped, an Insert cannot push
\* it over, since the block it has just created can be dropped again.
WithinLimit ==
    job.kind # "evict" /\ capacity > 0 => Len(lru) <= Max({capacity, restored})

\* A list of blocks, most recently used first, as an order.
NewerIn(list) ==
    UNION {{<<list[i], list[j]>> : j \in i + 1 .. Len(list)} : i \in DOMAIN list}
Names(list) == [i \in DOMAIN list |-> list[i][1]]


\* What the manifest lets a next life restore.
Saved ==
    IF manifest.state # "written" THEN {}
    ELSE LET list == Names(manifest.list)
         IN  {[cached |-> Range(list), newer |-> NewerIn(list)]}

\* The blocks whose handles the last call of each request returned.
Given == [r \in Requests |-> {SubSeq(want[r], 1, i) : i \in DOMAIN got[r]}]

Lru == INSTANCE LruCache WITH
    Blocks <- Prefixes, limit <- capacity, cached <- Range(lru), newer <- NewerIn(lru),
    given <- Given, saved <- Saved

\* The list kept by hand, the counts and the files implement "least-recently-used
\* over the blocks that no in-flight request is holding" (prefix.go:35-36), also
\* after a restart: a snapshot is "enough to rebuild an equivalent cache"
\* (persistence.go:36-37).
ImplementsLru == Lru!Spec

\* As long as every save ends, restarts never give a block another block's state,
\* nor a call's handle that of anything but its own prompt, although evictions go
\* on between the saves and handles of evicted blocks are issued again
\* (persistence.go RestorePrefixCache: "so they never collide").
CleanIdentity == clean => KVIdentity /\ HandlesGenuine

\* After any history the state a block offers is its own, or a torn file that the
\* compute layer may recognise, but not the whole state of another block
\* (persistence.go RestorePrefixCache: "keeps its identity").
ReloadedIdentity == \A p \in Prefixes : Resident(p) => kv[handle[p]] \in {p, Torn}

\* Every block the cache offers after a restart has state behind its handle, also
\* when the save it comes from was interrupted (persistence.go Load).
RestoredComplete == up => \A p \in Prefixes : Resident(p) => kv[handle[p]] # NoBlock

=============================================================================

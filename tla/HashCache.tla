------------------------------ MODULE HashCache ------------------------------
(***************************************************************************)
(* The cache of digests in the sync engine (engine.ts), for one file.  A   *)
(* scan takes the digest of a file from the cache if its stamp - mtime and *)
(* size - is the one the cache has, and reads the file if it is not.  The  *)
(* file's contents are numbered in the order they are written.             *)
(***************************************************************************)
EXTENDS Naturals

CONSTANTS
  MaxEdits,   \* bound: edits, and writes of the engine
  MaxQuiet,   \* bound: edits that change neither mtime nor size
  NoEntry,    \* a cache that does not have the file
  Unloaded    \* the cache of an engine that has not read cache file

ASSUME HashCacheAssumption == MaxEdits \in Nat /\ MaxQuiet \in Nat

VARIABLES
  content, stamp,  \* of the file
  cache,           \* the entry in memory, [stamp, digest]
  saved,           \* the entry in hash-cache.json
  dirty,           \* cacheDirty
  listed,          \* the stamp in the listing of this scan
  local,           \* the digest this scan has found
  atStart,         \* ghost: the content when the cycle began
  lastQuiet        \* ghost: the last content that came without a new stamp

file == <<content, stamp, lastQuiet>>
cached == <<cache, dirty>>
scan == <<listed, local, atStart>>
cacheVars == <<file, cached, saved, scan>>

Entry(s, digest) == [stamp |-> s, digest |-> digest]
HasEntry == cache \notin {NoEntry, Unloaded}

CacheInit ==
  /\ content = 0 /\ stamp = 0
  /\ cache = Unloaded /\ saved = NoEntry /\ dirty = FALSE
  /\ listed = 0 /\ local = 0 /\ atStart = 0
  /\ lastQuiet = 0

Write ==
  /\ content < MaxEdits
  /\ content' = content + 1 /\ stamp' = stamp + 1
  /\ UNCHANGED lastQuiet

(* The stamp stays: another program sets mtime back, or it is too coarse. *)
WriteQuietly ==
  /\ content < MaxEdits /\ content - stamp < MaxQuiet
  /\ content' = content + 1 /\ lastQuiet' = content'
  /\ UNCHANGED stamp

(* Seeded fault: a full scan keeps the cache. *)
ClearsMutant(fullScan) == FALSE
Clears(fullScan) == fullScan

(* A cache file that cannot be read or parsed is no cache. *)
loadCache(fullScan) ==
  /\ atStart' = content
  /\ \/ /\ Clears(fullScan)
        /\ cache' = NoEntry /\ dirty' = TRUE
     \/ /\ ~Clears(fullScan) /\ cache = Unloaded
        /\ cache' \in {saved, NoEntry}
        /\ UNCHANGED dirty
     \/ ~Clears(fullScan) /\ cache # Unloaded /\ UNCHANGED cached
  /\ UNCHANGED <<file, saved, listed, local>>

Trusted == HasEntry /\ cache.stamp = stamp

(* scanLocal: the listing; nothing is read if the entry is trusted. *)
List ==
  /\ listed' = stamp
  /\ local' = IF Trusted THEN cache.digest ELSE local
  /\ UNCHANGED <<file, cached, saved, atStart>>

Read ==
  /\ local' = content
  /\ UNCHANGED <<file, cached, saved, listed, atStart>>

(* Seeded fault: the stamp is taken after the file has been read. *)
StampReadMutant == stamp
StampRead == listed

(* The digest is there.  It is kept, unless the file was given another     *)
(* size after it was listed.                                               *)
Remember ==
  /\ \/ cache' = Entry(StampRead, local) /\ dirty' = TRUE
     \/ stamp # listed /\ UNCHANGED cached
  /\ UNCHANGED <<file, saved, scan>>

(* applyRemote writes the file, and forgets its entry. *)
ApplyAndForget ==
  /\ Write
  /\ cache' = NoEntry
  /\ dirty' = (dirty \/ HasEntry)
  /\ UNCHANGED <<saved, listed, local, atStart>>

NoScan == listed' = 0 /\ local' = 0 /\ atStart' = 0

(* The end of sync: the write may fail, and leave a file that cannot be    *)
(* parsed.                                                                 *)
saveCache ==
  /\ \/ ~dirty /\ UNCHANGED <<saved, dirty>>
     \/ dirty /\ saved' = cache /\ dirty' = FALSE
     \/ dirty /\ saved' \in {saved, NoEntry} /\ UNCHANGED dirty
  /\ NoScan
  /\ UNCHANGED <<file, cache>>

(* The memory of the engine is gone. *)
Unload ==
  /\ cache' = Unloaded /\ dirty' = FALSE
  /\ NoScan
  /\ UNCHANGED <<file, saved>>

-----------------------------------------------------------------------------
(* Properties. *)

(* An entry that a scan would trust, in memory or after a restart, has the *)
(* digest of the file, whatever was edited while it was being read; only   *)
(* one from before a quiet edit may be wrong.                              *)
CacheTruthful ==
  \A e \in {cache, saved} \ {NoEntry, Unloaded} :
    e.stamp = stamp => e.digest = content \/ e.digest < lastQuiet
=============================================================================

------------------------------ MODULE TempCache ------------------------------
(***************************************************************************)
(* The `TempCache` of cli_application (storage_io.rs): the unique chunks   *)
(* of the input, kept in a map in memory, or one after another in a file,  *)
(* with a map of where each is.  The operations run under the mutex of the *)
(* cache; `insert_batch` is modelled by what it does with one item.        *)
(***************************************************************************)
EXTENDS Naturals, Sequences

CONSTANTS
  Hash,      (* The hashes of chunks.                                      *)
  Byte,
  Data,      (* The bytes of the chunk with a given hash.                  *)
  OnDisk     (* Which backend: a file, or a map in memory.                 *)

(* Two chunks with one hash are taken to be one chunk, as the code does.   *)
ASSUME CacheAssumption ==
  /\ Data \in [Hash -> Seq(Byte)]
  /\ OnDisk \in BOOLEAN

VARIABLES
  map,            (* In memory: the chunk of each hash.                    *)
  location_map,   (* On disk: the place of each hash's chunk in the file.  *)
  cache_file,     (* The bytes of the file.                                *)
  data_size       (* data_size in memory, current_offset on disk.          *)

cache == <<map, location_map, cache_file, data_size>>

Location == [offset : Nat, length : Nat]

CacheTypeOK ==
  /\ DOMAIN map \subseteq Hash
  /\ \A h \in DOMAIN map : map[h] \in Seq(Byte)
  /\ DOMAIN location_map \subseteq Hash
  /\ \A h \in DOMAIN location_map : location_map[h] \in Location
  /\ cache_file \in Seq(Byte)
  /\ data_size \in Nat

(* A file that was there, of a process with the same id, is truncated.     *)
CacheInit ==
  /\ map = [h \in {} |-> Data[h]]
  /\ location_map = [h \in {} |-> [offset |-> 0, length |-> 0]]
  /\ cache_file = << >>
  /\ data_size = 0

(* get_keys, as a set.                                                     *)
Keys == IF OnDisk THEN DOMAIN location_map ELSE DOMAIN map

(* What get_chunks reads for a key.                                        *)
ChunkOf(h) ==
  IF OnDisk
  THEN SubSeq(cache_file, location_map[h].offset + 1,
              location_map[h].offset + location_map[h].length)
  ELSE map[h]

(* The function that is f, and v at k.                                     *)
With(f, k, v) == [x \in DOMAIN f \cup {k} |-> IF x = k THEN v ELSE f[x]]

-----------------------------------------------------------------------------
(* Mutant of InsertNew: current_offset is that of the chunk, not after it. *)
InsertOverlapping(h) ==
  /\ h \notin Keys
  /\ OnDisk
  /\ cache_file' = cache_file \o Data[h]
  /\ location_map' = With(location_map, h, [offset |-> data_size,
                                            length |-> Len(Data[h])])
  /\ data_size' = Len(cache_file)
  /\ UNCHANGED map
-----------------------------------------------------------------------------

InsertKnown(h) ==
  /\ h \in Keys
  /\ UNCHANGED cache

InsertNew(h) ==
  /\ h \notin Keys
  /\ cache_file' = IF OnDisk THEN cache_file \o Data[h] ELSE cache_file
  /\ location_map' = IF OnDisk THEN With(location_map, h, [offset |-> data_size, length |-> Len(Data[h])])
                                ELSE location_map
  /\ map' = IF OnDisk THEN map ELSE With(map, h, Data[h])
  /\ data_size' = data_size + Len(Data[h])

InsertItem(h) == InsertKnown(h) \/ InsertNew(h)

(* write_all fails after it has appended some of the chunk, possibly none; *)
(* neither the map nor current_offset knows of those bytes.                *)
InsertFails(h) ==
  /\ OnDisk
  /\ h \notin Keys
  /\ \E n \in {0} \cup 1 .. (Len(Data[h]) - 1) :
       cache_file' = cache_file \o SubSeq(Data[h], 1, n)
  /\ UNCHANGED <<map, location_map, data_size>>
=============================================================================

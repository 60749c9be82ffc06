---------------------------- MODULE Serialization ----------------------------
(***************************************************************************)
(* What lib_sprite_shrink computes from a file's manifest, the sequence of  *)
(* its chunks with their hashes, offsets and lengths: the order in which    *)
(* the chunks go into an archive, those a dictionary is trained on, and     *)
(* those a random access needs.                                             *)
(***************************************************************************)
EXTENDS Sums, FiniteSets

CONSTANTS
  MAX_SAMPLES_SIZE,  \* bytes a dictionary is trained on at most: 4 GiB
  U64                \* 2^64: offsets are counted modulo this

ASSUME SerializationAssumption ==
  /\ MAX_SAMPLES_SIZE \in Nat \ {0}
  /\ U64 \in Nat \ {0}

Hashes(manifest) == [k \in DOMAIN manifest |-> manifest[k].hash]

-----------------------------------------------------------------------------
(* serialize_uncompressed_data.                                             *)

(* A set's elements in an order.                                            *)
Arranged(S, before) ==
  CHOOSE s \in [1..Cardinality(S) -> S] :
    \A i, j \in DOMAIN s : i < j => <<s[i], s[j]>> \in before

Ascending(S) == Arranged(S, {e \in S \X S : e[1] < e[2]})

(* The sort is stable.                                                      *)
ByOffset(manifest) ==
  LET before == {e \in (DOMAIN manifest) \X (DOMAIN manifest) :
                   \/ manifest[e[1]].offset < manifest[e[2]].offset
                   \/ manifest[e[1]].offset = manifest[e[2]].offset /\ e[1] < e[2]}
      order == Arranged(DOMAIN manifest, before)
  IN [n \in DOMAIN order |-> manifest[order[n]]]

(* The names in their order; the size of a file is the end of its last      *)
(* chunk.                                                                   *)
archive_toc(file_manifest) ==
  LET names == Ascending(DOMAIN file_manifest)
      size(m) == IF m = << >> THEN 0 ELSE Last(m).offset + Last(m).length
  IN [i \in DOMAIN names |-> [filename |-> names[i],
                              uncompressed_size |-> size(file_manifest[names[i]])]]

ser_file_manifest(file_manifest) ==
  LET toc == archive_toc(file_manifest)
  IN [i \in DOMAIN toc |-> ByOffset(file_manifest[toc[i].filename])]

(* How often a chunk is used, by all files.                                 *)
chunk_freq(manifests, hash) ==
  Cardinality({e \in UNION {{i} \X DOMAIN manifests[i] : i \in DOMAIN manifests} :
                 manifests[e[1]][e[2]].hash = hash})

Score(manifests, i) ==
  Sum([k \in DOMAIN manifests[i] |-> chunk_freq(manifests, manifests[i][k].hash)])

(* Mutant of Dedupe: a chunk that was seen before is listed again.          *)
DedupeNothing(hashes) == hashes

AddNew(seen, hash) == IF Contains(seen, hash) THEN seen ELSE Append(seen, hash)
Dedupe(hashes) == FoldLeft(AddNew, << >>, hashes)

(* The chunks of the file that shares most of them come first.              *)
sorted_hashes(manifests) ==
  LET before == {e \in (DOMAIN manifests) \X (DOMAIN manifests) :
                   \/ Score(manifests, e[1]) > Score(manifests, e[2])
                   \/ Score(manifests, e[1]) = Score(manifests, e[2]) /\ e[1] < e[2]}
      order == Arranged(DOMAIN manifests, before)
  IN Dedupe(FlattenSeq([n \in DOMAIN order |-> Hashes(manifests[order[n]])]))

(* Where each lies among them: serialize_store, and the index of an archive.*)
Locations(hashes, length) ==
  [n \in DOMAIN hashes |->
     [hash |-> hashes[n],
      offset |-> Sum([m \in 1..(n - 1) |-> length[hashes[m]]]),
      compressed_length |-> length[hashes[n]]]]

-----------------------------------------------------------------------------
(* build_train_samples: all chunks, or every step-th until the next would   *)
(* not fit.                                                                 *)
Ceil(n, d) == (n + d - 1) \div d

Fits(sizes, size) == Sum(sizes) + size <= MAX_SAMPLES_SIZE

Take(taken, size) ==
  IF taken.full \/ ~Fits(taken.sizes, size) THEN [taken EXCEPT !.full = TRUE]
  ELSE [taken EXCEPT !.sizes = Append(@, size)]

sample_sizes(hashes, total_data_size, length) ==
  LET step == Ceil(total_data_size, MAX_SAMPLES_SIZE)
      stepped == [n \in 1..Ceil(Len(hashes), step) |-> length[hashes[(n - 1) * step + 1]]]
  IN IF total_data_size <= MAX_SAMPLES_SIZE THEN [n \in DOMAIN hashes |-> length[hashes[n]]]
     ELSE FoldLeft(Take, [sizes |-> << >>, full |-> FALSE], stepped).sizes

-----------------------------------------------------------------------------
(* get_seek_chunks: the chunks of a range, and what of each is in it.  The  *)
(* end of the range is counted modulo 2^64.                                 *)
OutOfBounds == << [hash |-> << >>, start |-> -1, end |-> -1] >>

(* Mutant of EndInChunk: the last chunk is taken to its end.                *)
EndInChunk_WholeChunk(seek_end, c) == c.length

EndInChunk(seek_end, c) == IF seek_end - c.offset < c.length THEN seek_end - c.offset ELSE c.length

get_seek_chunks(manifest, seek_offset, seek_length) ==
  LET seek_end == (seek_offset + seek_length) % U64
      places == Ascending({k \in DOMAIN manifest :
                             /\ manifest[k].offset < seek_end
                             /\ manifest[k].offset + manifest[k].length > seek_offset})
      needed == [n \in DOMAIN places |-> manifest[places[n]]]
      start(c) == IF seek_offset > c.offset THEN seek_offset - c.offset ELSE 0
  IN IF seek_end > Sum([k \in DOMAIN manifest |-> manifest[k].length]) THEN OutOfBounds
     ELSE [k \in DOMAIN needed |-> [hash |-> needed[k].hash, start |-> start(needed[k]),
                                    end |-> EndInChunk(seek_end, needed[k])]]
=============================================================================

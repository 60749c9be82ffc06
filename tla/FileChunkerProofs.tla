------------------------- MODULE FileChunkerProofs -------------------------
(***************************************************************************)
(* Theorems about `process_files`, for any files, any chunks, any number   *)
(* of workers, any capacities and any faults.                              *)
(***************************************************************************)
EXTENDS FileChunker, TLAPS

-----------------------------------------------------------------------------
(***************************************************************************)
(* Sequences.                                                              *)
(***************************************************************************)

LEMMA HashesAppend ==
  ASSUME NEW S, NEW s \in Seq(S), NEW x \in S
  PROVE  HashesOf(Append(s, x)) = HashesOf(s) \cup {x}
  <1> DEFINE t == Append(s, x)
  <1>1. /\ Len(s) \in Nat
        /\ Len(t) = Len(s) + 1
        /\ t[Len(s) + 1] = x
        /\ \A i \in 1 .. Len(s) : t[i] = s[i]
    OBVIOUS
  <1> QED
    BY <1>1 DEF HashesOf

LEMMA HashesTail ==
  ASSUME NEW S, NEW s \in Seq(S), s # << >>
  PROVE  HashesOf(s) = {Head(s)} \cup HashesOf(Tail(s))
  <1> DEFINE t == Tail(s)
  <1>1. /\ Len(s) \in Nat /\ Len(s) # 0
        /\ Len(t) = Len(s) - 1
        /\ Head(s) = s[1]
        /\ \A i \in 1 .. Len(s) - 1 : t[i] = s[i + 1]
    OBVIOUS
  <1>2. ASSUME NEW i \in 1 .. Len(s)
        PROVE  s[i] \in {Head(s)} \cup HashesOf(t)
    <2>1. CASE i = 1
      BY <1>1, <2>1
    <2>2. CASE i # 1
      <3>1. i - 1 \in 1 .. Len(t) /\ t[i - 1] = s[i]
        BY <1>1, <1>2, <2>2
      <3> QED
        BY <3>1 DEF HashesOf
    <2> QED
      BY <2>1, <2>2
  <1>3. HashesOf(t) \subseteq HashesOf(s) /\ Head(s) \in HashesOf(s)
    BY <1>1 DEF HashesOf
  <1> QED
    BY <1>2, <1>3 DEF HashesOf

LEMMA HashesEmpty == HashesOf(<< >>) = {}
  BY DEF HashesOf

(* Appending to a file changes none of the slices it had.                  *)
LEMMA SliceBeforeEnd ==
  ASSUME NEW S, NEW f \in Seq(S), NEW d \in Seq(S),
         NEW o \in Nat, NEW l \in Nat, o + l <= Len(f)
  PROVE  SubSeq(f \o d, o + 1, o + l) = SubSeq(f, o + 1, o + l)
  <1>1. /\ Len(f) \in Nat /\ Len(d) \in Nat
        /\ f \o d \in Seq(S)
        /\ Len(f \o d) = Len(f) + Len(d)
        /\ \A i \in 1 .. Len(f) : (f \o d)[i] = f[i]
    OBVIOUS
  <1> DEFINE x == SubSeq(f \o d, o + 1, o + l)
             y == SubSeq(f, o + 1, o + l)
  <1>2. x = [i \in 1 .. l |-> (f \o d)[o + i]]
    BY <1>1
  <1>3. y = [i \in 1 .. l |-> f[o + i]]
    BY <1>1
  <1> QED
    BY <1>1, <1>2, <1>3

(* What was appended is the slice after the old end.                       *)
LEMMA SliceAtEnd ==
  ASSUME NEW S, NEW f \in Seq(S), NEW d \in Seq(S)
  PROVE  SubSeq(f \o d, Len(f) + 1, Len(f) + Len(d)) = d
  <1>1. /\ Len(f) \in Nat /\ Len(d) \in Nat
        /\ f \o d \in Seq(S)
        /\ Len(f \o d) = Len(f) + Len(d)
        /\ \A i \in 1 .. Len(d) : (f \o d)[Len(f) + i] = d[i]
    OBVIOUS
  <1>2. SubSeq(f \o d, Len(f) + 1, Len(f) + Len(d))
          = [i \in 1 .. Len(d) |-> (f \o d)[Len(f) + i]]
    BY <1>1
  <1>3. d = [i \in 1 .. Len(d) |-> d[i]]
    OBVIOUS
  <1> QED
    BY <1>1, <1>2, <1>3
-----------------------------------------------------------------------------
(***************************************************************************)
(* Type correctness.                                                       *)
(***************************************************************************)

LEMMA ChunkTypes ==
  ASSUME NEW f \in File, NEW i \in 1 .. Len(contents[f])
  PROVE  contents[f] \in Seq(Hash) /\ contents[f][i] \in Hash
  BY ChunkerAssumption

LEMMA DataTypes ==
  ASSUME NEW h \in Hash
  PROVE  /\ Data[h] \in Seq(Byte)
         /\ Len(Data[h]) \in Nat
         /\ \A n \in 0 .. Len(Data[h]) : SubSeq(Data[h], 1, n) \in Seq(Byte)
  <1>1. Data[h] \in Seq(Byte)
    BY CacheAssumption
  <1> QED
    BY <1>1

LEMMA TypeInit == Init => TypeOK
  <1> SUFFICES ASSUME Init
               PROVE  TypeOK
    OBVIOUS
  <1>1. CacheTypeOK
    BY DEF Init, CacheInit, CacheTypeOK
  <1>2. /\ stage \in [File -> {"todo", "chunking", "hashed", "done", "failed"}]
        /\ sent \in [File -> Nat]
        /\ \A f \in File : sent[f] <= Len(contents[f])
    BY ChunkerAssumption DEF Init
  <1>3. /\ DOMAIN veri_hashes = {}
        /\ DOMAIN file_manifest = {}
    BY DEF Init
  <1>4. /\ << >> \in Seq(Hash) /\ << >> \in Seq(Seq(Hash))
        /\ Len(<< >>) = 0
        /\ 0 < BATCH_SIZE /\ 0 <= BATCH_SIZE /\ 0 <= MAX_BATCHES
    BY ChunkerAssumption
  <1>5. /\ channel \in Seq(Hash) /\ Len(channel) <= BATCH_SIZE
        /\ chunk_batch \in Seq(Hash) /\ Len(chunk_batch) < BATCH_SIZE
        /\ Len(chunk_batch) <= BATCH_SIZE
        /\ batches \in Seq(Seq(Hash)) /\ Len(batches) <= MAX_BATCHES
        /\ inserting \in Seq(Hash)
    BY <1>4 DEF Init
  <1> QED
    BY <1>1, <1>2, <1>3, <1>5 DEF Init, TypeOK

(* An insertion that succeeds, and one that does not.                      *)
LEMMA InsertType ==
  ASSUME CacheTypeOK, NEW h \in Hash, InsertItem(h) \/ InsertFails(h)
  PROVE  CacheTypeOK'
  <1>1. CASE InsertKnown(h)
    BY <1>1 DEF InsertKnown, cache, CacheTypeOK
  <1>2. CASE InsertNew(h)
    <2>1. Data[h] \in Seq(Byte) /\ Len(Data[h]) \in Nat
      BY DataTypes
    <2>2. data_size' \in Nat
      BY <1>2, <2>1 DEF InsertNew, CacheTypeOK
    <2>5. cache_file' \in Seq(Byte)
      <3>1. cache_file \o Data[h] \in Seq(Byte)
        BY <2>1 DEF CacheTypeOK
      <3> QED
        BY <1>2, <3>1 DEF InsertNew, CacheTypeOK
    <2>3. /\ DOMAIN map' \subseteq Hash
          /\ \A k \in DOMAIN map' : map'[k] \in Seq(Byte)
      BY <1>2, <2>1 DEF InsertNew, CacheTypeOK, With
    <2>4. /\ DOMAIN location_map' \subseteq Hash
          /\ \A k \in DOMAIN location_map' : location_map'[k] \in Location
      BY <1>2, <2>1 DEF InsertNew, CacheTypeOK, With, Location
    <2> QED
      BY <2>2, <2>3, <2>4, <2>5 DEF CacheTypeOK
  <1>3. CASE InsertFails(h)
    <2>1. PICK n \in 0 .. Len(Data[h]) :
            cache_file' = cache_file \o SubSeq(Data[h], 1, n)
      <3>1. Len(Data[h]) \in Nat
        BY DataTypes
      <3>2. {0} \cup 1 .. (Len(Data[h]) - 1) \subseteq 0 .. Len(Data[h])
        BY <3>1
      <3> QED
        BY <1>3, <3>2 DEF InsertFails
    <2>2. SubSeq(Data[h], 1, n) \in Seq(Byte)
      BY DataTypes
    <2>3. cache_file' \in Seq(Byte)
      BY <2>1, <2>2 DEF CacheTypeOK
    <2> QED
      BY <1>3, <2>3 DEF InsertFails, CacheTypeOK
  <1> QED
    BY <1>1, <1>2, <1>3 DEF InsertItem

LEMMA TypeStep == TypeOK /\ [Next]_vars => TypeOK'
  <1> SUFFICES ASSUME TypeOK, [Next]_vars
               PROVE  TypeOK'
    OBVIOUS
  <1> USE DEF TypeOK
  <1>0. ASSUME UNCHANGED cache
        PROVE  CacheTypeOK'
    BY <1>0 DEF cache, CacheTypeOK
  <1>1. ASSUME NEW f \in File, FileNext(f)
        PROVE  TypeOK'
    <2> USE <1>0 DEF pool, main, writer
    <2>1. CASE StartFile(f)
      BY <2>1 DEF StartFile
    <2>2. CASE SendChunk(f)
      <3>1. contents[f][sent[f] + 1] \in Hash /\ Len(contents[f]) \in Nat
        BY <2>2, ChunkTypes, ChunkerAssumption DEF SendChunk
      <3>2. channel' \in Seq(Hash) /\ Len(channel') = Len(channel) + 1
        BY <2>2, <3>1 DEF SendChunk
      <3>3. Len(channel') <= BATCH_SIZE
        BY <2>2, <3>2, ChunkerAssumption DEF SendChunk
      <3>4. /\ sent' \in [File -> Nat]
            /\ \A g \in File : sent'[g] <= Len(contents[g])
        BY <2>2, <3>1 DEF SendChunk
      <3> QED
        BY <2>2, <3>2, <3>3, <3>4 DEF SendChunk
    <2>3. CASE ReadFails(f)
      BY <2>3 DEF ReadFails
    <2>4. CASE RecordHash(f)
      <3>1. PICK r \in Record : veri_hashes' = With(veri_hashes, file_name[f], r)
        <4>1. <<f, sent[f]>> \in Record /\ <<f, sent[f] + 1>> \in Record
          BY DEF Record
        <4> QED
          BY <2>4, <4>1 DEF RecordHash
      <3>2. /\ DOMAIN veri_hashes' \subseteq Names
            /\ \A n \in DOMAIN veri_hashes' : veri_hashes'[n] \in Record
        BY <3>1 DEF With, Names
      <3> QED
        BY <2>4, <3>2 DEF RecordHash
    <2>5. CASE RecordManifest(f)
      <3>1. RecordOf(f) \in Record
        BY DEF RecordOf, Record
      <3>2. /\ DOMAIN file_manifest' \subseteq Names
            /\ \A n \in DOMAIN file_manifest' : file_manifest'[n] \in Record
        BY <2>5, <3>1 DEF RecordManifest, With, Names
      <3> QED
        BY <2>5, <3>2 DEF RecordManifest
    <2> QED
      BY <1>1, <2>1, <2>2, <2>3, <2>4, <2>5 DEF FileNext, FileProgress
  <1>2. CASE PoolEnds
    BY <1>0, <1>2 DEF PoolEnds, main, writer
  <1>3. CASE MainNext
    <2> USE <1>0 DEF pool, writer
    <2>1. CASE Receive
      <3>1. Head(channel) \in Hash /\ Tail(channel) \in Seq(Hash)
            /\ Len(Tail(channel)) <= BATCH_SIZE
        BY <2>1, ChunkerAssumption DEF Receive
      <3>2. CASE running
        <4>1. /\ chunk_batch' = Append(chunk_batch, Head(channel))
              /\ main_pc' = IF BatchFull THEN "send" ELSE "recv"
          BY <2>1, <3>2 DEF Receive
        <4>2. /\ chunk_batch' \in Seq(Hash)
              /\ Len(chunk_batch') = Len(chunk_batch) + 1
          BY <3>1, <4>1
        <4>3. /\ Len(chunk_batch') <= BATCH_SIZE
              /\ main_pc' = "recv" => Len(chunk_batch') < BATCH_SIZE
          BY <2>1, <4>1, <4>2, ChunkerAssumption DEF Receive, BatchFull
        <4> QED
          BY <2>1, <3>1, <3>2, <4>1, <4>2, <4>3 DEF Receive
      <3>3. CASE ~ running
        BY <2>1, <3>1, <3>3 DEF Receive, Errors, WriterErrors
      <3> QED
        BY <3>2, <3>3
    <2>2. CASE LastBatch
      BY <2>2 DEF LastBatch
    <2>3. CASE SendBatch
      <3>1. CASE writer_pc # "ended" /\ Len(batches) < MAX_BATCHES
        <4>1. /\ Append(batches, chunk_batch) \in Seq(Seq(Hash))
              /\ Len(Append(batches, chunk_batch)) = Len(batches) + 1
          OBVIOUS
        <4>2. Len(Append(batches, chunk_batch)) <= MAX_BATCHES
          BY <3>1, <4>1, ChunkerAssumption
        <4>3. /\ << >> \in Seq(Hash) /\ Len(<< >>) = 0
              /\ 0 < BATCH_SIZE /\ 0 <= BATCH_SIZE
          BY ChunkerAssumption
        <4>4. /\ batches' = Append(batches, chunk_batch)
              /\ chunk_batch' = << >>
              /\ main_pc' \in {"recv", "join"}
              /\ result' = result
              /\ UNCHANGED <<cache, pool, channel, writer, running>>
          BY <2>3, <3>1 DEF SendBatch
        <4>5. /\ batches' \in Seq(Seq(Hash)) /\ Len(batches') <= MAX_BATCHES
              /\ chunk_batch' \in Seq(Hash) /\ Len(chunk_batch') <= BATCH_SIZE
              /\ Len(chunk_batch') < BATCH_SIZE
          BY <4>1, <4>2, <4>3, <4>4
        <4> QED
          BY <4>4, <4>5
      <3>2. CASE writer_pc = "ended"
        BY <2>3, <3>2 DEF SendBatch, Errors
      <3> QED
        BY <2>3, <3>1, <3>2 DEF SendBatch
    <2>4. CASE JoinThreads
      BY <2>4, ChunkerAssumption
         DEF JoinThreads, ResultOf, Errors, WriterErrors
    <2> QED
      BY <1>3, <2>1, <2>2, <2>3, <2>4 DEF MainNext
  <1>4. CASE WriterNext
    <2> USE DEF pool, main, WriterErrors
    <2>1. CASE TakeBatch
      <3>1. Head(batches) \in Seq(Hash) /\ Tail(batches) \in Seq(Seq(Hash))
            /\ Len(Tail(batches)) <= MAX_BATCHES
        BY <2>1, ChunkerAssumption DEF TakeBatch
      <3> QED
        <4>1. << >> \in Seq(Hash)
          OBVIOUS
        <4> QED
          BY <1>0, <2>1, <3>1, <4>1 DEF TakeBatch, WriterFails
    <2>2. CASE Insert
      <3>1. Head(inserting) \in Hash /\ Tail(inserting) \in Seq(Hash)
        BY <2>2 DEF Insert
      <3>2. CacheTypeOK'
        BY <2>2, <3>1, InsertType DEF Insert
      <3> QED
        <4>1. << >> \in Seq(Hash)
          OBVIOUS
        <4> QED
          BY <2>2, <3>1, <3>2, <4>1 DEF Insert, WriterFails
    <2>3. CASE BatchInserted
      BY <1>0, <2>3 DEF BatchInserted
    <2>4. CASE WriterEnds
      BY <1>0, <2>4 DEF WriterEnds
    <2> QED
      BY <1>4, <2>1, <2>2, <2>3, <2>4 DEF WriterNext
  <1>5. CASE Cancel
    BY <1>0, <1>5 DEF Cancel, pool, main, writer
  <1>6. CASE UNCHANGED vars
    BY <1>0, <1>6 DEF vars, pool, main, writer
  <1> QED
    BY <1>1, <1>2, <1>3, <1>4, <1>5, <1>6 DEF Next, Ended

(* Every variable keeps its type, and every queue and batch its bound.     *)
THEOREM TypeCorrect == Spec => []TypeOK
  BY TypeInit, TypeStep, PTL DEF Spec
-----------------------------------------------------------------------------
(***************************************************************************)
(* The cache.                                                              *)
(***************************************************************************)

(* The slice of the file that belongs to an entry.                         *)
Slice(h) == SubSeq(cache_file, location_map[h].offset + 1,
                   location_map[h].offset + location_map[h].length)

(* Every entry lies before current_offset, which is the end of the file    *)
(* until a write has failed, after which the writer inserts no more.       *)
CacheInv ==
  /\ \A h \in DOMAIN map : map[h] = Data[h]
  /\ \A h \in DOMAIN location_map :
       /\ location_map[h].offset + location_map[h].length <= data_size
       /\ Slice(h) = Data[h]
  /\ OnDisk => data_size <= Len(cache_file)
  /\ ~ OnDisk => DOMAIN location_map = {}
  /\ OnDisk /\ writer_pc # "ended" => data_size = Len(cache_file)

LEMMA CacheInitial == Init => CacheInv
  BY DEF Init, CacheInit, CacheInv

(* Bytes added to the end of the file leave every entry what it was.       *)
LEMMA SlicesStay ==
  ASSUME TypeOK, CacheInv, NEW d \in Seq(Byte), NEW h \in DOMAIN location_map,
         cache_file' = cache_file \o d,
         location_map'[h] = location_map[h]
  PROVE  Slice(h)' = Slice(h)
  <1> DEFINE o == location_map[h].offset
             l == location_map[h].length
  <1>1. /\ o \in Nat /\ l \in Nat
        /\ data_size \in Nat
        /\ cache_file \in Seq(Byte)
    BY DEF TypeOK, CacheTypeOK, Location
  <1>2. o + l <= Len(cache_file)
    BY <1>1 DEF CacheInv
  <1>3. SubSeq(cache_file \o d, o + 1, o + l) = SubSeq(cache_file, o + 1, o + l)
    BY <1>1, <1>2, SliceBeforeEnd
  <1> QED
    BY <1>3 DEF Slice

LEMMA CacheStep == TypeOK /\ CacheInv /\ [Next]_vars => CacheInv'
  <1> SUFFICES ASSUME TypeOK, CacheInv, [Next]_vars
               PROVE  CacheInv'
    OBVIOUS
  <1>1. ASSUME UNCHANGED cache,
               writer_pc' = "ended" \/ writer_pc # "ended"
        PROVE  CacheInv'
    BY <1>1 DEF cache, CacheInv, Slice
  <1>2. ASSUME NEW f \in File, FileNext(f)
        PROVE  CacheInv'
    <2>1. UNCHANGED <<cache, writer>>
      BY <1>2 DEF FileNext, FileProgress, StartFile, SendChunk, ReadFails,
                  RecordHash, RecordManifest
    <2> QED
      BY <2>1, <1>1 DEF writer
  <1>3. ASSUME PoolEnds \/ MainNext \/ Cancel
        PROVE  CacheInv'
    <2>1. UNCHANGED <<cache, writer>>
      BY <1>3 DEF PoolEnds, MainNext, Receive, LastBatch, SendBatch,
                  JoinThreads, Cancel
    <2> QED
      BY <2>1, <1>1 DEF writer
  <1>4. ASSUME TakeBatch \/ BatchInserted \/ WriterEnds
        PROVE  CacheInv'
    BY <1>1, <1>4 DEF TakeBatch, BatchInserted, WriterEnds, WriterFails
  <1>5. CASE Insert
    <2>0. PICK h \in Hash : h = Head(inserting)
      BY <1>5 DEF Insert, TypeOK
    <2>1. /\ writer_pc = "insert"
          /\ data_size \in Nat /\ cache_file \in Seq(Byte)
          /\ Len(cache_file) \in Nat
      BY <1>5 DEF Insert, TypeOK, CacheTypeOK
    <2>2. Data[h] \in Seq(Byte) /\ Len(Data[h]) \in Nat
      BY <2>1, DataTypes
    <2>3. CASE InsertKnown(h)
      BY <2>3, <2>1, <1>1 DEF InsertKnown
    <2>4. CASE InsertNew(h) /\ OnDisk
      <3>1. /\ h \notin DOMAIN location_map
            /\ cache_file' = cache_file \o Data[h]
            /\ location_map' = With(location_map, h, [offset |-> data_size,
                                                      length |-> Len(Data[h])])
            /\ data_size' = data_size + Len(Data[h])
            /\ map' = map
        BY <2>4 DEF InsertNew, Keys
      <3>2. data_size = Len(cache_file)
        BY <2>1, <2>4 DEF CacheInv
      <3>3. Len(cache_file') = Len(cache_file) + Len(Data[h])
        BY <2>1, <2>2, <3>1
      <3>4. ASSUME NEW k \in DOMAIN location_map
            PROVE  /\ location_map'[k] = location_map[k]
                   /\ location_map[k].offset + location_map[k].length
                        <= data_size'
                   /\ Slice(k)' = Data[k]
        <4>1. location_map'[k] = location_map[k]
          BY <3>1, <3>4 DEF With
        <4>2. Slice(k)' = Slice(k)
          BY <2>2, <3>1, <3>4, <4>1, SlicesStay
        <4>3. location_map[k].offset \in Nat /\ location_map[k].length \in Nat
          BY <3>4 DEF TypeOK, CacheTypeOK, Location
        <4> QED
          BY <2>1, <2>2, <3>1, <3>4, <4>1, <4>2, <4>3 DEF CacheInv
      <3>5. /\ location_map'[h].offset + location_map'[h].length = data_size'
            /\ Slice(h)' = Data[h]
        <4>1. location_map'[h] = [offset |-> data_size, length |-> Len(Data[h])]
          BY <3>1 DEF With
        <4>2. SubSeq(cache_file \o Data[h], Len(cache_file) + 1,
                     Len(cache_file) + Len(Data[h])) = Data[h]
          BY <2>1, <2>2, SliceAtEnd
        <4>3. /\ location_map'[h].offset = Len(cache_file)
              /\ location_map'[h].length = Len(Data[h])
          BY <3>2, <4>1
        <4>4. Slice(h)' = SubSeq(cache_file', location_map'[h].offset + 1,
                                 location_map'[h].offset
                                   + location_map'[h].length)
          BY DEF Slice
        <4> QED
          BY <3>1, <3>2, <4>2, <4>3, <4>4
      <3>6. DOMAIN location_map' = DOMAIN location_map \cup {h}
        BY <3>1 DEF With
      <3>7. \A k \in DOMAIN location_map' :
              /\ location_map'[k].offset + location_map'[k].length <= data_size'
              /\ Slice(k)' = Data[k]
        BY <2>1, <2>2, <3>1, <3>4, <3>5, <3>6
      <3> QED
        BY <2>1, <2>2, <2>4, <3>1, <3>2, <3>3, <3>7 DEF CacheInv
    <2>5. CASE InsertNew(h) /\ ~ OnDisk
      <3>1. /\ map' = With(map, h, Data[h])
            /\ UNCHANGED <<cache_file, location_map>>
            /\ data_size' = data_size + Len(Data[h])
        BY <2>5 DEF InsertNew
      <3>2. \A k \in DOMAIN map' : map'[k] = Data[k]
        BY <3>1 DEF CacheInv, With
      <3> QED
        BY <2>5, <3>1, <3>2 DEF CacheInv
    <2>6. CASE InsertFails(h) /\ WriterFails("Io")
      <3>1. PICK n \in {0} \cup 1 .. (Len(Data[h]) - 1) :
              cache_file' = cache_file \o SubSeq(Data[h], 1, n)
        BY <2>6 DEF InsertFails
      <3>0. OnDisk
        BY <2>6 DEF InsertFails
      <3> DEFINE d == SubSeq(Data[h], 1, n)
      <3>2. d \in Seq(Byte) /\ Len(d) \in Nat
        BY <2>1, <2>2, <3>1, DataTypes
      <3>3. Len(cache_file') = Len(cache_file) + Len(d)
        BY <2>1, <3>1, <3>2
      <3>4. UNCHANGED <<map, location_map, data_size>> /\ writer_pc' = "ended"
        BY <2>6 DEF InsertFails, WriterFails
      <3>5. \A k \in DOMAIN location_map : Slice(k)' = Slice(k)
        BY <3>1, <3>2, <3>4, SlicesStay
      <3> QED
        BY <2>1, <3>0, <3>2, <3>3, <3>4, <3>5 DEF CacheInv
    <2> QED
      BY <1>5, <2>0, <2>3, <2>4, <2>5, <2>6 DEF Insert, InsertItem
  <1>6. CASE UNCHANGED vars
    BY <1>1, <1>6 DEF vars, writer
  <1> QED
    BY <1>2, <1>3, <1>4, <1>5, <1>6 DEF Next, Ended, WriterNext

LEMMA CacheInvariant == Spec => [](TypeOK /\ CacheInv)
  <1>1. Init => TypeOK /\ CacheInv
    BY TypeInit, CacheInitial
  <1>2. TypeOK /\ CacheInv /\ [Next]_vars => (TypeOK /\ CacheInv)'
    BY TypeStep, CacheStep
  <1> QED
    BY <1>1, <1>2, PTL DEF Spec

(* A chunk is read back as it was inserted, whatever failed meanwhile.     *)
THEOREM CacheCorrect == Spec => []CacheFaithful
  <1>1. CacheInv => CacheFaithful
    BY DEF CacheInv, CacheFaithful, Keys, ChunkOf, Slice
  <1> QED
    BY <1>1, CacheInvariant, PTL
-----------------------------------------------------------------------------
(***************************************************************************)
(* Who has ended when.                                                     *)
(***************************************************************************)

(* What the calling thread has passed, what it has left behind, and what   *)
(* the ends of the pool and of the writer mean.                            *)
PhaseInv ==
  /\ main_pc = "returned" <=> result # "running"
  /\ main_pc \in {"flush", "join"} => pool_ended /\ channel = << >>
  /\ main_pc = "join" => chunk_batch = << >>
  /\ writer_pc # "insert" => inserting = << >>
  /\ writer_result # "Ok" => writer_pc = "ended"
  /\ writer_pc = "ended" /\ writer_result = "Ok"
       => batches = << >> /\ Disconnected
  /\ pool_ended => /\ Busy = {}
                   /\ Failed \/ \A f \in File : stage[f] # "todo"
  /\ result = "Ok" => /\ AllEnded /\ writer_result = "Ok" /\ ~ Failed
                      /\ channel = << >> /\ chunk_batch = << >>
  /\ writer_result = "Cancelled" => ~ running
  /\ ErrorHasCause

LEMMA PhaseInit == Init => PhaseInv
  BY DEF Init, PhaseInv, ErrorHasCause

LEMMA PhaseStep == TypeOK /\ PhaseInv /\ [Next]_vars => PhaseInv'
  <1> SUFFICES ASSUME TypeOK, PhaseInv, [Next]_vars
               PROVE  PhaseInv'
    OBVIOUS
  <1> USE DEF PhaseInv, ErrorHasCause, Disconnected, AllEnded, Busy, Failed
  <1>1. ASSUME NEW f \in File, FileNext(f)
        PROVE  PhaseInv'
    <2>1. stage \in [File -> {"todo", "chunking", "hashed", "done", "failed"}]
      BY DEF TypeOK
    <2>2. ~ pool_ended
      BY <1>1, <2>1 DEF FileNext, FileProgress, StartFile, SendChunk,
                        ReadFails, RecordHash, RecordManifest
    <2>3. /\ UNCHANGED <<pool_ended, main, batches, writer, running>>
          /\ stage[f] # "failed"
          /\ \E x : stage' = [stage EXCEPT ![f] = x]
      <3>1. CASE SendChunk(f)
        BY <2>1, <3>1 DEF SendChunk
      <3> QED
        BY <1>1, <3>1 DEF FileNext, FileProgress, StartFile, ReadFails,
                          RecordHash, RecordManifest
    <2>4. Failed => Failed'
      BY <2>1, <2>3
    <2>5. result # "Ok" /\ main_pc \notin {"flush", "join"}
      BY <2>2
    <2> QED
      BY <2>2, <2>3, <2>4, <2>5 DEF main, writer
  <1>2. CASE PoolEnds
    BY <1>2 DEF PoolEnds, main, writer
  <1>3. CASE MainNext
    <2>1. CASE Receive
      BY <2>1 DEF Receive, pool, writer
    <2>2. CASE LastBatch
      BY <2>2 DEF LastBatch, pool, writer
    <2>3. CASE SendBatch
      BY <2>3 DEF SendBatch, pool, writer
    <2>4. CASE JoinThreads
      BY <2>4 DEF JoinThreads, ResultOf, pool, writer, TypeOK, WriterErrors
    <2> QED
      BY <1>3, <2>1, <2>2, <2>3, <2>4 DEF MainNext
  <1>4. CASE WriterNext
    <2>1. CASE TakeBatch
      BY <2>1 DEF TakeBatch, WriterFails, pool, main
    <2>2. CASE Insert
      BY <2>2 DEF Insert, WriterFails, pool, main
    <2>3. CASE BatchInserted
      BY <2>3 DEF BatchInserted, pool, main
    <2>4. CASE WriterEnds
      BY <2>4 DEF WriterEnds, pool, main
    <2> QED
      BY <1>4, <2>1, <2>2, <2>3, <2>4 DEF WriterNext
  <1>5. CASE Cancel
    BY <1>5 DEF Cancel, pool, main, writer
  <1>6. CASE UNCHANGED vars
    BY <1>6 DEF vars, pool, main, writer
  <1> QED
    BY <1>1, <1>2, <1>3, <1>4, <1>5, <1>6 DEF Next, Ended

LEMMA PhaseInvariant == Spec => [](TypeOK /\ PhaseInv)
  <1>1. Init => TypeOK /\ PhaseInv
    BY TypeInit, PhaseInit
  <1>2. TypeOK /\ PhaseInv /\ [Next]_vars => (TypeOK /\ PhaseInv)'
    BY TypeStep, PhaseStep
  <1> QED
    BY <1>1, <1>2, PTL DEF Spec

(* No error is reported that did not happen.                               *)
THEOREM ErrorsCaused == Spec => []ErrorHasCause
  <1>1. PhaseInv => ErrorHasCause
    BY DEF PhaseInv
  <1> QED
    BY <1>1, PhaseInvariant, PTL
-----------------------------------------------------------------------------
(***************************************************************************)
(* What is recorded of a file.                                             *)
(***************************************************************************)

(* Until the call has failed, what the maps hold is of whole files.        *)
FileInv ==
  result \in {"running", "Ok"} =>
    /\ \A f \in File : stage[f] \in {"hashed", "done"} =>
         /\ sent[f] = Len(contents[f])
         /\ file_name[f] \in DOMAIN veri_hashes
    /\ \A f \in File :
         stage[f] = "done" => file_name[f] \in DOMAIN file_manifest
    /\ \A n \in DOMAIN veri_hashes : \E f \in File :
         file_name[f] = n /\ veri_hashes[n] = <<f, Len(contents[f])>>
    /\ \A n \in DOMAIN file_manifest : \E f \in File :
         /\ file_name[f] = n
         /\ file_manifest[n] = <<f, Len(contents[f])>>

LEMMA FileInit == Init => FileInv
  BY DEF Init, FileInv

LEMMA FileStep == TypeOK /\ PhaseInv /\ FileInv /\ [Next]_vars => FileInv'
  <1> SUFFICES ASSUME TypeOK, PhaseInv, FileInv, [Next]_vars,
                      result' \in {"running", "Ok"}
               PROVE  FileInv'
    BY DEF FileInv
  <1>1. result \in {"running", "Ok"} /\ (result = "Ok" => result' = "Ok")
    <2>1. CASE MainNext
      BY <2>1 DEF MainNext, Receive, LastBatch, SendBatch, JoinThreads,
                  PhaseInv
    <2>2. CASE ~ MainNext
      BY <2>2 DEF Next, Ended, vars, main, PoolEnds, FileNext, FileProgress,
                  StartFile, SendChunk, ReadFails, RecordHash,
                  RecordManifest, WriterNext, TakeBatch, Insert,
                  BatchInserted, WriterEnds, Cancel
    <2> QED
      BY <2>1, <2>2
  <1>2. stage \in [File -> {"todo", "chunking", "hashed", "done", "failed"}]
        /\ sent \in [File -> Nat]
    BY DEF TypeOK
  <1>3. ASSUME UNCHANGED <<stage, sent, veri_hashes, file_manifest>>
        PROVE  FileInv'
    BY <1>1, <1>3 DEF FileInv
  <1>4. ASSUME NEW f \in File, FileNext(f)
        PROVE  FileInv'
    <2>0. ~ ReceiverGone
      BY <1>1, <1>2, <1>4 DEF PhaseInv, ReceiverGone, AllEnded, Busy,
              FileNext, FileProgress, StartFile, SendChunk, ReadFails,
              RecordHash, RecordManifest
    <2>1. CASE StartFile(f) \/ ReadFails(f)
      BY <1>1, <1>2, <2>1 DEF StartFile, ReadFails, FileInv
    <2>2. CASE SendChunk(f)
      BY <1>1, <1>2, <2>2 DEF SendChunk, FileInv
    <2>3. CASE RecordHash(f)
      <3>1. /\ sent[f] = Len(contents[f])
            /\ veri_hashes' = With(veri_hashes, file_name[f],
                                   <<f, Len(contents[f])>>)
            /\ stage' = [stage EXCEPT ![f] = "hashed"]
            /\ UNCHANGED <<sent, file_manifest>>
        BY <2>0, <2>3 DEF RecordHash
      <3>2. /\ DOMAIN veri_hashes' = DOMAIN veri_hashes \cup {file_name[f]}
            /\ veri_hashes'[file_name[f]] = <<f, Len(contents[f])>>
            /\ \A n \in DOMAIN veri_hashes : n # file_name[f]
                 => veri_hashes'[n] = veri_hashes[n]
        BY <3>1 DEF With
      <3>3. \A n \in DOMAIN veri_hashes' : \E g \in File :
              file_name[g] = n /\ veri_hashes'[n] = <<g, Len(contents[g])>>
        BY <1>1, <3>2 DEF FileInv
      <3> QED
        BY <1>1, <1>2, <3>1, <3>2, <3>3 DEF FileInv
    <2>4. CASE RecordManifest(f)
      <3>1. /\ sent[f] = Len(contents[f])
            /\ file_manifest' = With(file_manifest, file_name[f],
                                     <<f, Len(contents[f])>>)
            /\ stage[f] = "hashed"
            /\ stage' = [stage EXCEPT ![f] = "done"]
            /\ UNCHANGED <<sent, veri_hashes>>
        BY <1>1, <2>4 DEF RecordManifest, RecordOf, FileInv
      <3>2. /\ DOMAIN file_manifest' = DOMAIN file_manifest \cup {file_name[f]}
            /\ file_manifest'[file_name[f]] = <<f, Len(contents[f])>>
            /\ \A n \in DOMAIN file_manifest : n # file_name[f]
                 => file_manifest'[n] = file_manifest[n]
        BY <3>1 DEF With
      <3>3. \A n \in DOMAIN file_manifest' : \E g \in File :
              file_name[g] = n /\ file_manifest'[n] = <<g, Len(contents[g])>>
        BY <1>1, <3>2 DEF FileInv
      <3> QED
        BY <1>1, <1>2, <3>1, <3>2, <3>3 DEF FileInv
    <2> QED
      BY <1>4, <2>1, <2>2, <2>3, <2>4 DEF FileNext, FileProgress
  <1>5. CASE \E f \in File : FileNext(f)
    BY <1>4, <1>5
  <1>6. CASE ~ \E f \in File : FileNext(f)
    <2>1. UNCHANGED <<stage, sent, veri_hashes, file_manifest>>
      BY <1>6 DEF Next, Ended, vars, pool, PoolEnds, MainNext, Receive,
                  LastBatch, SendBatch, JoinThreads, WriterNext, TakeBatch,
                  Insert, BatchInserted, WriterEnds, Cancel
    <2> QED
      BY <2>1, <1>3
  <1> QED
    BY <1>5, <1>6

LEMMA FileInvariant == Spec => [](TypeOK /\ PhaseInv /\ FileInv)
  <1>1. Init => TypeOK /\ PhaseInv /\ FileInv
    BY TypeInit, PhaseInit, FileInit
  <1>2. TypeOK /\ PhaseInv /\ FileInv /\ [Next]_vars
          => (TypeOK /\ PhaseInv /\ FileInv)'
    BY TypeStep, PhaseStep, FileStep
  <1> QED
    BY <1>1, <1>2, PTL DEF Spec

(* With Ok every file has passed the pool.                                 *)
LEMMA OkAllDone ==
  ASSUME TypeOK, PhaseInv, FileInv, result = "Ok", NEW f \in File
  PROVE  /\ stage[f] = "done"
         /\ sent[f] = Len(contents[f])
         /\ file_name[f] \in DOMAIN veri_hashes
         /\ file_name[f] \in DOMAIN file_manifest
  <1>1. stage[f] \in {"todo", "chunking", "hashed", "done", "failed"}
    BY DEF TypeOK
  <1>2. stage[f] = "done"
    BY <1>1 DEF PhaseInv, AllEnded, Busy, Failed
  <1> QED
    BY <1>2 DEF FileInv

(* The hash of a file is that of the chunks in its manifest.               *)
THEOREM HashesMatch == Spec => []HashMatchesManifest
  <1>1. TypeOK /\ PhaseInv /\ FileInv => HashMatchesManifest
    <2> SUFFICES ASSUME TypeOK, PhaseInv, FileInv, result = "Ok", NamesDiffer,
                        NEW f \in File
                 PROVE  veri_hashes[file_name[f]] = file_manifest[file_name[f]]
      BY DEF HashMatchesManifest
    <2>1. PICK g \in File : /\ file_name[g] = file_name[f]
                            /\ veri_hashes[file_name[f]]
                                 = <<g, Len(contents[g])>>
      BY OkAllDone DEF FileInv
    <2>2. PICK h \in File : /\ file_name[h] = file_name[f]
                            /\ file_manifest[file_name[f]]
                                 = <<h, Len(contents[h])>>
      BY OkAllDone DEF FileInv
    <2>3. g = f /\ h = f
      BY <2>1, <2>2 DEF NamesDiffer
    <2> QED
      BY <2>1, <2>2, <2>3
  <1> QED
    BY <1>1, FileInvariant, PTL
-----------------------------------------------------------------------------
(***************************************************************************)
(* Where the chunks are.                                                   *)
(***************************************************************************)

HashesIn(bs) == UNION {HashesOf(bs[i]) : i \in 1 .. Len(bs)}

LEMMA HashesInAppend ==
  ASSUME NEW S, NEW bs \in Seq(Seq(S)), NEW b \in Seq(S)
  PROVE  HashesIn(Append(bs, b)) = HashesIn(bs) \cup HashesOf(b)
  <1> DEFINE t == Append(bs, b)
  <1>1. /\ Len(bs) \in Nat
        /\ Len(t) = Len(bs) + 1
        /\ t[Len(bs) + 1] = b
        /\ \A i \in 1 .. Len(bs) : t[i] = bs[i]
    OBVIOUS
  <1>2. 1 .. Len(t) = 1 .. Len(bs) \cup {Len(bs) + 1}
    BY <1>1
  <1> HIDE DEF t
  <1>3. {HashesOf(t[i]) : i \in 1 .. Len(t)}
          = {HashesOf(bs[i]) : i \in 1 .. Len(bs)} \cup {HashesOf(b)}
    BY <1>1, <1>2
  <1> QED
    BY <1>3 DEF HashesIn, t

LEMMA HashesInTail ==
  ASSUME NEW S, NEW bs \in Seq(Seq(S)), bs # << >>
  PROVE  HashesIn(bs) = HashesOf(Head(bs)) \cup HashesIn(Tail(bs))
  <1> DEFINE t == Tail(bs)
  <1>1. /\ Len(bs) \in Nat /\ Len(bs) # 0
        /\ Len(t) = Len(bs) - 1
        /\ Head(bs) = bs[1]
        /\ \A i \in 1 .. Len(bs) - 1 : t[i] = bs[i + 1]
    OBVIOUS
  <1> HIDE DEF t
  <1>2. ASSUME NEW i \in 1 .. Len(bs)
        PROVE  HashesOf(bs[i]) \subseteq HashesOf(bs[1]) \cup HashesIn(t)
    <2>1. CASE i = 1
      BY <2>1
    <2>2. CASE i # 1
      <3>1. i - 1 \in 1 .. Len(t) /\ t[i - 1] = bs[i]
        BY <1>1, <1>2, <2>2
      <3>2. HashesOf(t[i - 1]) \subseteq HashesIn(t)
        BY <3>1 DEF HashesIn
      <3> QED
        BY <3>1, <3>2
    <2> QED
      BY <2>1, <2>2
  <1>3. ASSUME NEW i \in 1 .. Len(t)
        PROVE  HashesOf(t[i]) \subseteq HashesIn(bs)
    <2>1. i + 1 \in 1 .. Len(bs) /\ bs[i + 1] = t[i]
      BY <1>1, <1>3
    <2> QED
      BY <2>1 DEF HashesIn
  <1>4. HashesOf(bs[1]) \subseteq HashesIn(bs)
    BY <1>1 DEF HashesIn
  <1>5. HashesIn(bs) \subseteq HashesOf(bs[1]) \cup HashesIn(t)
    BY <1>2 DEF HashesIn
  <1>6. HashesIn(t) \subseteq HashesIn(bs)
    BY <1>3 DEF HashesIn
  <1> QED
    BY <1>1, <1>4, <1>5, <1>6 DEF t

Input == UNION {HashesOf(contents[f]) : f \in File}

(* What is on its way comes from the input; what a worker has recorded is  *)
(* on its way or in the cache until something fails, and with Ok as well.  *)
KeptInv ==
  /\ InFlight \subseteq Input
  /\ result \in {"running", "Ok"} /\ writer_result = "Ok" =>
       \A f \in File : \A i \in 1 .. sent[f] :
         contents[f][i] \in Keys \cup InFlight

LEMMA KeptInit == Init => KeptInv
  <1> SUFFICES ASSUME Init
               PROVE  KeptInv
    OBVIOUS
  <1>1. InFlight = {}
    BY DEF Init, InFlight, HashesOf
  <1>2. \A f \in File : 1 .. sent[f] = {}
    BY DEF Init
  <1> QED
    BY <1>1, <1>2 DEF KeptInv

(* A chunk that is inserted is a key afterwards, and so are those before.  *)
LEMMA InsertKeys ==
  ASSUME NEW h, InsertItem(h)
  PROVE  Keys' = Keys \cup {h}
  BY DEF InsertItem, InsertKnown, InsertNew, Keys, With, cache

LEMMA FailKeys ==
  ASSUME NEW h, InsertFails(h)
  PROVE  Keys' = Keys
  BY DEF InsertFails, Keys

LEMMA KeptStep ==
  TypeOK /\ PhaseInv /\ KeptInv /\ [Next]_vars => KeptInv'
  <1> SUFFICES ASSUME TypeOK, PhaseInv, KeptInv, [Next]_vars
               PROVE  KeptInv'
    OBVIOUS
  <1>0. InFlight = HashesOf(channel) \cup HashesOf(chunk_batch)
                     \cup HashesOf(inserting) \cup HashesIn(batches)
        /\ InFlight' = HashesOf(channel') \cup HashesOf(chunk_batch')
                     \cup HashesOf(inserting') \cup HashesIn(batches')
    BY DEF InFlight, HashesIn
  <1>1. /\ sent \in [File -> Nat]
        /\ channel \in Seq(Hash) /\ chunk_batch \in Seq(Hash)
        /\ inserting \in Seq(Hash) /\ batches \in Seq(Seq(Hash))
    BY DEF TypeOK
  (* The common case: nothing is recorded, and nothing is lost.            *)
  <1>2. ASSUME sent' = sent, InFlight' \subseteq InFlight,
               Keys \cup InFlight \subseteq Keys' \cup InFlight',
               result' \in {"running", "Ok"} /\ writer_result' = "Ok"
                 => result \in {"running", "Ok"} /\ writer_result = "Ok"
        PROVE  KeptInv'
    <2>1. InFlight' \subseteq Input
      BY <1>2 DEF KeptInv
    <2> QED
      BY <1>2, <2>1 DEF KeptInv
  <1>3. ASSUME UNCHANGED <<cache, sent, channel, chunk_batch, inserting, batches>>,
               result' \in {"running", "Ok"} /\ writer_result' = "Ok"
                 => result \in {"running", "Ok"} /\ writer_result = "Ok"
        PROVE  KeptInv'
    <2>1. InFlight' = InFlight /\ Keys' = Keys
      BY <1>3 DEF InFlight, HashesOf, Keys, cache
    <2> QED
      BY <2>1, <1>2, <1>3
  <1>4. ASSUME NEW f \in File, SendChunk(f)
        PROVE  KeptInv'
    <2> DEFINE h == contents[f][sent[f] + 1]
    <2>1. /\ sent[f] + 1 \in 1 .. Len(contents[f])
          /\ h \in Hash
      BY <1>1, <1>4, ChunkTypes, ChunkerAssumption DEF SendChunk
    <2>2. HashesOf(channel') = HashesOf(channel) \cup {h}
      BY <1>1, <1>4, <2>1, HashesAppend DEF SendChunk
    <2>3. UNCHANGED <<cache, chunk_batch, inserting, batches, result,
                      writer_result>>
          /\ sent' = [sent EXCEPT ![f] = @ + 1]
      BY <1>4 DEF SendChunk, main, writer
    <2>4. InFlight' = InFlight \cup {h} /\ Keys' = Keys
      BY <1>0, <2>2, <2>3 DEF Keys, cache
    <2>5. h \in Input
      BY <2>1 DEF Input, HashesOf
    <2>6. ASSUME NEW g \in File, NEW i \in 1 .. sent'[g],
                 result' \in {"running", "Ok"}, writer_result' = "Ok"
          PROVE  contents[g][i] \in Keys' \cup InFlight'
      <3>1. CASE i \in 1 .. sent[g]
        BY <2>3, <2>4, <2>6, <3>1 DEF KeptInv
      <3>2. CASE i \notin 1 .. sent[g]
        <4>1. g = f /\ i = sent[f] + 1
          BY <1>1, <2>3, <2>6, <3>2
        <4> QED
          BY <2>4, <4>1
      <3> QED
        BY <3>1, <3>2
    <2> QED
      BY <2>4, <2>5, <2>6 DEF KeptInv
  <1>5. ASSUME NEW f \in File, FileNext(f), ~ SendChunk(f)
        PROVE  KeptInv'
    BY <1>3, <1>5 DEF FileNext, FileProgress, StartFile, ReadFails,
                      RecordHash, RecordManifest, main, writer
  <1>6. CASE PoolEnds \/ LastBatch \/ BatchInserted \/ WriterEnds \/ Cancel
    BY <1>3, <1>6 DEF PoolEnds, LastBatch, BatchInserted, WriterEnds, Cancel,
                      pool, main, writer
  <1>7. CASE Receive
    <2>1. /\ channel # << >> /\ channel' = Tail(channel)
          /\ Head(channel) \in Hash
          /\ UNCHANGED <<cache, sent, batches, inserting, writer_result>>
          /\ result = "running"
      BY <1>1, <1>7 DEF Receive, pool, writer, PhaseInv
    <2>2. HashesOf(channel) = {Head(channel)} \cup HashesOf(channel')
      BY <1>1, <2>1, HashesTail
    <2>3. CASE running
      <3>1. /\ chunk_batch' = Append(chunk_batch, Head(channel))
            /\ result' = result
        BY <1>7, <2>3 DEF Receive
      <3>2. HashesOf(chunk_batch') = HashesOf(chunk_batch) \cup {Head(channel)}
        BY <1>1, <2>1, <3>1, HashesAppend
      <3>3. InFlight' = InFlight
        BY <1>0, <2>1, <2>2, <3>2
      <3>4. Keys' = Keys
        BY <2>1 DEF Keys, cache
      <3> QED
        BY <1>2, <2>1, <3>1, <3>3, <3>4
    <2>4. CASE ~ running
      <3>1. /\ chunk_batch' = chunk_batch
            /\ result' = "Cancelled"
        BY <1>7, <2>4 DEF Receive
      <3>2. InFlight' \subseteq InFlight
        BY <1>0, <2>1, <2>2, <3>1
      <3> QED
        BY <3>1, <3>2 DEF KeptInv
    <2> QED
      BY <2>3, <2>4
  <1>8. CASE SendBatch
    <2>1. /\ UNCHANGED <<cache, sent, channel, inserting, writer_result>>
          /\ result = "running"
      BY <1>8 DEF SendBatch, pool, writer, PhaseInv
    <2>2. CASE writer_pc # "ended"
      <3>1. /\ batches' = Append(batches, chunk_batch)
            /\ chunk_batch' = << >>
            /\ result' = result
        BY <1>8, <2>2 DEF SendBatch
      <3>2. HashesIn(batches') = HashesIn(batches) \cup HashesOf(chunk_batch)
        BY <1>1, <3>1, HashesInAppend
      <3>3. HashesOf(chunk_batch') = {}
        BY <3>1, HashesEmpty
      <3>4. InFlight' = InFlight
        BY <1>0, <2>1, <3>2, <3>3
      <3>5. Keys' = Keys
        BY <2>1 DEF Keys, cache
      <3> QED
        BY <1>2, <2>1, <3>1, <3>4, <3>5
    <2>3. CASE writer_pc = "ended"
      BY <1>3, <1>8, <2>1, <2>3 DEF SendBatch
    <2> QED
      BY <2>2, <2>3
  <1>9. CASE JoinThreads
    <2>1. result = "running"
      BY <1>9 DEF JoinThreads, PhaseInv
    <2> QED
      BY <1>3, <1>9, <2>1 DEF JoinThreads, pool, writer
  <1>10. CASE TakeBatch
    <2>1. /\ batches # << >> /\ batches' = Tail(batches)
          /\ UNCHANGED <<cache, sent, channel, chunk_batch, result>>
          /\ inserting = << >>
      BY <1>10 DEF TakeBatch, pool, main, PhaseInv
    <2>2. HashesIn(batches) = HashesOf(Head(batches)) \cup HashesIn(batches')
      BY <1>1, <2>1, HashesInTail
    <2>3. HashesOf(inserting) = {}
      BY <2>1, HashesEmpty
    <2>4. CASE inserting' = Head(batches) /\ writer_result' = writer_result
      <3>1. InFlight' = InFlight
        BY <1>0, <2>1, <2>2, <2>3, <2>4
      <3>2. Keys' = Keys
        BY <2>1 DEF Keys, cache
      <3> QED
        BY <1>2, <2>1, <2>4, <3>1, <3>2
    <2>5. CASE inserting' = << >> /\ writer_result' # "Ok"
      <3>1. InFlight' \subseteq InFlight
        BY <1>0, <2>1, <2>2, <2>5, HashesEmpty
      <3> QED
        BY <2>5, <3>1 DEF KeptInv
    <2> QED
      BY <1>10, <2>4, <2>5 DEF TakeBatch, WriterFails
  <1>11. CASE Insert
    <2>1. PICK h \in Hash : h = Head(inserting)
      BY <1>1, <1>11 DEF Insert
    <2>2. HashesOf(inserting) = {h} \cup HashesOf(Tail(inserting))
      BY <1>1, <1>11, <2>1, HashesTail DEF Insert
    <2>3. UNCHANGED <<sent, channel, chunk_batch, batches, result>>
      BY <1>11 DEF Insert, pool, main
    <2>4. CASE InsertItem(h) /\ inserting' = Tail(inserting)
                 /\ writer_result' = writer_result
      <3>1. Keys' = Keys \cup {h}
        BY <2>4, InsertKeys
      <3>2. /\ InFlight' \subseteq InFlight
            /\ InFlight \subseteq InFlight' \cup {h}
        BY <1>0, <2>2, <2>3, <2>4
      <3> QED
        BY <1>2, <2>3, <2>4, <3>1, <3>2
    <2>5. CASE inserting' = << >> /\ writer_result' = "Io"
      <3>1. InFlight' \subseteq InFlight
        BY <1>0, <2>3, <2>5, HashesEmpty
      <3> QED
        BY <2>5, <3>1 DEF KeptInv
    <2> QED
      BY <1>11, <2>1, <2>4, <2>5 DEF Insert, WriterFails
  <1>12. CASE UNCHANGED vars
    BY <1>3, <1>12 DEF vars, pool, main, writer
  <1> QED
    BY <1>4, <1>5, <1>6, <1>7, <1>8, <1>9, <1>10, <1>11, <1>12
       DEF Next, Ended, MainNext, WriterNext

ChunkerInv ==
  /\ TypeOK
  /\ CacheInv
  /\ PhaseInv
  /\ FileInv
  /\ KeptInv

LEMMA ChunkerInit == Init => ChunkerInv
  BY TypeInit, CacheInitial, PhaseInit, FileInit, KeptInit DEF ChunkerInv

LEMMA ChunkerStep == ChunkerInv /\ [Next]_vars => ChunkerInv'
  BY TypeStep, CacheStep, PhaseStep, FileStep, KeptStep DEF ChunkerInv

LEMMA ChunkerInvariant == Spec => []ChunkerInv
  BY ChunkerInit, ChunkerStep, PTL DEF Spec

(* No chunk that a worker has recorded is lost on its way to the cache.    *)
THEOREM ChunksKept == Spec => []NoChunkLost
  <1>1. ChunkerInv => NoChunkLost
    BY DEF ChunkerInv, KeptInv, NoChunkLost
  <1> QED
    BY <1>1, ChunkerInvariant, PTL

(* With Ok the cache has every chunk of the input.                         *)
LEMMA OkAllKept ==
  ChunkerInv /\ result = "Ok"
    => \A f \in File : HashesOf(contents[f]) \subseteq Keys
  <1> SUFFICES ASSUME ChunkerInv, result = "Ok", NEW f \in File
               PROVE  HashesOf(contents[f]) \subseteq Keys
    OBVIOUS
  <1>1. sent[f] = Len(contents[f])
    BY OkAllDone DEF ChunkerInv
  <1>2. InFlight = {}
    <2>1. /\ channel = << >> /\ chunk_batch = << >>
          /\ inserting = << >> /\ batches = << >>
      BY DEF ChunkerInv, PhaseInv, AllEnded
    <2> QED
      BY <2>1, HashesEmpty DEF InFlight
  <1>3. writer_result = "Ok"
    BY DEF ChunkerInv, PhaseInv
  <1> QED
    BY <1>1, <1>2, <1>3 DEF ChunkerInv, KeptInv, HashesOf

(* Ok means complete files, in the maps and in the cache.                  *)
THEOREM OkComplete == Spec => []OkIsComplete
  <1>1. ChunkerInv => OkIsComplete
    <2> SUFFICES ASSUME ChunkerInv, result = "Ok"
                 PROVE  OkIsComplete
      BY DEF OkIsComplete
    <2>1. AllEnded
      BY DEF ChunkerInv, PhaseInv
    <2>2. ASSUME NEW n \in Names
          PROVE  /\ n \in DOMAIN file_manifest /\ n \in DOMAIN veri_hashes
                 /\ \E f \in File :
                      /\ file_name[f] = n
                      /\ file_manifest[n] = <<f, Len(contents[f])>>
                      /\ HashesOf(contents[f]) \subseteq Keys
      <3>1. n \in DOMAIN file_manifest /\ n \in DOMAIN veri_hashes
        BY OkAllDone DEF Names, ChunkerInv
      <3> QED
        BY <3>1, OkAllKept DEF ChunkerInv, FileInv
    <2> QED
      BY <2>1, <2>2 DEF OkIsComplete
  <1> QED
    BY <1>1, ChunkerInvariant, PTL
-----------------------------------------------------------------------------
(***************************************************************************)
(* The pipeline implements the store.                                      *)
(***************************************************************************)

Stored == [h \in Keys |-> ChunkOf(h)]

LEMMA StoreInit == Init => Store!Init
  <1> SUFFICES ASSUME Init
               PROVE  Store!Init
    OBVIOUS
  <1>1. Keys = {} /\ result = "running"
    BY DEF Init, CacheInit, Keys
  <1>2. Stored = [h \in {} |-> Data[h]]
    BY <1>1 DEF Stored
  <1> QED
    BY <1>1, <1>2 DEF Store!Init, Stored

(* The store holds of each key its chunk.                                  *)
LEMMA StoredIsData == CacheInv => Stored = [h \in Keys |-> Data[h]]
  BY DEF CacheInv, Stored, Keys, ChunkOf, Slice

LEMMA StoreStep == ChunkerInv /\ [Next]_vars => [Store!Next]_(Store!storeVars)
  <1> SUFFICES ASSUME ChunkerInv, [Next]_vars
               PROVE  [Store!Next]_(Store!storeVars)
    OBVIOUS
  <1>1. ChunkerInv'
    BY ChunkerStep
  <1>2. /\ Stored = [h \in Keys |-> Data[h]]
        /\ Stored' = [h \in Keys' |-> Data[h]]
    <2>1. CacheInv /\ CacheInv'
      BY <1>1 DEF ChunkerInv
    <2>2. (CacheInv => Stored = [h \in Keys |-> Data[h]])'
      BY StoredIsData, PTL
    <2> QED
      BY <2>1, <2>2, StoredIsData
  <1>3. ASSUME Keys' = Keys, result' = result
        PROVE  UNCHANGED Store!storeVars
    <2>1. Stored' = Stored
      BY <1>2, <1>3
    <2> QED
      BY <1>3, <2>1 DEF Store!storeVars, Stored
  <1>4. ASSUME UNCHANGED <<cache, result>>
        PROVE  UNCHANGED Store!storeVars
    BY <1>3, <1>4 DEF Keys, cache
  <1>5. ASSUME Keys' = Keys, result = "running", result' \in Errors
        PROVE  Store!Next
    <2>1. Stored' = Stored
      BY <1>2, <1>5
    <2>2. Store!Fail
      BY <1>5, <2>1 DEF Store!Fail, Stored
    <2> QED
      BY <2>2 DEF Store!Next
  <1>6. CASE \E f \in File : FileNext(f)
    BY <1>4, <1>6 DEF FileNext, FileProgress, StartFile, SendChunk,
              ReadFails, RecordHash, RecordManifest, main
  <1>7. CASE PoolEnds \/ LastBatch \/ TakeBatch \/ BatchInserted
             \/ WriterEnds \/ Cancel
    BY <1>4, <1>7 DEF PoolEnds, LastBatch, TakeBatch, BatchInserted,
                      WriterEnds, Cancel, main
  <1>8. CASE Receive \/ SendBatch
    <2>1. /\ UNCHANGED cache /\ result = "running"
          /\ result' = result \/ result' \in Errors
      BY <1>8 DEF Receive, SendBatch, Errors, WriterErrors, ChunkerInv,
                  PhaseInv
    <2>2. Keys' = Keys
      BY <2>1 DEF Keys, cache
    <2> QED
      BY <1>3, <1>5, <2>1, <2>2
  <1>9. CASE JoinThreads
    <2>1. /\ UNCHANGED cache /\ result = "running"
          /\ result' \in Errors \/ result' = "Ok"
      BY <1>9 DEF JoinThreads, ResultOf, Errors, WriterErrors, ChunkerInv,
                  PhaseInv, TypeOK
    <2>2. Keys' = Keys
      BY <2>1 DEF Keys, cache
    <2>3. CASE result' = "Ok"
      <3>1. \A f \in File : HashesOf(contents[f]) \subseteq Keys'
        <4>1. ChunkerInv' /\ result' = "Ok"
          BY <1>1, <2>3
        <4>2. (ChunkerInv /\ result = "Ok"
                => \A f \in File : HashesOf(contents[f]) \subseteq Keys)'
          BY OkAllKept, PTL
        <4> QED
          BY <4>1, <4>2 DEF HashesOf
      <3>2. Stored' = Stored
        BY <1>2, <2>2
      <3>3. DOMAIN Stored = Keys
        BY DEF Stored
      <3>4. Store!Succeed
        BY <2>1, <2>2, <2>3, <3>1, <3>2, <3>3 DEF Store!Succeed, Stored
      <3> QED
        BY <3>4 DEF Store!Next
    <2> QED
      BY <1>5, <2>1, <2>2, <2>3
  <1>10. CASE Insert
    <2>1. PICK h \in Hash : h = Head(inserting)
      BY <1>10 DEF Insert, ChunkerInv, TypeOK
    <2>2. result' = result
      BY <1>10 DEF Insert, main
    <2>3. CASE InsertItem(h)
      <3>1. Keys' = Keys \cup {h}
        BY <2>3, InsertKeys
      <3>2. h \in HashesOf(inserting)
        BY <1>10, <2>1, HashesTail DEF Insert, ChunkerInv, TypeOK
      <3>3. h \in UNION {HashesOf(contents[f]) : f \in File}
        BY <3>2 DEF ChunkerInv, KeptInv, InFlight, Input
      <3>4. result # "Ok"
        BY <1>10 DEF Insert, ChunkerInv, PhaseInv, AllEnded
      <3>5. Stored' = [k \in DOMAIN Stored \cup {h} |->
                        IF k \in DOMAIN Stored THEN Stored[k] ELSE Data[k]]
        BY <1>2, <3>1
      <3>6. Store!Insert(h)
        BY <2>2, <3>4, <3>5 DEF Store!Insert, Stored
      <3> QED
        BY <3>3, <3>6 DEF Store!Next
    <2>4. CASE InsertFails(h)
      BY <1>3, <2>2, <2>4, FailKeys
    <2> QED
      BY <1>10, <2>1, <2>3, <2>4 DEF Insert
  <1>11. CASE UNCHANGED vars
    BY <1>4, <1>11 DEF vars, main
  <1> QED
    BY <1>6, <1>7, <1>8, <1>9, <1>10, <1>11
       DEF Next, Ended, MainNext, WriterNext

(* process_files implements the store, with either backend of the cache.   *)
THEOREM ImplementsStore == Spec => StoreSpec
  BY StoreInit, StoreStep, ChunkerInvariant, PTL
     DEF Spec, StoreSpec, Store!Spec

(* The pool, the calling thread and the writer of process_files never all  *)
(* wait for each other: until they have ended one of them can go on.       *)
THEOREM StagesGoOn == Spec => []NeverAllWait
  <1>1. ASSUME TypeOK, PhaseInv, PoolWaits, MainWaits, WriterWaits
        PROVE  AllEnded
    <2>1. /\ Len(channel) \in Nat /\ Len(batches) \in Nat
          /\ channel = << >> => Len(channel) = 0
          /\ batches = << >> => Len(batches) = 0
          /\ BATCH_SIZE \in Nat /\ BATCH_SIZE > 0
          /\ MAX_BATCHES \in Nat /\ MAX_BATCHES > 0
      BY <1>1, ChunkerAssumption DEF TypeOK
    <2>2. pool_ended \/ (~ ReceiverGone /\ Len(channel) >= BATCH_SIZE)
      BY <1>1 DEF PoolWaits
    <2>3. ~ (main_pc = "recv" /\ channel = << >> /\ ~ pool_ended)
      BY <2>1, <2>2
    <2>4. CASE writer_pc = "ended"
      <3>1. main_pc \in {"join", "returned"}
        BY <1>1, <2>3, <2>4 DEF MainWaits
      <3>2. main_pc = "join" => pool_ended
        BY <1>1 DEF PhaseInv
      <3> QED
        BY <1>1, <2>2, <2>4, <3>1, <3>2 DEF MainWaits, ReceiverGone, AllEnded
    <2>5. CASE writer_pc = "recv" /\ batches = << >> /\ ~ Disconnected
      <3>1. main_pc \in {"send", "flush"} /\ Len(batches) >= MAX_BATCHES
        BY <1>1, <2>3, <2>5 DEF MainWaits, Disconnected
      <3> QED
        BY <2>1, <2>5, <3>1
    <2> QED
      BY <1>1, <2>4, <2>5 DEF WriterWaits
  <1> QED
    BY <1>1, PhaseInvariant, PTL DEF NeverAllWait

(* Chunks reach the cache and read back from it, a file's hash goes with   *)
(* its manifest, no error is invented, and the stages go on.               *)
THEOREM ChunkerSafe == Spec => []Safe
  BY TypeCorrect, CacheCorrect, ChunksKept, HashesMatch, ErrorsCaused, StagesGoOn, PTL
     DEF Safe
=============================================================================

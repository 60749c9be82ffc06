-------------------------- MODULE LayoutInvariants --------------------------
(***************************************************************************)
(* What LayoutProofs says of the states of DiscMap and ArchiveRun: their    *)
(* inductive invariants (Inv and DiscLaid; SearchesInv and ArchiveInv), the *)
(* parts they are made of, and what the lemmas say of sequences, orders and *)
(* joins, each an operator of its own so that a proof can treat it as one.  *)
(***************************************************************************)
EXTENDS DiscMap, ArchiveRun

-----------------------------------------------------------------------------
(* FoldLeft goes up from the base, element by element: its recursion over   *)
(* the sets of places has a solution.                                       *)
Folds(step, base, s, n, g) ==
  \A t \in SUBSET (1..n) :
    g[t] = IF t = {} THEN base ELSE step[<<g[t \ {Max(t)}], s[Max(t)]>>]

-----------------------------------------------------------------------------
(* FlattenSeq joins sequences, one behind the other.                        *)
JoinsUpTo(seqs, n, f) == f[0] = << >> /\ \A i \in 1..n : f[i] = f[i - 1] \o seqs[i]
IsJoined(seqs, S, f) == f \in [0..Len(seqs) -> Seq(S)] /\ JoinsUpTo(seqs, Len(seqs), f)

-----------------------------------------------------------------------------
(* Partial sums.                                                            *)
UpTo(s, k) == Sum([m \in 1..k |-> s[m]])

-----------------------------------------------------------------------------
(* Where in a joined sequence each of its parts is.                         *)
Lengths_(seqs) == [m \in DOMAIN seqs |-> Len(seqs[m])]

(* A part's elements, and that there are no others.                         *)
InPlace(seqs, n, whole) ==
  /\ Len(whole) = UpTo(Lengths_(seqs), n)
  /\ \A m \in 1..n : \A j \in 1..Len(seqs[m]) : whole[UpTo(Lengths_(seqs), m - 1) + j] = seqs[m][j]
  /\ \A p \in 1..Len(whole) :
       \E m \in 1..n : \E j \in 1..Len(seqs[m]) : p = UpTo(Lengths_(seqs), m - 1) + j

-----------------------------------------------------------------------------
(* Parts that go on where the one before ended make one part.               *)
GoesOn(parts, c, o, end) ==
  /\ end[0] = o
  /\ \A j \in 1..Len(parts) :
       /\ end[j] \in Nat /\ end[j - 1] <= end[j] /\ end[j] <= Len(c)
       /\ parts[j] = SubSeq(c, end[j - 1] + 1, end[j])

Listed(s, n) == DOMAIN s = 1..n /\ Len(s) = n /\ s = [k \in DOMAIN s |-> s[k]]

-----------------------------------------------------------------------------
(* A finite set's elements in an order.                                     *)
IsOrder(S, R) ==
  /\ \A a, b \in S : a # b => <<a, b>> \in R \/ <<b, a>> \in R
  /\ \A a \in S : <<a, a>> \notin R
  /\ \A a, b, c \in S : <<a, b>> \in R /\ <<b, c>> \in R => <<a, c>> \in R

IsArranged(s, n, S, R) ==
  /\ s \in [1..n -> S]
  /\ \A i, j \in 1..n : i < j => <<s[i], s[j]>> \in R

-----------------------------------------------------------------------------
(* Run-length coding: one sector more is one more in the last run, or a run *)
(* of its own.                                                              *)
RunRecords == [count : Nat \ {0}, type : SectorType]

OneMore(runs, t) ==
  IF runs # << >> /\ Last(runs).type = t THEN [runs EXCEPT ![Len(runs)].count = @ + 1]
  ELSE Append(runs, [count |-> 1, type |-> t])

Counts(runs) == [r \in 1..Len(runs) |-> runs[r].count]

-----------------------------------------------------------------------------
(* What may be kept of sectors.                                             *)
StoredUnits == {s.sub : s \in Sector} \cup ({"head", "tail"} \X {s.user : s \in Sector})
Damage == {<<s.addr, s.ecc>> : s \in Sector}
Runners == [start_lba : Nat, count : Nat \ {0}, data_id : Nat]
UserUnits == ({s.user : s \in Sector} \cup {"zero"}) \X Nat
AudioBlock == [start : Nat, content : Seq(Sector)]

Jobs ==
  [pc : {"open", "map", "chunk", "chunked", "verified", "failed"},
   types : Seq(SectorType), lba_map : Seq(Nat \X Nat), run : Seq(Runners),
   subheader_index : Seq(Runners), exception_index : Seq(Nat \X Nat), at : Nat,
   layout : Seq(Seq(UserUnits)), audio_map : Seq(AudioBlock),
   verdict : {"none", "ok", "HashMismatch", "Reconstruction", "panic"}]

Typed ==
  /\ disc \in Batches
  /\ job \in [Worker -> Jobs]
  /\ subheaders \in Seq(StoredUnits) /\ exceptions \in Seq(Damage)

InBounds(w) ==
  /\ job[w].at <= Total(w)
  /\ Len(job[w].run) <= 1
  /\ \A k \in DOMAIN job[w].layout : Len(job[w].layout[k]) \in 1..CHUNK
  /\ \A k \in DOMAIN job[w].audio_map : Len(job[w].audio_map[k].content) \in 1..SECTOR_BLOCK

(* What a sector's type comes to, and how far the worker is with that.      *)
Final(w, i) ==
  LET coarse == Coarse(Normalized(w), i)
  IN IF IsData(coarse) THEN Analyzed(Raw(w, i), coarse) ELSE coarse

AfterMapping == {"chunk", "chunked", "verified"}
Place(runs, r) == Sum([q \in 1..(r - 1) |-> runs[q].count])

PlaceInv(w) ==
  /\ job[w].pc = "open" => job[w] = NewJob
  /\ job[w].pc \in AfterMapping \cup {"map"} => ~NoIndex01(w) /\ Len(job[w].types) = Total(w)
  /\ job[w].pc \in AfterMapping => job[w].run = << >>
  /\ job[w].pc = "map" =>
       \A i \in 0..(Total(w) - 1) :
         job[w].types[i + 1] = IF i < job[w].at THEN Final(w, i) ELSE Coarse(Normalized(w), i)
  /\ job[w].pc \in AfterMapping =>
       \A i \in 0..(Total(w) - 1) :
         job[w].types[i + 1] = IF Final(w, i) = "None" THEN "PregapAudio" ELSE Final(w, i)
  /\ \A i \in 0..(MappedCount(w) - 1) : IsData(Coarse(Normalized(w), i)) => Known(Raw(w, i))
  /\ job[w].pc = "chunk" =>
       \E r \in 1..(Len(Runs(w)) + 1) : job[w].at = Place(Runs(w), r)

(* The runs of subheaders cover the mapped data sectors, one behind the     *)
(* other, and their ids name those sectors' bytes.                          *)
EntriesOk(sectors, entries, mapped, registry, types) ==
  /\ \A k \in DOMAIN entries : entries[k].data_id \in DOMAIN registry
  /\ \A k, l \in DOMAIN entries :
       k < l => entries[k].start_lba + entries[k].count <= entries[l].start_lba
  /\ \A k \in DOMAIN entries : \A i \in Nat :
       Covers(entries[k], i) =>
         /\ i \in mapped
         /\ registry[entries[k].data_id] = Metadata(sectors[i + 1], types[i + 1])
  /\ \A i \in mapped : \E k \in DOMAIN entries : Covers(entries[k], i)

(* The damaged ones among them have their exceptions, in order.             *)
DamageOk(sectors, index, mapped, registry, types) ==
  /\ \A k \in DOMAIN index :
       /\ index[k][1] \in mapped /\ index[k][2] \in DOMAIN registry
       /\ << registry[index[k][2]] >> = ExceptionOf(sectors[index[k][1] + 1], types[index[k][1] + 1])
  /\ \A i \in mapped : ExceptionOf(sectors[i + 1], types[i + 1]) # << >> =>
       \E k \in DOMAIN index : index[k][1] = i

(* The table of addresses has an entry where the offset changes.            *)
TableOk(sectors, table, mapped) ==
  /\ \A k \in DOMAIN table :
       table[k][1] \in mapped /\ sectors[table[k][1] + 1].addr = table[k][1] + table[k][2]
  /\ \A k, l \in DOMAIN table : k < l => table[k][1] < table[l][1]
  /\ \A k \in DOMAIN table : k + 1 \in DOMAIN table => table[k][2] # table[k + 1][2]
  /\ \A i \in mapped : sectors[i + 1].addr >= i =>
       \E k \in DOMAIN table :
         /\ table[k][1] <= i /\ i + table[k][2] = sectors[i + 1].addr
         /\ \A l \in DOMAIN table : table[l][1] <= i => l <= k

MapInv(w) ==
  /\ EntriesOk(Sectors(w), Entries(w), MappedData(w), subheaders, job[w].types)
  /\ DamageOk(Sectors(w), job[w].exception_index, MappedData(w), exceptions, job[w].types)
  /\ TableOk(Sectors(w), job[w].lba_map, MappedData(w))

Inv == Typed /\ \A w \in Worker : InBounds(w) /\ PlaceInv(w) /\ MapInv(w)

-----------------------------------------------------------------------------
(* A registry only grows, at its end.                                       *)
Extends(registry, longer) ==
  DOMAIN registry \subseteq DOMAIN longer /\ \A id \in DOMAIN registry : longer[id] = registry[id]

(* One sector more in the last run, or in a run of its own.                 *)
RunGrows(E, new, i, id) ==
  \/ new = Append(E, [start_lba |-> i, count |-> 1, data_id |-> id])
  \/ /\ E # << >> /\ E[Len(E)].data_id = id /\ i = E[Len(E)].start_lba + E[Len(E)].count
     /\ Len(new) = Len(E)
     /\ \A k \in 1..Len(E) : new[k] = IF k = Len(E) THEN [E[k] EXCEPT !.count = @ + 1] ELSE E[k]

-----------------------------------------------------------------------------
WorkerInv(w) == InBounds(w) /\ PlaceInv(w) /\ MapInv(w)

-----------------------------------------------------------------------------
(* The run goes on, or is closed and another one starts.                    *)
RunAfter(run, i, id) ==
  IF Continues(run, i, id) THEN << [run[1] EXCEPT !.count = @ + 1] >>
  ELSE << [start_lba |-> i, count |-> 1, data_id |-> id] >>

IndexAfter(index, run, i, id) == IF Continues(run, i, id) THEN index ELSE index \o run

(* MapSector's second case, its definitions named.                          *)
Looks(w, i, s, coarse, type, ex) ==
  /\ job[w].pc = "map" /\ job[w].at < Total(w) /\ i = job[w].at
  /\ s = Raw(w, i) /\ Known(s)
  /\ coarse = job[w].types[i + 1] /\ IsData(coarse)
  /\ type = Analyzed(s, coarse) /\ ex = ExceptionOf(s, type)

Enters(s, type, ex, id, xid) ==
  /\ subheaders' = GetOrRegister(subheaders, Metadata(s, type))
  /\ exceptions' = IF ex = << >> THEN exceptions ELSE GetOrRegister(exceptions, ex[1])
  /\ id = IdOf(subheaders', Metadata(s, type))
  /\ ex # << >> => xid = IdOf(exceptions', ex[1])

After(w, i, s, type, ex, id, xid) ==
  [job[w] EXCEPT !.at = i + 1, !.types[i + 1] = type, !.lba_map = LbaMap(@, i, s.addr),
     !.run = RunAfter(job[w].run, i, id),
     !.subheader_index = IndexAfter(@, job[w].run, i, id),
     !.exception_index = IF ex = << >> THEN @ ELSE Append(@, <<i, xid>>)]

-----------------------------------------------------------------------------
(* What a run adds to the layout and to the audio blocks.                   *)
MoreLayout(w, first, run) == IF IsData(run.type) THEN Pieces(UserData(w, first, run), CHUNK) ELSE << >>
Blocks(w, first, run) == Pieces(SubSeq(Sectors(w), first + 1, first + run.count), SECTOR_BLOCK)

MoreAudio(w, first, run) ==
  IF IsData(run.type) THEN << >>
  ELSE [k \in DOMAIN Blocks(w, first, run) |->
          [start |-> BlockStart(first, k), content |-> Blocks(w, first, run)[k]]]

(* ChunkRun, its definitions named.                                         *)
RunChunked(w) ==
  LET run == Runs(w)[RunAt(w)]
  IN [job[w] EXCEPT !.at = @ + run.count,
        !.layout = @ \o MoreLayout(w, job[w].at, run),
        !.audio_map = @ \o MoreAudio(w, job[w].at, run)]

-----------------------------------------------------------------------------
(* Where a piece starts, and what it holds.                                 *)
PiecesHold(parts, s, n, l) ==
  /\ \A k \in DOMAIN parts :
       /\ (k - 1) * n \in Nat /\ (k - 1) * n + Len(parts[k]) <= l
       /\ \A j \in 1..Len(parts[k]) : parts[k][j] = s[(k - 1) * n + j]
  /\ \A p \in 0..(l - 1) : \E k \in DOMAIN parts :
       (k - 1) * n <= p /\ p < (k - 1) * n + Len(parts[k])

-----------------------------------------------------------------------------
(* The runs of a map say what the map says.                                 *)
Repeated(run) == [k \in 1..run.count |-> run.type]

-----------------------------------------------------------------------------
(* What a sector adds to the data, and what to the audio.                   *)
DataParts(sectors, types) ==
  [k \in 1..Len(types) |->
     IF IsData(types[k]) THEN Units(sectors[k].user, data_size(types[k])) ELSE << >>]

AudioParts(sectors, types) ==
  [k \in 1..Len(types) |-> IF IsData(types[k]) THEN << >> ELSE << sectors[k] >>]

FirstOf(parts, n) == FlattenSeq(SubSeq(parts, 1, n))
Contents(blocks) == [b \in DOMAIN blocks |-> blocks[b].content]

(* Blocks hold the sectors from their start on, and every audio sector.     *)
Holding(block, sectors, n) ==
  /\ block.start + Len(block.content) <= n
  /\ \A j \in 1..Len(block.content) : block.content[j] = sectors[block.start + j]

Held(block, i) == block.start <= i /\ i < block.start + Len(block.content)

BlocksOk(sectors, types, blocks, n) ==
  /\ \A b \in DOMAIN blocks : Holding(blocks[b], sectors, n)
  /\ \A i \in 0..(n - 1) : ~IsData(types[i + 1]) => \E b \in DOMAIN blocks : Held(blocks[b], i)

(* Chunks and blocks hold what the sectors cut so far add to them.          *)
LaidOut(w) ==
  /\ job[w].pc = "map" => job[w].layout = << >> /\ job[w].audio_map = << >>
  /\ job[w].pc \in {"chunked", "verified"} => job[w].at = Total(w)
  /\ job[w].pc \in AfterMapping =>
       /\ Stream(w) = FirstOf(DataParts(Sectors(w), job[w].types), job[w].at)
       /\ AudioStream(w) = FirstOf(AudioParts(Sectors(w), job[w].types), job[w].at)
       /\ BlocksOk(Sectors(w), job[w].types, job[w].audio_map, job[w].at)

(* The blocks of a run of audio.                                            *)
BlocksOf(s, first) ==
  [k \in DOMAIN Pieces(s, SECTOR_BLOCK) |->
     [start |-> BlockStart(first, k), content |-> Pieces(s, SECTOR_BLOCK)[k]]]

-----------------------------------------------------------------------------
(* One sector's move of the verification's place in the table.              *)
Moved(table, types, k, a) ==
  IF types[k] \in DataTypes /\ Len(table) > a /\ table[a][2] + (k - 1) >= table[a + 1][1]
  THEN a + 1 ELSE a

IsIndex(table, types, n, f) ==
  /\ f \in [0..n -> Nat] /\ f[0] = 1
  /\ \A k \in 1..n : f[k] = Moved(table, types, k, f[k - 1])

(* What every table of a plain disc is like: one offset, and perhaps before *)
(* it one of a zeroed sector the disc starts with.                          *)
PlainTable(table, d) ==
  \/ Len(table) = 1 /\ table[1][2] = d
  \/ Len(table) = 2 /\ table[1][2] = 0 /\ table[2][2] = d /\ d # 0

(* The sectors of a plain disc that have an address, all by one offset, and *)
(* where the table is for them.                                             *)
Addressed(w) == {i \in 0..(Total(w) - 1) : IsData(job[w].types[i + 1]) /\ Raw(w, i) # Zero}
LostTypes == {"PregapMode1Exception", "PregapMode2Exception", "PregapMode2"}

-----------------------------------------------------------------------------
(* What is cut is laid out, and what is verified of a plain disc is right.  *)
WorkerLaid(w) ==
  /\ LaidOut(w)
  /\ job[w].pc = "verified" /\ Plain(w) => job[w].verdict = "ok"

DiscLaid == \A w \in Worker : WorkerLaid(w)

-----------------------------------------------------------------------------
(* ArchiveRun.                                                              *)
FoldsIn(B, base, step, s, r) ==
  /\ r[0] = base
  /\ \A k \in 1..Len(s) : r[k - 1] \in B => r[k] = step[<<r[k - 1], s[k]>>]

-----------------------------------------------------------------------------
(* Dedupe leaves each hash once, and the first where it was.                *)
Distinct(A) == {d \in Seq(A) : \A i, j \in 1..Len(d) : d[i] = d[j] => i = j}

-----------------------------------------------------------------------------
(* Take never goes beyond what a dictionary is trained on.                  *)
Taken == {t \in [sizes : Seq(Nat), full : BOOLEAN] : Sum(t.sizes) <= MAX_SAMPLES_SIZE}

-----------------------------------------------------------------------------
Covers_(u, v) ==
  \E p \in [1..Len(u) -> 1..Len(v)] :
    /\ \A i, j \in 1..Len(u) : p[i] = p[j] => i = j
    /\ \A i \in 1..Len(u) : u[i] <= v[p[i]]

-----------------------------------------------------------------------------
(* What is read from a joined sequence.                                     *)
Reads(whole, offset, length, part) ==
  /\ offset \in Nat /\ length \in Nat /\ offset + length <= Len(whole)
  /\ SubSeq(whole, offset + 1, offset + length) = part

-----------------------------------------------------------------------------
(* Before the first test of a search, or between two.                       *)
Searching(tried) ==
  \/ tests = {} /\ last = Infinity /\ best = tried
  \/ /\ tests # {} /\ tried = 2 * best /\ [tried |-> best, size |-> last] \in tests
     /\ \A u \in tests : last <= u.size /\ (u.size = last => u.tried <= best)

SearchInv ==
  /\ args \in [mode : {"default", "optical"}, auto_tune : BOOLEAN, window : Nat, dictionary : Nat]
  /\ best \in Nat /\ last \in Nat
  /\ \A t \in tests : t.tried \in Nat /\ t.size \in Nat
  /\ pc = "start" => tests = {}
  /\ pc = "window" => /\ Searching(window) /\ window >= SMALLEST_CUT
                      /\ (tests # {} => best \in Cuttable)
  /\ pc = "dict" => Searching(dict) /\ dict <= LAST_DICT /\ best <= LAST_DICT
  /\ (pc = "process" /\ tests # {}) => window \in Cuttable

SearchesInv == ArchiveTypeOK /\ TunedIsBest /\ SearchInv

-----------------------------------------------------------------------------
(* A file as it was cut.                                                    *)
Chunk == Seq(Byte) \ {<< >>}
Entry == [hash : Chunk, length : Nat \ {0}, offset : Nat]

WellCut(M, content) ==
  /\ M \in Seq(Entry) /\ content \in Seq(Byte)
  /\ FlattenSeq(Hashes(M)) = content
  /\ \A k \in 1..Len(M) :
       M[k].length = Len(M[k].hash) /\ M[k].offset = UpTo(Lengths_(Hashes(M)), k - 1)

(* An order by numbers, and of equal ones by place.                         *)
IsBy(D, v, R) == \A a, b \in D : <<a, b>> \in R <=> v[a] < v[b] \/ (v[a] = v[b] /\ a < b)

-----------------------------------------------------------------------------
IsByDown(D, v, R) == \A a, b \in D : <<a, b>> \in R <=> v[a] > v[b] \/ (v[a] = v[b] /\ a < b)

-----------------------------------------------------------------------------
(* What file_manifest or veri_hashes holds, for a choice of files.          *)
ManifestsOf(m) == [n \in Names |-> ManifestOf(input[m[n]].content)]

SerOf(fm) == [toc |-> archive_toc(fm), manifests |-> ser_file_manifest(fm),
              hashes |-> sorted_hashes(ser_file_manifest(fm))]

(* The chunks that are cached.                                              *)
Cached == UNION {ToSet(Cut(window, input[f].content)) : f \in DOMAIN input}

-----------------------------------------------------------------------------
(* What the run has made of the files.                                      *)
FilesKnown == \E m \in OneOfEach : file_manifest = ManifestsOf(m)

Indexed ==
  /\ ser.hashes # << >>
  /\ chunk_index = Locations(ser.hashes, [h \in ToSet(ser.hashes) |-> CompLen(h)])

Wrote(format, length, toc_length, file_count, data) ==
  /\ header = build_file_header(file_count, format, toc_length)
  /\ format_data = build_format_data(HEADER_SIZE + toc_length, format, length)
  /\ file = final_data(format, toc_length, length) \o data

WroteFiles ==
  /\ window \in Cuttable /\ FilesKnown /\ ser = SerOf(file_manifest) /\ Indexed
  /\ Wrote(SSMC, [manifest |-> Len(ser.manifests), dictionary |-> 1,
                  chunk_index |-> Len(chunk_index)], Len(ser.toc), Len(input), Blob)

WroteDiscs ==
  Wrote(SSMD, input, input["toc"], input["toc"],
        Cells(<<"audio", << >>>>, input["audio"]) \o Cells(<<"chunk", << >>>>, input["data"]))

DataInv ==
  /\ args.mode \in {"default", "optical"}
  /\ args.mode = "default" => input \in Inputs
  /\ args.mode = "optical" => input \in Sections
  /\ pc \notin {"start", "returned"} => args.mode = "default"
  /\ pc \in {"dict", "serialize", "verify", "build", "write"} => window \in Cuttable /\ FilesKnown
  /\ pc \in {"verify", "build", "write"} => ser = SerOf(file_manifest)
  /\ pc = "write" => Indexed
  /\ SamplesFit
  /\ result = "Ok" => /\ args.mode = "default" => WroteFiles
                      /\ args.mode = "optical" => WroteDiscs

ArchiveInv == SearchesInv /\ DataInv

-----------------------------------------------------------------------------
(* What of a chunk is in the range: it goes on from where the one before    *)
(* it ended.                                                                *)
Begin(o, b) == IF o > b THEN o ELSE b
End(e, b) == IF e < b THEN e ELSE b
StartsAt(s, o, b) == s = IF o > b THEN o - b ELSE 0
EndsAt(t, e, b, len) == t = IF e - b < len THEN e - b ELSE len

(* What get_seek_chunks answers.                                            *)
NeededPlaces(M, o, e) ==
  {k \in DOMAIN M : M[k].offset < e /\ M[k].offset + M[k].length > o}

IsNeeded(q, M, o, e) == q = Ascending(NeededPlaces(M, o, e))

SeekPart(x, o, e) ==
  SubSeq(x.hash, (IF o > x.offset THEN o - x.offset ELSE 0) + 1,
         IF e - x.offset < x.length THEN e - x.offset ELSE x.length)

ArePartsOf(parts, q, M, o, e) == parts = [k \in DOMAIN q |-> SeekPart(M[q[k]], o, e)]

(* What an answer's chunks and parts come to.                               *)
Joined(answer) ==
  FlattenSeq([k \in DOMAIN answer |->
                SubSeq(answer[k].hash, answer[k].start + 1, answer[k].end)])

-----------------------------------------------------------------------------
(* The sections of a file.                                                  *)
Part == {"header", "toc", "format", "manifest", "dictionary", "chunk_index", "audio_index",
         "excep_index", "subheaders", "exceptions", "audio", "chunk"}

Section == Part \X Seq(Byte)
Cell == Section \X Nat \X Nat

(* The regions of a format, one behind the other.                           *)
Lengthened(parts, length) ==
  /\ parts \in Seq(Part)
  /\ \A n \in 1..Len(parts) : length[parts[n]] \in Nat

Regions(parts, length) == [n \in DOMAIN parts |-> Cells(<<parts[n], << >>>>, length[parts[n]])]

(* What can be read from the file that was written.                         *)
MetadataAt(format, toc_length) == HEADER_SIZE + toc_length + FORMAT_SIZE(format)
Encoded(format, length) == FlattenSeq(Regions(MetadataParts(format), length))
=============================================================================

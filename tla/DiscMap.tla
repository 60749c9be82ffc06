------------------------------- MODULE DiscMap -------------------------------
(***************************************************************************)
(* What becomes of a compact disc's sectors.  One worker for each cue sheet *)
(* maps the sectors of its disc (analyze_and_map_disc), entering what       *)
(* cannot be computed again into two registries all workers share, then     *)
(* cuts data and audio into chunks and blocks (cue_sheet_worker).  When all *)
(* workers have ended each disc is rebuilt sector by sector and compared    *)
(* (verify_disc_integrity); get_sector_data rebuilds any one sector alone.  *)
(*                                                                          *)
(* A sector is a record: its mode, its form, the address in its header, the *)
(* eight bytes `sub` its mode keeps apart (reserved bytes in mode 1, the    *)
(* subheader in mode 2), its user data, and `ecc`: "good" when its checksums *)
(* are those of its content, otherwise the ones found.  Lengths are units:  *)
(* 2048 bytes are two, 2324 and 2352 bytes three.                           *)
(***************************************************************************)
EXTENDS Sums

CONSTANTS
  Worker,        \* the threads of the pool, one for each cue sheet
  Sector,        \* the sectors a disc may have
  Batches,       \* the discs they may be given, as functions of Worker
  SECTOR_BLOCK,  \* audio sectors in a block
  CHUNK,         \* units of data in a chunk
  MAX_IDS,       \* ids of subheaders: 65 536, what follows them is not modelled
  NoIndex        \* an index the cue sheet does not give

Index == Nat \cup {NoIndex}
Tracks == [type : {"AUDIO", "MODE1", "MODE2"}, zero : Index, one : Index]
Bins == [tracks : Seq(Tracks), sectors : Seq(Sector), partial : BOOLEAN]

(* Only mode 2 has two forms.                                               *)
ASSUME DiscMapAssumption ==
  /\ SECTOR_BLOCK \in Nat \ {0}
  /\ CHUNK \in Nat \ {0}
  /\ MAX_IDS \in Nat \ {0}
  /\ NoIndex \notin Nat
  /\ Batches \subseteq [Worker -> Seq(Bins)]
  /\ \A s \in Sector :
       /\ s = [mode |-> s.mode, form |-> s.form, addr |-> s.addr, sub |-> s.sub, user |-> s.user,
               ecc |-> s.ecc]
       /\ s.mode \in Nat /\ s.form \in {1, 2} /\ s.addr \in Nat
       /\ s.mode = 1 => s.form = 1

VARIABLES
  disc,        \* the discs: bins with their tracks and sectors
  job,         \* for each worker what it has found out so far
  subheaders,  \* the registries: the id of an entry is its place
  exceptions

vars == <<disc, job, subheaders, exceptions>>

-----------------------------------------------------------------------------
(* The disc and its cue sheet.                                              *)

(* Sectors are numbered from zero.                                          *)
Sectors(w) == FlattenSeq([b \in DOMAIN disc[w] |-> disc[w][b].sectors])
Total(w) == Len(Sectors(w))
Raw(w, i) == Sectors(w)[i + 1]

Shift(index, n) == IF index = NoIndex THEN NoIndex ELSE index + n

(* The tracks of all bins, their indices counted from the first bin.        *)
Normalized(w) ==
  FlattenSeq([b \in DOMAIN disc[w] |->
    LET offset == Sum([c \in 1..(b - 1) |-> Len(disc[w][c].sectors)])
    IN [t \in DOMAIN disc[w][b].tracks |->
          [disc[w][b].tracks[t] EXCEPT !.zero = Shift(@, offset), !.one = Shift(@, offset)]]])

TrackStart(t) == IF t.zero # NoIndex THEN t.zero ELSE t.one

Pregap(track_type) == CASE track_type = "AUDIO" -> "PregapAudio"
                        [] track_type = "MODE1" -> "PregapMode1"
                        [] track_type = "MODE2" -> "PregapMode2"
Content(track_type) == CASE track_type = "AUDIO" -> "Audio"
                         [] track_type = "MODE1" -> "Mode1"
                         [] track_type = "MODE2" -> "Mode2Form1"

(* The last track that starts at or before a sector says what it is; before *)
(* the first track it is None.                                              *)
Coarse(tracks, i) ==
  LET started == {t \in DOMAIN tracks : TrackStart(tracks[t]) <= i}
      track == tracks[Max(started)]
  IN IF started = {} THEN "None"
     ELSE IF i < track.one THEN Pregap(track.type) ELSE Content(track.type)

-----------------------------------------------------------------------------
(* Sector types.                                                            *)

Mode1 == {"Mode1", "PregapMode1"}
Mode2Form1 == {"Mode2Form1", "PregapMode2"}
Mode1Exception == {"Mode1Exception", "PregapMode1Exception"}
Mode2Form1Exception == {"Mode2Form1Exception", "PregapMode2Exception"}
Zeroed == {"ZeroedMode1Data", "ZeroedMode2Data"}
AudioTypes == {"Audio", "PregapAudio"}
DataTypes == Mode1 \cup Mode2Form1 \cup Mode1Exception \cup Mode2Form1Exception
             \cup {"Mode2Form2", "Mode2Form2Exception"} \cup Zeroed
SectorType == DataTypes \cup AudioTypes \cup {"None"}

data_size(type) ==
  CASE type = "None" -> 0
    [] type \in {"Mode2Form2", "Mode2Form2Exception"} \cup Zeroed \cup AudioTypes -> 3
    [] OTHER -> 2

Zero == [mode |-> 0, form |-> 1, addr |-> 0, sub |-> <<"sub", "zero">>, user |-> "zero", ecc |-> "good"]
Units(user, n) == [k \in 1..n |-> IF user = "zero" THEN <<"zero", 0>> ELSE <<user, k>>]
Zeros(n) == Units("zero", n)

Known(s) == s.mode \in {1, 2} \/ s = Zero

(* What a sector of a data track or a data pregap really is.                *)
Analyzed(s, coarse) ==
  CASE s.mode = 1 /\ s.ecc = "good" -> IF coarse = "PregapMode1" THEN coarse ELSE "Mode1"
    [] s.mode = 1 /\ s.ecc # "good" ->
         IF coarse = "PregapMode1" THEN "PregapMode1Exception" ELSE "Mode1Exception"
    [] s.mode = 2 /\ s.form = 2 ->
         IF s.ecc = "good" THEN "Mode2Form2" ELSE "Mode2Form2Exception"
    [] s.mode = 2 /\ s.form = 1 /\ s.ecc = "good" ->
         IF coarse = "PregapMode2" THEN coarse ELSE "Mode2Form1"
    [] s.mode = 2 /\ s.form = 1 /\ s.ecc # "good" ->
         IF coarse = "PregapMode2" THEN "PregapMode2Exception" ELSE "Mode2Form1Exception"
    [] s.mode = 0 -> IF coarse \in Mode2Form1 THEN "ZeroedMode2Data" ELSE "ZeroedMode1Data"

(* Mutant of Metadata: damaged sectors are taken like mode 1.               *)
MetadataOfDamaged(s, type) ==
  IF type \in {"Mode2Form1", "Mode2Form2"}
  THEN s.sub ELSE IF s.mode = 2 THEN <<"tail", s.user>> ELSE s.sub

(* The bytes entered as the subheader: those at 16, where mode 2 has its    *)
(* subheader and mode 1 user data, or those at 2068, where mode 1 has its   *)
(* reserved bytes and mode 2 user data.                                     *)
Metadata(s, type) ==
  IF type \in {"Mode2Form1", "Mode2Form2", "Mode2Form2Exception", "PregapMode1Exception"}
              \cup Mode2Form1Exception
  THEN IF s.mode = 2 THEN s.sub ELSE <<"head", s.user>>
  ELSE IF s.mode = 2 THEN <<"tail", s.user>> ELSE s.sub

(* Of a damaged pregap sector nothing is kept.                              *)
ExceptionOf(s, type) ==
  IF type \in {"Mode1Exception", "Mode2Form1Exception", "Mode2Form2Exception"}
  THEN << <<s.addr, s.ecc>> >> ELSE << >>

-----------------------------------------------------------------------------
(* The registries.                                                          *)

GetOrRegister(registry, data) ==
  IF Contains(registry, data) THEN registry ELSE Append(registry, data)

IdOf(registry, data) == CHOOSE id \in DOMAIN registry : registry[id] = data

-----------------------------------------------------------------------------
(* Mapping one disc.                                                        *)

NewJob == [pc |-> "open", types |-> << >>, lba_map |-> << >>, run |-> << >>,
           subheader_index |-> << >>, exception_index |-> << >>,
           at |-> 0, layout |-> << >>, audio_map |-> << >>, verdict |-> "none"]

Init ==
  /\ disc \in Batches
  /\ job = [w \in Worker |-> NewJob]
  /\ subheaders = << >>
  /\ exceptions = << >>

Fail(w) ==
  /\ job' = [job EXCEPT ![w].pc = "failed"]
  /\ UNCHANGED <<disc, subheaders, exceptions>>

Malformed(w) == \E b \in DOMAIN disc[w] : disc[w][b].partial
NoIndex01(w) == \E t \in DOMAIN Normalized(w) : Normalized(w)[t].one = NoIndex

(* A bin that is not a whole number of sectors, an empty cue sheet or a     *)
(* track without its INDEX 01 ends the worker.                              *)
Refuse(w) ==
  /\ job[w].pc = "open"
  /\ Malformed(w) \/ disc[w] = << >> \/ NoIndex01(w)
  /\ Fail(w)

Open(w) ==
  /\ job[w].pc = "open"
  /\ ~Malformed(w) /\ disc[w] # << >> /\ ~NoIndex01(w)
  /\ job' = [job EXCEPT ![w].pc = "map",
               ![w].types = [k \in 1..Total(w) |-> Coarse(Normalized(w), k - 1)]]
  /\ UNCHANGED <<disc, subheaders, exceptions>>

(* The sector looked at next: all before it are mapped.                     *)
Here(w) == job[w].at
IsData(type) == type \in DataTypes

(* An offset is entered where it changes; an address below the sector's     *)
(* number is passed over.                                                   *)
LbaMap(lba_map, i, addr) ==
  IF addr >= i /\ (lba_map = << >> \/ Last(lba_map)[2] # addr - i)
  THEN Append(lba_map, <<i, addr - i>>) ELSE lba_map

(* Mutant of Continues: a run goes on over the sectors between.             *)
ContinuesAcross(run, i, id) == run # << >> /\ run[1].data_id = id

(* The run of sectors with one subheader goes on, or is closed and another  *)
(* one starts.                                                              *)
Continues(run, i, id) ==
  run # << >> /\ run[1].data_id = id /\ i = run[1].start_lba + run[1].count

MapSector(w) ==
  /\ job[w].pc = "map"
  /\ Here(w) < Total(w)
  /\ LET i == Here(w)
         s == Raw(w, i)
         coarse == job[w].types[i + 1]
         type == Analyzed(s, coarse)
         run == job[w].run
         id == IdOf(subheaders', Metadata(s, type))
         ex == ExceptionOf(s, type)
     IN \/ /\ ~IsData(coarse)
           /\ job' = [job EXCEPT ![w].at = i + 1]
           /\ UNCHANGED <<subheaders, exceptions>>
        \/ /\ IsData(coarse) /\ Known(s)
           /\ subheaders' = GetOrRegister(subheaders, Metadata(s, type))
           /\ Len(subheaders') <= MAX_IDS
           /\ exceptions' = IF ex = << >> THEN exceptions ELSE GetOrRegister(exceptions, ex[1])
           /\ job' = [job EXCEPT
                ![w].at = i + 1,
                ![w].types[i + 1] = type,
                ![w].lba_map = LbaMap(@, i, s.addr),
                ![w].run = IF Continues(run, i, id)
                           THEN << [run[1] EXCEPT !.count = @ + 1] >>
                           ELSE << [start_lba |-> i, count |-> 1, data_id |-> id] >>,
                ![w].subheader_index = IF Continues(run, i, id) THEN @ ELSE @ \o run,
                ![w].exception_index =
                  IF ex = << >> THEN @ ELSE Append(@, <<i, IdOf(exceptions', ex[1])>>)]
  /\ UNCHANGED disc

(* A sector of no known mode ends the worker.                               *)
UnknownMode(w) ==
  /\ job[w].pc = "map"
  /\ Here(w) < Total(w)
  /\ IsData(job[w].types[Here(w) + 1]) /\ ~Known(Raw(w, Here(w)))
  /\ Fail(w)

(* The last run is closed, and what no track covers is kept as audio.       *)
Mapped(w) ==
  /\ job[w].pc = "map"
  /\ Here(w) = Total(w)
  /\ job' = [job EXCEPT
       ![w].pc = "chunk",
       ![w].at = 0,
       ![w].run = << >>,
       ![w].subheader_index = @ \o job[w].run,
       ![w].types = [k \in DOMAIN @ |-> IF @[k] = "None" THEN "PregapAudio" ELSE @[k]]]
  /\ UNCHANGED <<disc, subheaders, exceptions>>

-----------------------------------------------------------------------------
(* Cutting the disc into chunks and blocks, run by run.                     *)

rle_encode_map(types) ==
  FoldLeft(LAMBDA runs, t : IF runs # << >> /\ Last(runs).type = t
                            THEN [runs EXCEPT ![Len(runs)].count = @ + 1]
                            ELSE Append(runs, [count |-> 1, type |-> t]),
           << >>, types)

expand_sector_map(runs) ==
  FlattenSeq([r \in DOMAIN runs |-> [k \in 1..runs[r].count |-> runs[r].type]])

(* The pieces of at most n a sequence is cut into.                          *)
Pieces(s, n) ==
  [k \in 1..((Len(s) + n - 1) \div n) |->
     SubSeq(s, (k - 1) * n + 1, IF k * n < Len(s) THEN k * n ELSE Len(s))]

Runs(w) == rle_encode_map(job[w].types)
RunAt(w) == CHOOSE r \in DOMAIN Runs(w) :
              Sum([q \in 1..(r - 1) |-> Runs(w)[q].count]) = job[w].at

(* The user data of the sectors of a run.                                   *)
UserData(w, first, run) ==
  FlattenSeq([k \in 1..run.count |-> Units(Raw(w, first + k - 1).user, data_size(run.type))])

(* Mutant of BlockStart: audio blocks are counted from the start of the run. *)
BlockStartInRun(first, k) == (k - 1) * SECTOR_BLOCK

(* The first sector of a run's k-th block.                                  *)
BlockStart(first, k) == first + (k - 1) * SECTOR_BLOCK

(* A chunk and a block are named by their hash, which stands for their      *)
(* content.                                                                 *)
ChunkRun(w) ==
  /\ job[w].pc = "chunk"
  /\ job[w].at < Total(w)
  /\ LET first == job[w].at
         run == Runs(w)[RunAt(w)]
         blocks == Pieces(SubSeq(Sectors(w), first + 1, first + run.count), SECTOR_BLOCK)
     IN job' = [job EXCEPT
          ![w].at = first + run.count,
          ![w].layout = IF IsData(run.type) THEN @ \o Pieces(UserData(w, first, run), CHUNK) ELSE @,
          ![w].audio_map = IF IsData(run.type) THEN @
            ELSE @ \o [k \in DOMAIN blocks |->
                         [start |-> BlockStart(first, k), content |-> blocks[k]]]]
  /\ UNCHANGED <<disc, subheaders, exceptions>>

Chunked(w) ==
  /\ job[w].pc = "chunk"
  /\ job[w].at = Total(w)
  /\ job' = [job EXCEPT ![w].pc = "chunked"]
  /\ UNCHANGED <<disc, subheaders, exceptions>>

-----------------------------------------------------------------------------
(* Rebuilding sectors from the manifest.                                    *)

Types(w) == expand_sector_map(Runs(w))
Stream(w) == FlattenSeq(job[w].layout)
AudioStream(w) == FlattenSeq([b \in DOMAIN job[w].audio_map |-> job[w].audio_map[b].content])
Slice(s, start, n) == SubSeq(s, start + 1, IF start + n < Len(s) THEN start + n ELSE Len(s))

(* Lookups: an empty sequence, or the last such entry as its only element.  *)
LastIf(index, found) == IF found = {} THEN << >> ELSE << index[Max(found)] >>

Covers(entry, i) == entry.start_lba <= i /\ i < entry.start_lba + entry.count

SubheaderOf(w, i) ==
  LET index == job[w].subheader_index
  IN LastIf(index, {k \in DOMAIN index : Covers(index[k], i)})
ExceptionAt(w, i) ==
  LET index == job[w].exception_index
  IN LastIf(index, {k \in DOMAIN index : index[k][1] = i})

Failed == [error |-> "Reconstruction"]

(* The sector rebuilt from user data, the registered bytes, its number and  *)
(* the exception data, or Failed.                                           *)
rebuild_sector(w, i, user, lba) ==
  LET type == Types(w)[i + 1]
      entry == SubheaderOf(w, i)
      ex == ExceptionAt(w, i)
      rebuilt(mode, form, header, ecc) ==
        [mode |-> mode, form |-> form, addr |-> header, user |-> user, ecc |-> ecc,
         sub |-> subheaders[entry[1].data_id]]
      form2 == type \in {"Mode2Form2", "Mode2Form2Exception"}
      mode == IF type \in Mode1 \cup Mode1Exception THEN 1 ELSE 2
  IN CASE entry = << >> -> Failed
       [] type \in Zeroed -> [Zero EXCEPT !.user = user]
       [] type \in Mode1 \cup Mode2Form1 \cup {"Mode2Form2"} ->
            rebuilt(mode, IF form2 THEN 2 ELSE 1, lba, "good")
       [] type \in Mode1Exception \cup Mode2Form1Exception \cup {"Mode2Form2Exception"} ->
            IF ex = << >> THEN Failed
            ELSE LET kept == exceptions[ex[1][2]]
                 IN rebuilt(mode, IF form2 THEN 2 ELSE 1, kept[1], kept[2])
       [] OTHER -> Failed

(* A disc's sector in the same shape.                                       *)
Original(w, i) ==
  IF Types(w)[i + 1] \in AudioTypes THEN Raw(w, i)
  ELSE [Raw(w, i) EXCEPT !.user = Units(@, data_size(Types(w)[i + 1]))]

(* The verification's place in the table of addresses after sector i: it    *)
(* moves by at most one entry at each data sector.                          *)
LbaIndex(w) ==
  LET lba_map == job[w].lba_map
      types == Types(w)
      at[k \in 0..Total(w)] ==
        IF k = 0 THEN 1
        ELSE IF /\ types[k] \in DataTypes
                /\ Len(lba_map) > at[k - 1]
                /\ lba_map[at[k - 1]][2] + (k - 1) >= lba_map[at[k - 1] + 1][1]
             THEN at[k - 1] + 1 ELSE at[k - 1]
  IN at

(* get_sector_data goes through the table from its start.                   *)
LbaSearch(w, i) ==
  LET lba_map == job[w].lba_map
      stays(k) == lba_map[k][2] + i < lba_map[k + 1][1]
  IN CHOOSE k \in DOMAIN lba_map :
       /\ k = Len(lba_map) \/ stays(k)
       /\ \A j \in 1..(k - 1) : ~stays(j)

Before(w, i, wanted) ==
  Sum([k \in 1..i |-> LET type == job[w].types[k]
                      IN IF type \in wanted THEN data_size(type) ELSE 0])

(* In the verification the content of a sector follows that of the sectors  *)
(* before it.                                                               *)
InOrder(w, i) ==
  LET type == Types(w)[i + 1]
  IN IF type \in AudioTypes THEN AudioStream(w)[(Before(w, i, AudioTypes) \div 3) + 1]
     ELSE rebuild_sector(w, i, Slice(Stream(w), Before(w, i, DataTypes), data_size(type)),
                         i + job[w].lba_map[LbaIndex(w)[i + 1]][2])

Padded(s, n) == s \o Zeros(n - Len(s))

(* The offset build_decoded_map gives a sector counts audio as well.        *)
StreamOffset(w, i) == Before(w, i, SectorType)

(* get_sector_data of one sector: audio from its block, data from the       *)
(* chunks at its offset, nothing for pregaps and zeroed sectors.            *)
get_sector_data(w, i) ==
  LET type == Types(w)[i + 1]
      size == data_size(type)
      blocks == job[w].audio_map
      block == LastIf(blocks, {b \in DOMAIN blocks :
                                 blocks[b].start <= i /\ i < blocks[b].start + Len(blocks[b].content)})
      data == IF type \in {"Mode1", "Mode2Form1", "Mode1Exception", "Mode2Form1Exception",
                           "Mode2Form2", "Mode2Form2Exception"}
              THEN Padded(Slice(Stream(w), StreamOffset(w, i), size), size)
              ELSE Zeros(size)
  IN IF type \in AudioTypes
     THEN IF block = << >> THEN Zero ELSE block[1].content[i - block[1].start + 1]
     ELSE rebuild_sector(w, i, data, i + job[w].lba_map[LbaSearch(w, i)][2])

(* The verification: the first entry of the table is read before anything,  *)
(* a sector that cannot be rebuilt is an error, a wrong one shows in the    *)
(* hash.                                                                    *)
Verdict(w) ==
  IF job[w].lba_map = << >> THEN "panic"
  ELSE IF \E i \in 0..(Total(w) - 1) : InOrder(w, i) = Failed THEN "Reconstruction"
  ELSE IF \A i \in 0..(Total(w) - 1) : InOrder(w, i) = Original(w, i) THEN "ok"
  ELSE "HashMismatch"

(* The registries are complete when every worker has ended well.            *)
Verify(w) ==
  /\ job[w].pc = "chunked"
  /\ \A v \in Worker : job[v].pc \in {"chunked", "verified"}
  /\ job' = [job EXCEPT ![w].pc = "verified", ![w].verdict = Verdict(w)]
  /\ UNCHANGED <<disc, subheaders, exceptions>>

-----------------------------------------------------------------------------
WorkerStep(w) ==
  Refuse(w) \/ Open(w) \/ MapSector(w) \/ UnknownMode(w) \/ Mapped(w)
  \/ ChunkRun(w) \/ Chunked(w) \/ Verify(w)

(* All discs are verified, or one failed and none will be.                  *)
Done ==
  /\ \A w \in Worker : job[w].pc \in {"failed", "chunked", "verified"}
  /\ (\E w \in Worker : job[w].pc = "failed") \/ (\A w \in Worker : job[w].pc = "verified")
  /\ UNCHANGED vars

Next == (\E w \in Worker : WorkerStep(w)) \/ Done

Spec == Init /\ [][Next]_vars

-----------------------------------------------------------------------------
Entries(w) == job[w].subheader_index \o job[w].run

(* How many of the disc's sectors are mapped.                               *)
MappedCount(w) == IF job[w].pc \in {"chunk", "chunked", "verified"} THEN Total(w) ELSE job[w].at
MappedData(w) == {i \in 0..(MappedCount(w) - 1) : IsData(job[w].types[i + 1])}

TypeOK ==
  /\ disc \in Batches
  /\ \A w \in Worker :
       /\ job[w].pc \in {"open", "map", "chunk", "chunked", "verified", "failed"}
       /\ job[w].types \in Seq(SectorType)
       /\ job[w].at \in 0..Total(w)
       /\ Len(job[w].run) <= 1
       /\ \A k \in DOMAIN job[w].layout : Len(job[w].layout[k]) \in 1..CHUNK
       /\ \A k \in DOMAIN job[w].audio_map : Len(job[w].audio_map[k].content) \in 1..SECTOR_BLOCK
       /\ job[w].verdict \in {"none", "ok", "HashMismatch", "Reconstruction", "panic"}

(* Every mapped data sector lies in exactly one run of equal subheaders,    *)
(* no other sector lies in one, and the run's id names that sector's own    *)
(* bytes: across gaps of audio, runs closed late, and other workers who     *)
(* enter the same and other bytes into the shared registry meanwhile.  The  *)
(* ids of the exceptions name the sector's own header and checksums.        *)
IdsNameTheirBytes ==
  \A w \in Worker :
    /\ \A k \in DOMAIN Entries(w) :
         \A i \in 0..(Total(w) - 1) : Covers(Entries(w)[k], i) =>
            /\ i \in MappedData(w)
            /\ subheaders[Entries(w)[k].data_id] = Metadata(Raw(w, i), job[w].types[i + 1])
            /\ \A l \in DOMAIN Entries(w) : Covers(Entries(w)[l], i) => l = k
    /\ \A i \in MappedData(w) : \E k \in DOMAIN Entries(w) : Covers(Entries(w)[k], i)
    /\ \A k \in DOMAIN job[w].exception_index :
         LET e == job[w].exception_index[k]
         IN << exceptions[e[2]] >> = ExceptionOf(Raw(w, e[1]), job[w].types[e[1] + 1])

(* The table of addresses gives every mapped data sector the address in its *)
(* header, unless that address is below the sector's number.                *)
TableGivesAddress ==
  \A w \in Worker : \A i \in MappedData(w) :
    Raw(w, i).addr >= i =>
      LET table == job[w].lba_map
          upto == {k \in DOMAIN table : table[k][1] <= i}
      IN upto # {} /\ i + table[Max(upto)][2] = Raw(w, i).addr

(* All of these: what a mapped disc keeps names the bytes it had.           *)
Safe == TypeOK /\ IdsNameTheirBytes /\ TableGivesAddress

(* A disc whose addresses count up with its sectors, which has data, and    *)
(* whose pregaps hold neither damaged sectors nor mode 2 data.              *)
Plain(w) ==
  LET data == {i \in 0..(Total(w) - 1) : IsData(Coarse(Normalized(w), i))}
      addressed == {i \in data : Raw(w, i) # Zero}
  IN /\ addressed # {}
     /\ \A i \in addressed :
          /\ Raw(w, i).addr >= i
          /\ \A j \in addressed : Raw(w, i).addr - i = Raw(w, j).addr - j
          /\ Analyzed(Raw(w, i), Coarse(Normalized(w), i))
               \notin {"PregapMode1Exception", "PregapMode2Exception", "PregapMode2"}

(* A plain disc is rebuilt sector by sector as it was: mode 1 and 2, both   *)
(* forms, damaged and zeroed sectors, audio before, between and after the   *)
(* data, over several bins, chunks that end inside a sector, and ids shared *)
(* with the other discs.  (Where the offset of the addresses changes the    *)
(* code moves on to the new one too early; a pregap of mode 2 data loses    *)
(* its subheader and a damaged one its header.  All of these end in a       *)
(* failed verification, never in an archive.)                               *)
PlainDiscsVerify ==
  \A w \in Worker : job[w].pc = "verified" /\ Plain(w) => job[w].verdict = "ok"

(* get_sector_data gives any one sector as it was: each audio sector, and   *)
(* of a plain disc each data sector that no audio precedes and that is in   *)
(* no pregap.  (After audio its offset into the data is too large, and the  *)
(* content of a pregap comes out zeroed, in discs that verified.)           *)
RandomAccess ==
  \A w \in Worker : job[w].pc = "verified" =>
    \A i \in 0..(Total(w) - 1) :
      \/ Types(w)[i + 1] \in AudioTypes
      \/ Plain(w) /\ Types(w)[i + 1] # "PregapMode1" /\ Before(w, i, AudioTypes) = 0
      => get_sector_data(w, i) = Original(w, i)
=============================================================================

----------------------------- MODULE ArchiveRun -----------------------------
(***************************************************************************)
(* The way of the default mode from its arguments to an archive that can be *)
(* read: the search for a window and a dictionary (auto_tune), the order of *)
(* the chunks (Serialization), the dictionary's samples, the blob with its  *)
(* index, and the file (ArchiveFile).  For the optical mode, whose contents *)
(* OpticalRun models, only the file is made here.                           *)
(*                                                                          *)
(* A chunk's hash is its content.  How chunking, verifying and compressing  *)
(* run in threads is FileChunker's, Verification's and CompressChunks'.     *)
(***************************************************************************)
EXTENDS Serialization, ArchiveFile

CONSTANTS
  Byte,          \* what a file is a sequence of
  Inputs,        \* sequences of input files, [name, content]
  Arguments,     \* what is given: [mode, auto_tune, window, dictionary], 0 if not
  Cut(_, _),     \* how FastCDC cuts a content with a window
  SMALLEST_CUT, LARGEST_CUT,     \* the windows it takes: with any other it panics
  FIRST_WINDOW, FIRST_DICT,      \* where the searches begin: 512 and 8192
  DEFAULT_WINDOW, DEFAULT_DICT,  \* what is taken without a search
  LAST_DICT,     \* the largest dictionary tried: 1 MiB
  Sizes,         \* bound: compressed sizes a test may measure
  CompLen(_),    \* the length of a compressed chunk
  Lengths        \* bound: lengths a section of an optical archive may have

Cuttable == SMALLEST_CUT..LARGEST_CUT

(* Names are numbers, in their order.                                       *)
File == [name : Nat, content : Seq(Byte)]

(* What is cut is cut into pieces that are not empty; compressed, they are  *)
(* not empty either.  Sizes have a width, so one of them is the largest.    *)
ASSUME ArchiveRunAssumption ==
  /\ \A x \in {LARGEST_CUT, FIRST_DICT, DEFAULT_DICT, LAST_DICT} : x \in Nat \ {0}
  /\ SMALLEST_CUT \in Nat \ {0} /\ FIRST_WINDOW \in Cuttable /\ DEFAULT_WINDOW \in Cuttable
  /\ FIRST_DICT <= LAST_DICT
  /\ Sizes \subseteq Nat \ {0} /\ \E n \in Sizes : \A m \in Sizes : m <= n
  /\ Lengths \subseteq Nat
  /\ Inputs \subseteq Seq(File)
  /\ Arguments \subseteq [mode : {"default", "optical"}, auto_tune : BOOLEAN,
                          window : Nat, dictionary : Nat]
  /\ \A given \in Inputs : \A f \in DOMAIN given : \A w \in Cuttable :
       LET pieces == Cut(w, given[f].content)
       IN /\ pieces \in Seq(Seq(Byte) \ {<< >>})
          /\ FlattenSeq(pieces) = given[f].content
          /\ \A k \in DOMAIN pieces : CompLen(pieces[k]) \in Nat \ {0}

VARIABLES
  input, args,    \* what the program was given
  running,        \* FALSE once the user has cancelled
  pc, result,     \* where the run is, and how it ended
  window, dict,   \* what the search tries next, or what has been settled on
  best, last,     \* best_window_size or best_dictionary_size, and its size
  tests,          \* what the search has measured (history)
  file_manifest, veri_hashes,  \* by name, chunks and content
  ser,            \* the manifests and their chunks in the archive's order
  samples,        \* the sizes of the dictionary's samples
  chunk_index,    \* the chunks with their places in the blob
  file, header, format_data  \* the archive, and what is encoded at its head

search == <<window, dict, best, last, tests>>
outcome == <<samples, chunk_index, file, header, format_data>>
archive_vars == <<input, args, running, pc, result, search, file_manifest, veri_hashes, ser, outcome>>

Infinity == 1 + CHOOSE n \in Sizes : \A m \in Sizes : m <= n
Given(arg, default) == IF arg = 0 THEN default ELSE arg

(* Of the optical mode's input only the lengths of what becomes of it.      *)
Sections == {s \in [ToSet(Parts(SSMD)) \cup {"toc", "data"} -> Lengths] : s["toc"] > 0}

ArchiveInit ==
  /\ args \in Arguments
  /\ input \in IF args.mode = "default" THEN Inputs ELSE Sections
  /\ running = TRUE
  /\ pc = "start" /\ result = "none"
  /\ window = 0 /\ dict = 0 /\ best = 0 /\ last = Infinity
  /\ tests = {}
  /\ file_manifest = << >> /\ veri_hashes = << >> /\ ser = << >>
  /\ samples = << >> /\ chunk_index = << >>
  /\ file = << >> /\ header = << >> /\ format_data = << >>

Cancel ==
  /\ running /\ pc # "returned"
  /\ running' = FALSE
  /\ UNCHANGED <<input, args, pc, result, search, file_manifest, veri_hashes, ser, outcome>>

Goto(place) == pc' = place /\ UNCHANGED result
Return(r) == pc' = "returned" /\ result' = r

(* A callback that sees the cancellation fails; serialize_store makes of it *)
(* an external error.                                                       *)
Cancelled == ~running /\ (Return("Cancelled") \/ Return("Error"))
Kept == UNCHANGED <<input, args, running>>
KeptData == UNCHANGED <<file_manifest, veri_hashes, ser, outcome>>

-----------------------------------------------------------------------------
(* Before the files are processed.                                          *)

ValidateArgs ==
  /\ pc = "start" /\ args.mode = "default"
  /\ UNCHANGED <<dict, tests>>
  /\ \/ /\ args.auto_tune /\ args.window # 0 /\ args.dictionary # 0
        /\ Return("Error") /\ UNCHANGED <<window, best, last>>
     \/ /\ args.auto_tune /\ args.window = 0
        /\ Goto("window")
        /\ window' = FIRST_WINDOW /\ best' = FIRST_WINDOW /\ last' = Infinity
     \/ /\ ~args.auto_tune \/ args.window # 0
        /\ ~(args.auto_tune /\ args.dictionary # 0)
        /\ Goto("process")
        /\ window' = Given(args.window, DEFAULT_WINDOW) /\ UNCHANGED <<best, last>>
  /\ Kept /\ KeptData

-----------------------------------------------------------------------------
(* The searches.                                                            *)

(* Mutant of Worse: the search goes on while it gets worse.                 *)
NeverWorse(size) == FALSE

Worse(size) == size > last

(* Mutant of NextTried: the doubling wraps around.                          *)
DoublingWraps(tried) == IF tried = LAST_DICT THEN 1 ELSE 2 * tried

NextTried(tried) == 2 * tried

TooLarge(next) == next > LAST_DICT

(* One turn of either loop: a test that fails, is cancelled or is measured. *)
(* That one took longer than the timeout is logged and has no effect.       *)
Measured(tried, size) ==
  /\ tests' = tests \cup {[tried |-> tried, size |-> size]}
  /\ IF Worse(size) THEN UNCHANGED <<best, last>> ELSE best' = tried /\ last' = size

(* auto_tune_win: the files are cut with the window, serialized and         *)
(* compressed with the smallest dictionary.                                 *)
TryWindow ==
  /\ pc = "window"
  /\ UNCHANGED dict
  /\ \/ /\ window \notin Cuttable
        /\ Return("panic") /\ UNCHANGED <<window, best, last, tests>>
     \/ /\ window \in Cuttable
        /\ \E size \in Sizes :
             /\ Measured(window, size)
             /\ IF Worse(size) THEN Goto("process") /\ window' = best
                ELSE UNCHANGED <<pc, result>> /\ window' = NextTried(window)
     \/ (Return("Error") \/ Cancelled) /\ UNCHANGED <<window, best, last, tests>>
  /\ Kept /\ KeptData

(* auto_tune_dict, over the files as they were cut at last.                 *)
TryDictionary ==
  /\ pc = "dict"
  /\ UNCHANGED window
  /\ \/ \E size \in Sizes :
          /\ Measured(dict, size)
          /\ IF Worse(size) THEN Goto("serialize") /\ dict' = best
             ELSE IF TooLarge(NextTried(dict)) THEN Goto("serialize") /\ UNCHANGED dict
             ELSE UNCHANGED <<pc, result>> /\ dict' = NextTried(dict)
     \/ (Return("Error") \/ Cancelled) /\ UNCHANGED <<dict, best, last, tests>>
  /\ Kept /\ KeptData

-----------------------------------------------------------------------------
(* The files.                                                               *)

Names == {input[f].name : f \in DOMAIN input}
OneOfEach == {m \in [Names -> DOMAIN input] : \A n \in Names : input[m[n]].name = n}

ManifestOf(content) ==
  LET pieces == Cut(window, content)
  IN [k \in DOMAIN pieces |->
        [hash |-> pieces[k], length |-> Len(pieces[k]),
         offset |-> Sum([j \in 1..(k - 1) |-> Len(pieces[j])])]]

(* process_files: of files with one name, any may be the last to be entered *)
(* in either map.                                                           *)
Process ==
  /\ pc = "process"
  /\ \/ /\ window \in Cuttable
        /\ \E m, v \in OneOfEach :
             /\ file_manifest' = [n \in Names |-> ManifestOf(input[m[n]].content)]
             /\ veri_hashes' = [n \in Names |-> input[v[n]].content]
        /\ tests' = {} /\ last' = Infinity
        /\ \/ /\ args.auto_tune /\ args.dictionary = 0
              /\ Goto("dict")
              /\ dict' = FIRST_DICT /\ best' = FIRST_DICT
           \/ /\ ~(args.auto_tune /\ args.dictionary = 0)
              /\ Goto("serialize")
              /\ dict' = Given(args.dictionary, DEFAULT_DICT) /\ best' = 0
     \/ /\ \/ window \notin Cuttable /\ Return("panic")
           \/ Return("Error") \/ Cancelled
        /\ UNCHANGED <<file_manifest, veri_hashes, search>>
  /\ UNCHANGED <<window, ser, outcome>>
  /\ Kept

Serialize ==
  /\ pc = "serialize"
  /\ \/ /\ LET manifests == ser_file_manifest(file_manifest)
           IN ser' = [toc |-> archive_toc(file_manifest), manifests |-> manifests,
                      hashes |-> sorted_hashes(manifests)]
        /\ Goto("verify")
     \/ (Return("Error") \/ Cancelled) /\ UNCHANGED ser
  /\ tests' = {} /\ best' = 0 /\ last' = Infinity
  /\ UNCHANGED <<window, dict, file_manifest, veri_hashes, outcome>>
  /\ Kept

Verified == \A i \in DOMAIN ser.toc :
              FlattenSeq(Hashes(ser.manifests[i])) = veri_hashes[ser.toc[i].filename]

VerifyFiles ==
  /\ pc = "verify"
  /\ \/ Verified /\ Goto("build")
     \/ ~Verified /\ Return("Error")
     \/ ~running /\ Cancelled
  /\ UNCHANGED <<search>>
  /\ Kept /\ KeptData

-----------------------------------------------------------------------------
(* The archive.                                                             *)

(* The chunks in the cache, those of a file that lost its name too.         *)
CachedSize ==
  LET cached == SetToSeq(UNION {ToSet(Cut(window, input[f].content)) : f \in DOMAIN input})
  IN Sum([k \in DOMAIN cached |-> Len(cached[k])])

(* ArchiveBuilder.build: without a chunk there is nothing to train on.      *)
Build ==
  /\ pc = "build"
  /\ \/ /\ ser.hashes # << >>
        /\ samples' = sample_sizes(ser.hashes, CachedSize, [h \in ToSet(ser.hashes) |-> Len(h)])
        /\ chunk_index' = Locations(ser.hashes, [h \in ToSet(ser.hashes) |-> CompLen(h)])
        /\ Goto("write")
     \/ (Return("Error") \/ Cancelled) /\ UNCHANGED <<samples, chunk_index>>
  /\ UNCHANGED <<search, file_manifest, veri_hashes, ser, file, header, format_data>>
  /\ Kept

Blob == FlattenSeq([n \in DOMAIN chunk_index |->
                      Cells(<<"chunk", chunk_index[n].hash>>, chunk_index[n].compressed_length)])

Write(format, length, toc_length, file_count, data) ==
  /\ header' = build_file_header(file_count, format, toc_length)
  /\ format_data' = build_format_data(HEADER_SIZE + toc_length, format, length)
  /\ file' = final_data(format, toc_length, length) \o data
  /\ Return("Ok")

(* The dictionary is no larger than was asked for.                          *)
WriteArchive ==
  /\ pc = "write"
  /\ \/ Write(SSMC, [manifest |-> Len(ser.manifests), dictionary |-> 1,
                     chunk_index |-> Len(chunk_index)],
              Len(ser.toc), Len(input), Blob)
     \/ Return("Error") /\ UNCHANGED <<file, header, format_data>>
  /\ UNCHANGED <<search, file_manifest, veri_hashes, ser, samples, chunk_index>>
  /\ Kept

(* The optical mode's archive.                                              *)
WriteOptical ==
  /\ pc = "start" /\ args.mode = "optical"
  /\ Write(SSMD, input, input["toc"], input["toc"],
           Cells(<<"audio", << >>>>, input["audio"]) \o Cells(<<"chunk", << >>>>, input["data"]))
  /\ UNCHANGED <<search, file_manifest, veri_hashes, ser, samples, chunk_index>>
  /\ Kept

-----------------------------------------------------------------------------
RunStep == ValidateArgs \/ TryWindow \/ TryDictionary \/ Process \/ Serialize \/ VerifyFiles \/ Build
        \/ WriteArchive \/ WriteOptical
Over == pc = "returned" /\ UNCHANGED archive_vars
ArchiveNext == Cancel \/ RunStep \/ Over
ArchiveSpec == ArchiveInit /\ [][ArchiveNext]_archive_vars
FairSpec == ArchiveSpec /\ WF_archive_vars(TryWindow) /\ WF_archive_vars(TryDictionary)

-----------------------------------------------------------------------------
(* The program counter and what has been settled on stay in their ranges.   *)
ArchiveTypeOK ==
  /\ pc \in {"start", "window", "process", "dict", "serialize", "verify", "build", "write",
             "returned"}
  /\ (pc = "returned") = (result # "none")
  /\ result \in {"none", "Ok", "Error", "Cancelled", "panic"}
  /\ window \in 0..(2 * LARGEST_CUT) \cup {args.window, FIRST_WINDOW, DEFAULT_WINDOW}
  /\ dict \in 0..LAST_DICT \cup {args.dictionary, DEFAULT_DICT}
  /\ \A t \in tests : t.size \in Sizes

Settled(choice, limit) ==
  \E t \in tests :
    /\ t.tried = choice
    /\ \A u \in tests : t.size <= u.size /\ (t.size = u.size => u.tried <= t.tried)
    /\ \/ \E u \in tests : u.tried = 2 * choice /\ u.size > t.size
       \/ 2 * choice > limit

(* A search settles on the best it has measured, the largest of equals, and *)
(* not before the next one was worse or would have been too large.  With    *)
(* windows this only holds because too large a one ends the program: if     *)
(* none is ever worse, as with files smaller than a window, FastCDC panics. *)
TunedIsBest ==
  /\ pc = "process" /\ tests # {} => Settled(window, Infinity * LARGEST_CUT)
  /\ pc = "serialize" /\ tests # {} => Settled(dict, LAST_DICT)
  /\ result = "panic" /\ tests # {} => Settled(best, LARGEST_CUT)

DistinctNames == Cardinality(Names) = Len(input)
ContentOf(name) == (CHOOSE f \in {input[g] : g \in DOMAIN input} : f.name = name).content

Located(hash) == {n \in DOMAIN chunk_index : chunk_index[n].hash = hash}
Extracted(i) ==
  [k \in DOMAIN ser.manifests[i] |->
     LET found == Located(ser.manifests[i][k].hash)
     IN IF Cardinality(found) = 1
        THEN ReadChunk(file, format_data, chunk_index[CHOOSE n \in found : TRUE])
        ELSE DAMAGED]

(* From an archive whose run ended with Ok, each file comes back: header,   *)
(* table and format data decode from where they point to, the metadata are  *)
(* cut where they meet, and each chunk of each manifest lies where the      *)
(* index says.  The header counts as many files as there are, if no two     *)
(* have one name.                                                           *)
ArchiveReadsBack ==
  result = "Ok" =>
    /\ HeadReadable(file, header)
    /\ SectionsReadable(file, header, format_data)
    /\ args.mode = "default" =>
         /\ MetadataReadable(file, format_data)
         /\ DistinctNames =>
              /\ header.file_count = Len(ser.toc)
              /\ \A i \in DOMAIN ser.toc :
                   LET content == ContentOf(ser.toc[i].filename)
                       chunks == Extracted(i)
                   IN /\ \A k \in DOMAIN chunks : chunks[k][1] = "chunk"
                      /\ FlattenSeq([k \in DOMAIN chunks |-> chunks[k][2]]) = content
                      /\ ser.toc[i].uncompressed_size = Len(content)

(* A random access to any range of a file gets the chunks and the parts of  *)
(* them that make up the range, or is refused if the file is shorter: for   *)
(* ranges whose end is less than 2^64.  (The end of others wraps, and what  *)
(* comes back may be empty, or begin behind its end.)                       *)
SeekGivesRange ==
  pc = "verify" /\ running =>
    \A i \in DOMAIN ser.manifests : \A offset, length \in 0..(U64 - 1) :
      LET content == FlattenSeq(Hashes(ser.manifests[i]))
          answer == get_seek_chunks(ser.manifests[i], offset, length)
      IN offset + length < U64 =>
           IF offset + length > Len(content) THEN answer = OutOfBounds
           ELSE FlattenSeq([k \in DOMAIN answer |->
                              SubSeq(answer[k].hash, answer[k].start + 1, answer[k].end)])
                  = SubSeq(content, offset + 1, offset + length)

(* A dictionary is never trained on more than zstd takes, though the size   *)
(* that decides whether to sample is the cache's, not that of the chunks.   *)
SamplesFit == Sum(samples) <= MAX_SAMPLES_SIZE

(* All of these.                                                            *)
ArchiveSafe == ArchiveTypeOK /\ TunedIsBest /\ SamplesFit

(* The chunks of an archive are those of its manifests, each once, and the  *)
(* first are those of a file that no other shares more chunks than.         *)
ChunksOnceInOrder ==
  pc = "verify" =>
    /\ IsInjective(ser.hashes)
    /\ ToSet(ser.hashes) = UNION {ToSet(Hashes(ser.manifests[i])) : i \in DOMAIN ser.manifests}
    /\ ser.hashes # << >> =>
         \E i \in DOMAIN ser.manifests :
           /\ \A j \in DOMAIN ser.manifests : Score(ser.manifests, j) <= Score(ser.manifests, i)
           /\ ser.hashes[1] = ser.manifests[i][1].hash

(* Each search ends, if its tests do.                                       *)
SearchesEnd == \A search_place \in {"window", "dict"} : pc = search_place ~> pc # search_place
=============================================================================

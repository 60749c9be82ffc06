----------------------------- MODULE OpticalRun -----------------------------
(***************************************************************************)
(* compress_optical_mode, from its input files to the archive.  One worker  *)
(* for each cue sheet sends the pieces of its disc over a bounded channel   *)
(* to the main thread, which gathers them into batches for the thread that  *)
(* fills the two caches.  Then every disc is verified, the audio blocks are *)
(* compressed (AudioBlocks), the data chunks follow, and the archive is     *)
(* written.                                                                 *)
(*                                                                          *)
(* How a disc becomes pieces is DiscMap's: here a disc is the sequence of   *)
(* its runs, and a run a sequence of pieces of one kind, named by their     *)
(* hash.                                                                    *)
(***************************************************************************)
EXTENDS AudioBlocks

CONSTANTS
  Hash,        \* the hashes that name pieces
  Inputs,      \* the input files the program may be started with
  CHANNEL,     \* capacity of the channel for pieces
  BATCH_SIZE,  \* pieces in a batch
  BATCHES,     \* capacity of the channel for batches
  ID_SPACE     \* ids of a collection; the last one means none

Kind == {"data", "audio"}
Runs == [kind : Kind, pieces : Seq(Hash)]

(* The files: a bin is a sequence of runs, empty if it is not there.        *)
ASSUME OpticalAssumption ==
  /\ CHANNEL \in Nat \ {0} /\ BATCH_SIZE \in Nat \ {0} /\ BATCHES \in Nat \ {0}
  /\ ID_SPACE \in Nat \ {0}
  /\ \A h \in Hash : CompLen(h) \in Nat
  /\ \A i \in Inputs :
       /\ i.sheets \in Seq(ToSet(i.sheets)) /\ i.lists \in Seq(ToSet(i.lists))
       /\ \A s, t \in DOMAIN i.sheets : i.bins[<<i.sheets[s].dir, i.sheets[t].bin>>] \in Seq(Runs)

VARIABLES
  input,      \* the cue sheets, the bins in their directories, the playlists
  pc,         \* the main thread
  result,     \* how the run ended
  disc,       \* each worker: where it is in its disc, and what it has sent
  queue,      \* pieces on their way to the main thread
  batch,      \* the main thread's two batches
  batches,    \* batches on their way to the caches
  cacher,     \* the thread that fills the caches: "none", "open", "ok", "error"
  cache,      \* the two caches
  manifests,  \* by title, what was entered for it
  hashes,     \* by title, what the whole disc was hashed to
  checked,    \* titles verified so far
  data_index, \* the chunks of the second half of the blob
  archive     \* the archive written, or NoArchive

opticalVars == <<input, pc, result, disc, queue, batch, batches, cacher, cache, manifests,
                 hashes, checked, data_index, archive>>
vars == <<running, opticalVars, audioVars>>

NoArchive == [toc |-> << >>, audio_index |-> << >>, audio |-> << >>, data |-> << >>]

Sheet == DOMAIN input.sheets
Title(s) == input.sheets[s].title

(* The bin a sheet names, in a directory: its runs, or nothing.             *)
BinIn(dir, s) == input.bins[<<dir, input.sheets[s].bin>>]

(* Every bin is looked for in the directory of the first cue sheet.         *)
Content(s) == BinIn(input.sheets[1].dir, s)
Owned(s) == BinIn(input.sheets[s].dir, s)

Init ==
  /\ input \in Inputs
  /\ running = TRUE
  /\ pc = "start"
  /\ result = "none"
  /\ disc = [s \in Sheet |-> [at |-> "waiting", run |-> 1, piece |-> 1, sent |-> << >>]]
  /\ queue = << >>
  /\ batch = [k \in Kind |-> << >>]
  /\ batches = << >>
  /\ cacher = "none"
  /\ cache = [k \in Kind |-> {}]
  /\ manifests = << >>
  /\ hashes = << >>
  /\ checked = {}
  /\ data_index = << >>
  /\ archive = NoArchive
  /\ AudioInit

(* The user presses ctrl-c.                                                 *)
Cancel ==
  /\ running
  /\ pc # "returned"
  /\ running' = FALSE
  /\ UNCHANGED <<opticalVars, audioVars>>

-----------------------------------------------------------------------------
(* The playlists.                                                           *)

(* Playlists that name nothing take no id; ids start again after the last   *)
(* one.                                                                     *)
next_collection_id(n) ==
  Cardinality({m \in 1..(n - 1) : input.lists[m] # {}}) % ID_SPACE

(* The last playlist to name a title has it.                                *)
collection_id(title) ==
  LET naming == {n \in DOMAIN input.lists : title \in input.lists[n]}
  IN IF naming = {} THEN ID_SPACE - 1 ELSE next_collection_id(Max(naming))

-----------------------------------------------------------------------------
(* The workers.                                                             *)

KeptByWorkers == UNCHANGED <<running, input, pc, result, batch, batches, cacher, cache, checked,
                             data_index, archive, audioVars>>

WorkersOver == \A s \in Sheet : disc[s].at \in {"done", "failed", "skipped"}

(* Mutant of ReceiverGone: something still holds the receiver.              *)
ReceiverKept == FALSE

(* The receiver is dropped with the main thread's function.                 *)
ReceiverGone == pc = "returned"

(* A sheet is begun when the pool gets to it; after a failure the rest may  *)
(* not be begun at all.                                                     *)
Begin(s) ==
  /\ cacher # "none"
  /\ disc[s].at = "waiting"
  /\ disc' = [disc EXCEPT ![s].at = IF Content(s) = << >> THEN "failed" ELSE "send"]
  /\ UNCHANGED <<queue, manifests, hashes>>
  /\ KeptByWorkers

Skip(s) ==
  /\ disc[s].at = "waiting"
  /\ \E t \in Sheet : disc[t].at = "failed"
  /\ disc' = [disc EXCEPT ![s].at = "skipped"]
  /\ UNCHANGED <<queue, manifests, hashes>>
  /\ KeptByWorkers

(* A bin that cannot be read, or a sector that is not understood.           *)
WorkerFails(s) ==
  /\ disc[s].at = "send"
  /\ disc' = [disc EXCEPT ![s].at = "failed"]
  /\ UNCHANGED <<queue, manifests, hashes>>
  /\ KeptByWorkers

Sending(s) == disc[s].at = "send" /\ disc[s].run <= Len(Content(s))
Run(s) == Content(s)[disc[s].run]
NextRun(d) == [d EXCEPT !.run = @ + 1, !.piece = 1]

Sent(s) == Append(disc[s].sent, Run(s).pieces[disc[s].piece])

SendPiece(s) ==
  /\ Sending(s)
  /\ disc[s].piece <= Len(Run(s).pieces)
  /\ ~ReceiverGone
  /\ Len(queue) < CHANNEL
  /\ queue' = Append(queue, [kind |-> Run(s).kind, piece |-> Run(s).pieces[disc[s].piece]])
  /\ disc' = [disc EXCEPT ![s].piece = @ + 1, ![s].sent = Sent(s)]
  /\ UNCHANGED <<manifests, hashes>>
  /\ KeptByWorkers

(* Nobody receives: only this run is given up, the next one is cut as well. *)
SendRefused(s) ==
  /\ Sending(s)
  /\ disc[s].piece <= Len(Run(s).pieces)
  /\ ReceiverGone
  /\ disc' = [disc EXCEPT ![s] = NextRun(@)]
  /\ UNCHANGED <<queue, manifests, hashes>>
  /\ KeptByWorkers

RunSent(s) ==
  /\ Sending(s)
  /\ disc[s].piece > Len(Run(s).pieces)
  /\ disc' = [disc EXCEPT ![s] = NextRun(@)]
  /\ UNCHANGED <<queue, manifests, hashes>>
  /\ KeptByWorkers

Enter(map, title, value) ==
  [t \in DOMAIN map \cup {title} |-> IF t = title THEN value ELSE map[t]]

(* The hash of the disc is entered first, its manifest after it.            *)
EnterHash(s) ==
  /\ disc[s].at = "send"
  /\ ~Sending(s)
  /\ hashes' = Enter(hashes, Title(s), Content(s))
  /\ disc' = [disc EXCEPT ![s].at = "enter"]
  /\ UNCHANGED <<queue, manifests>>
  /\ KeptByWorkers

EnterManifest(s) ==
  /\ disc[s].at = "enter"
  /\ manifests' = Enter(manifests, Title(s), disc[s].sent)
  /\ disc' = [disc EXCEPT ![s].at = "done"]
  /\ UNCHANGED <<queue, hashes>>
  /\ KeptByWorkers

DiscStep(s) == Begin(s) \/ Skip(s) \/ SendPiece(s) \/ SendRefused(s) \/ RunSent(s)
               \/ EnterHash(s) \/ EnterManifest(s)

-----------------------------------------------------------------------------
(* The thread that fills the caches.                                        *)

KeptByCacher == UNCHANGED <<running, input, pc, result, disc, queue, batch, manifests, hashes,
                            checked, data_index, archive, audioVars>>

InsertBatch ==
  /\ cacher = "open"
  /\ batches # << >>
  /\ batches' = Tail(batches)
  /\ \/ /\ cache' = [cache EXCEPT ![Head(batches).kind] = @ \cup ToSet(Head(batches).pieces)]
        /\ UNCHANGED cacher
     \/ /\ cacher' = "error"
        /\ UNCHANGED cache
  /\ KeptByCacher

SenderDropped == pc \notin {"start", "collect", "flush"}

CacherDone ==
  /\ cacher = "open"
  /\ batches = << >>
  /\ SenderDropped
  /\ cacher' = "ok"
  /\ UNCHANGED <<batches, cache>>
  /\ KeptByCacher

-----------------------------------------------------------------------------
(* The main thread.                                                         *)

KeptByMain == UNCHANGED <<running, input, disc, cacher, cache, manifests, hashes>>
KeptCollecting == UNCHANGED <<checked, data_index, archive, audioVars>>

Return(r) == pc' = "returned" /\ result' = r
Goto(place) == pc' = place /\ UNCHANGED result

(* Each sheet's bins are measured in its own directory; then the caches and *)
(* the threads are made.                                                    *)
Prepare ==
  /\ pc = "start"
  /\ \/ (\A s \in Sheet : Owned(s) # << >>) /\ Sheet # {} /\ Goto("collect") /\ cacher' = "open"
     \/ Return("Error") /\ UNCHANGED cacher
  /\ UNCHANGED <<running, input, disc, queue, batch, batches, cache, manifests, hashes>>
  /\ KeptCollecting

Full(k) == Len(batch[k]) >= BATCH_SIZE
NoneFull == \A k \in Kind : ~Full(k)

Collect ==
  /\ pc = "collect"
  /\ NoneFull
  /\ queue # << >>
  /\ queue' = Tail(queue)
  /\ \/ running /\ Goto("collect")
        /\ batch' = [batch EXCEPT ![Head(queue).kind] = Append(@, Head(queue).piece)]
     \/ ~running /\ Return("Cancelled") /\ UNCHANGED batch
  /\ UNCHANGED batches
  /\ KeptCollecting /\ KeptByMain

SendBatch(k) ==
  /\ \/ pc = "collect" /\ Full(k)
     \/ pc = "flush" /\ batch[k] # << >>
  /\ \/ /\ cacher = "open"
        /\ Len(batches) < BATCHES
        /\ batches' = Append(batches, [kind |-> k, pieces |-> batch[k]])
        /\ batch' = [batch EXCEPT ![k] = << >>]
        /\ UNCHANGED <<pc, result>>
     \/ cacher = "error" /\ Return("Error") /\ UNCHANGED <<batch, batches>>
  /\ UNCHANGED queue
  /\ KeptCollecting /\ KeptByMain

(* The channel is closed when every worker has ended.                       *)
AllCollected ==
  /\ pc = "collect"
  /\ NoneFull
  /\ WorkersOver
  /\ queue = << >>
  /\ Goto("flush")
  /\ UNCHANGED <<queue, batch, batches>>
  /\ KeptCollecting /\ KeptByMain

(* Mutant of Flushed: the batch of data is all that is sent at the end.     *)
FlushedData == batch["data"] = << >>

Flushed == \A k \in Kind : batch[k] = << >>

Flush ==
  /\ pc = "flush"
  /\ Flushed
  /\ Goto("join")
  /\ UNCHANGED <<queue, batch, batches>>
  /\ KeptCollecting /\ KeptByMain

(* The cache's thread is joined first, then the workers.                    *)
Join ==
  /\ pc = "join"
  /\ cacher # "open"
  /\ IF cacher = "error" \/ \E s \in Sheet : disc[s].at = "failed"
     THEN Return("Error") ELSE Goto("verify")
  /\ UNCHANGED <<queue, batch, batches>>
  /\ KeptCollecting /\ KeptByMain

KeptAfter == UNCHANGED <<queue, batch, batches>> /\ KeptByMain

AllPieces(content) == FlattenSeq([r \in DOMAIN content |-> content[r].pieces])
Cached(title) == ToSet(manifests[title]) \subseteq UNION {cache[k] : k \in Kind}
HasData(title) == ToSet(manifests[title]) \cap cache["data"] # {}

(* The disc rebuilt from its manifest is the one that was hashed.           *)
Matches(title) == Cached(title) /\ manifests[title] = AllPieces(hashes[title])

(* The discs are verified one after another.  A disc without data panics;   *)
(* a cancellation ends in an external error, if it is seen at all.          *)
VerifyDisc(title) ==
  /\ pc = "verify"
  /\ title \in DOMAIN manifests \ checked
  /\ \/ Matches(title) /\ HasData(title) /\ Goto("verify") /\ checked' = checked \cup {title}
     \/ ~Matches(title) /\ HasData(title) /\ Return("Error") /\ UNCHANGED checked
     \/ ~HasData(title) /\ Return("panic") /\ UNCHANGED checked
     \/ ~running /\ HasData(title) /\ Return("Error") /\ UNCHANGED checked
  /\ UNCHANGED <<data_index, archive, audioVars>>
  /\ KeptAfter

(* The temporary file is made, and the audio goes into it if there is any.  *)
BeginBlob ==
  /\ pc = "verify"
  /\ checked = DOMAIN manifests
  /\ \/ /\ cache["audio"] = {}
        /\ Goto("build")
        /\ UNCHANGED audioVars
     \/ /\ cache["audio"] # {}
        /\ Start(SetToSeq(cache["audio"]))
        /\ Goto("audio")
     \/ Return("Error") /\ UNCHANGED audioVars
  /\ UNCHANGED <<checked, data_index, archive>>
  /\ KeptAfter

AudioReturned ==
  /\ pc = "audio"
  /\ caller = "returned"
  /\ IF returns = "ok" THEN Goto("build") ELSE Return("Error")
  /\ UNCHANGED <<checked, data_index, archive, audioVars>>
  /\ KeptAfter

(* ArchiveBuilder.build: the data chunks follow what is in the file.        *)
Build ==
  /\ pc = "build"
  /\ \/ /\ data_index' = SetToSeq(cache["data"])
        /\ Goto("write")
     \/ Return(IF running THEN "Error" ELSE "Cancelled") /\ UNCHANGED data_index
  /\ UNCHANGED <<checked, archive, audioVars>>
  /\ KeptAfter

(* The titles in order, with their collections and manifests, over the two  *)
(* halves of the blob.                                                      *)
WriteArchive ==
  /\ pc = "write"
  /\ \/ /\ archive' = [toc |-> [t \in DOMAIN manifests |->
                                  [collection |-> collection_id(t), manifest |-> manifests[t]]],
                       audio_index |-> audio_index, audio |-> blob, data |-> data_index]
        /\ Return("Ok")
     \/ Return("Error") /\ UNCHANGED archive
  /\ UNCHANGED <<checked, data_index, audioVars>>
  /\ KeptAfter

MainStep == Prepare \/ Collect \/ (\E k \in Kind : SendBatch(k)) \/ AllCollected \/ Flush \/ Join
            \/ (\E t \in DOMAIN manifests : VerifyDisc(t)) \/ BeginBlob \/ AudioReturned
            \/ Build \/ WriteArchive

-----------------------------------------------------------------------------
CacheStep == InsertBatch \/ CacherDone
Audio == AudioStep /\ UNCHANGED opticalVars
Over == pc = "returned" /\ UNCHANGED vars

Next == Cancel \/ (\E s \in Sheet : DiscStep(s) \/ WorkerFails(s)) \/ CacheStep \/ MainStep \/ Audio \/ Over

Spec == Init /\ [][Next]_vars

(* Threads are scheduled by the operating system; nothing need fail, nor    *)
(* anyone cancel.                                                           *)
FairSpec ==
  /\ Spec
  /\ WF_vars(MainStep) /\ WF_vars(CacheStep)
  /\ WF_vars(\E s \in Sheet : DiscStep(s))
  /\ WF_vars(IoStep /\ UNCHANGED opticalVars)
  /\ WF_vars(CallerStep /\ UNCHANGED opticalVars)
  /\ \A p \in Pool : WF_vars(PoolStep(p) /\ UNCHANGED opticalVars)

-----------------------------------------------------------------------------
(* The program counters and queues stay in their ranges.                    *)
TypeOK ==
  /\ AudioTypeOK
  /\ pc \in {"start", "collect", "flush", "join", "verify", "audio", "build", "write", "returned"}
  /\ result \in {"none", "Ok", "Error", "Cancelled", "panic"}
  /\ \A s \in Sheet : disc[s].at \in {"waiting", "send", "enter", "done", "failed", "skipped"}
  /\ Len(queue) <= CHANNEL /\ Len(batches) <= BATCHES
  /\ \A k \in Kind : Len(batch[k]) <= BATCH_SIZE
  /\ cacher \in {"none", "open", "ok", "error"}
  /\ (result # "none") = (pc = "returned")

Titles == {Title(s) : s \in Sheet}
DistinctTitles == \A s, t \in Sheet : Title(s) = Title(t) => s = t
OneDirectory == \A s \in Sheet : input.sheets[s].dir = input.sheets[1].dir

(* When all threads are joined, of discs with titles of their own no piece  *)
(* is lost or out of order: between the workers' channel, the two batches,  *)
(* the last of them not full, and the caches.  (Two sheets of one title     *)
(* enter the hash of one and the manifest of the other, or one of them is   *)
(* lost without a word.)                                                    *)
NothingLost ==
  pc \in {"verify", "audio", "build", "write"} /\ DistinctTitles =>
    /\ DOMAIN manifests = Titles
    /\ \A t \in Titles : Matches(t)

(* Ok means that every disc is in the archive: its own bin, if the sheets   *)
(* lie in one directory and their titles differ, with each audio block and  *)
(* each data chunk in the blob, whatever the pool and the I/O thread did.   *)
(* (Of a sheet in another directory the bin of the first sheet's directory  *)
(* is archived, and verified against itself.)                               *)
OkHasEveryDisc ==
  result = "Ok" /\ DistinctTitles /\ OneDirectory =>
    \A s \in Sheet :
      /\ Title(s) \in DOMAIN archive.toc
      /\ archive.toc[Title(s)].manifest = AllPieces(Owned(s))
      /\ \A r \in DOMAIN Owned(s) : \A k \in DOMAIN Owned(s)[r].pieces :
           LET piece == Owned(s)[r].pieces[k]
           IN IF Owned(s)[r].kind = "data"
              THEN Contains(archive.data, piece)
              ELSE \E e \in DOMAIN archive.audio_index : archive.audio_index[e].hash = piece

(* How many bytes the first blocks of the blob have.                        *)
Bytes[n \in 0..Len(blob)] == IF n = 0 THEN 0 ELSE Bytes[n - 1] + CompLen(blob[n])

(* Every entry of the audio index says where its block's bytes begin.       *)
AudioIndexLocates ==
  \A e \in DOMAIN audio_index :
    /\ audio_index[e].hash = blob[e]
    /\ audio_index[e].offset = Bytes[e - 1]

(* Two discs of the archive share a collection exactly when the last        *)
(* playlist to name one is the last to name the other, and a disc no        *)
(* playlist names is in none: with fewer playlists than ids.                *)
CollectionsApart ==
  LET naming(t) == {n \in DOMAIN input.lists : t \in input.lists[n]}
      last(t) == {n \in naming(t) : \A m \in naming(t) : m <= n}
  IN result = "Ok" /\ Cardinality({n \in DOMAIN input.lists : input.lists[n] # {}}) < ID_SPACE =>
       \A t, u \in DOMAIN archive.toc :
         /\ (archive.toc[t].collection = ID_SPACE - 1) = (naming(t) = {})
         /\ (archive.toc[t].collection = archive.toc[u].collection) = (last(t) = last(u))

(* Who has to wait for another.                                             *)
BatchGoes == cacher = "error" \/ (cacher = "open" /\ Len(batches) < BATCHES)
MainWaits ==
  \/ pc = "collect" /\ NoneFull /\ queue = << >> /\ ~WorkersOver
  \/ pc = "collect" /\ ~NoneFull /\ ~BatchGoes
  \/ pc = "flush" /\ ~Flushed /\ ~BatchGoes
  \/ pc = "join" /\ cacher = "open"
  \/ pc = "audio" /\ caller # "returned"
  \/ pc = "returned"
CacherWaits == cacher # "open" \/ (batches = << >> /\ ~SenderDropped)
WorkerWaits(s) ==
  \/ disc[s].at = "waiting" /\ cacher = "none"
  \/ Sending(s) /\ disc[s].piece <= Len(Run(s).pieces) /\ ~ReceiverGone /\ Len(queue) >= CHANNEL
  \/ disc[s].at \in {"done", "failed", "skipped"}

(* Until the run has returned some thread of it can go on: over the three   *)
(* bounded channels no circle of threads waits for each other, and nobody   *)
(* waits for what nobody will send, whatever fails or is cancelled.         *)
NeverAllWait ==
  pc # "returned" =>
    ~(MainWaits /\ CacherWaits /\ (\A s \in Sheet : WorkerWaits(s)) /\ AudioWaits)

(* All of these.                                                            *)
Safe == TypeOK /\ NothingLost /\ CollectionsApart /\ AudioIndexLocates

AudioEnded == IoEnded /\ PoolEnded

(* The run returns and all of its threads end, whatever fails or is         *)
(* cancelled, except after a block that could not be compressed: then the   *)
(* audio I/O thread and the rest of the pool may wait for each other for    *)
(* ever.                                                                    *)
ThreadsEnd ==
  <>[](/\ pc = "returned"
       /\ cacher # "open"
       /\ cacher = "none" \/ WorkersOver
       /\ caller = "idle" \/ returns = "Flac" \/ AudioEnded)

(* What the caller of compress_audio_blocks knows of it.                    *)
Answer == IF caller = "idle" THEN "idle"
          ELSE IF caller = "returned" THEN returns ELSE "working"

AudioWriter == INSTANCE AudioBlob WITH
  asked <- blocks, answer <- Answer,
  Failures <- {"Worker", "External", "PoolDied"}, Abandonments <- {"Flac"}

(* The pool, the I/O thread and the caller are together a writer that has   *)
(* no threads: the blocks in order, each where its entry says, Ok only      *)
(* after the last, and nothing written after the answer, unless a block     *)
(* could not be compressed.  Then the I/O thread may go on, in order still. *)
AudioWriterSpec == AudioWriter!Spec
=============================================================================

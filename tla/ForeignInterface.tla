-------------------------- MODULE ForeignInterface --------------------------
(***************************************************************************)
(* The C interface of lib_sprite_shrink (src/ffi): who owns which piece of  *)
(* memory when a C program, the host, creates a builder, configures it,     *)
(* builds an archive through callbacks, asks for manifests, processed files *)
(* and seek lists, and gives back what it was given.                        *)
(*                                                                          *)
(* Memory is a set of named allocations.  A call that uses one which is not *)
(* allocated is undefined behaviour in the program: here it is noted in     *)
(* misuse, under the name of what was used.                                 *)
(***************************************************************************)
EXTENDS Naturals

CONSTANTS
  Object,   \* names for what a call gives to the host; a freed name may return
  Batches   \* bound on the callbacks of one call that ask for chunks

ASSUME InterfaceAssumption == Batches \in Nat \ {0}

VARIABLES
  heap,     \* the allocations, each <<object, kind, part>>
  given,    \* what the host was given and has not given back: <<object, kind>>
  call,     \* the call the host's thread is in
  io,       \* the I/O threads of compress_chunks, one per build
  status,   \* what the last call returned
  misuse    \* what was used, or freed, without being allocated

vars == <<heap, given, call, io, status, misuse>>

Builders == {"builder_u64", "builder_u128"}

(* The allocations behind each pointer the library gives out.              *)
Parts(kind) ==
  CASE kind \in Builders -> {"handle", "builder"}
    [] kind = "data" -> {"output", "dictionary", "enc_chunk_index"}
    [] kind = "manifest" -> {"output", "chunk_metadata", "hashed_chunks", "chunk_data"}
    [] kind = "processed" -> {"output", "filename", "veri_hash", "chunks", "file_data"}
    [] kind = "seek" -> {"output", "chunks"}

Kinds == Builders \cup {"data", "manifest", "processed", "seek"}

Allocated(o, kind) == {<<o, kind, p>> : p \in Parts(kind)}
(* What the host allocates for a builder: user_data and, behind the pointer *)
(* in the arguments, the hashes.                                            *)
Context(o) == <<o, "host", "user_data">>
Hashes(o) == <<o, "host", "sorted_hashes">>
ChunkArray(o) == <<o, "host", "chunk_array">>

Gone == [on |-> "none"]
Fresh(o) == io[o] = Gone /\ \A a \in heap : a[1] # o
Idle == [fn |-> "none"]

Init ==
  /\ heap = {}
  /\ given = {}
  /\ call = Idle
  /\ io = [o \in Object |-> Gone]
  /\ status = "StatusOk"
  /\ misuse = {}

Uses(S, what) == misuse' = misuse \cup IF S \subseteq heap THEN {} ELSE {what}

-----------------------------------------------------------------------------
(* What a callback of the host answers: chunks, an empty answer, or a       *)
(* failure, with the status the library makes of it.                        *)
FFICallbackStatus == {"CallbackOk", "Error", "Cancelled"}
StatusOf(err) ==
  CASE err = "Error" -> "InternalError"
    [] err = "Cancelled" -> "InternalError"
    [] OTHER -> err

(* A call that returns before it has done anything.                         *)
Returns(s) == call = Idle /\ status' = s /\ UNCHANGED <<heap, given, call, io, misuse>>

(* The host passes a null pointer to some call.                             *)
NullArgument == Returns("NullArgument")

(* A call gives the host a new object.                                      *)
Gives(o, kind) ==
  /\ Fresh(o)
  /\ heap' = heap \cup Allocated(o, kind)
  /\ given' = given \cup {<<o, kind>>}
  /\ status' = "StatusOk"

(* A call takes an object back.                                             *)
TakesBack(o, kind, allocs) ==
  /\ call = Idle
  /\ <<o, kind>> \in given
  /\ given' = given \ {<<o, kind>>}
  /\ heap' = heap \ allocs
  /\ Uses(allocs, "free")
  /\ UNCHANGED <<call, io, status>>

-----------------------------------------------------------------------------
(* Builders.                                                                *)

archive_builder_new_u64(o) ==
  /\ call = Idle
  /\ Fresh(o)
  /\ heap' = heap \cup Allocated(o, "builder_u64") \cup {Context(o), Hashes(o)}
  /\ given' = given \cup {<<o, "builder_u64">>}
  /\ status' = "StatusOk"
  /\ UNCHANGED <<call, io, misuse>>

(* The hashes are decoded into a vector of this call, which the builder     *)
(* borrows and the end of the call frees.                                   *)
archive_builder_new_u128(o) ==
  /\ call = Idle
  /\ Fresh(o)
  /\ heap' = heap \cup Allocated(o, "builder_u128") \cup {Context(o)}
  /\ given' = given \cup {<<o, "builder_u128">>}
  /\ status' = "StatusOk"
  /\ UNCHANGED <<call, io, misuse>>

update_builder_internal(o) ==
  /\ call = Idle
  /\ \E kind \in Builders :
       /\ <<o, kind>> \in given
       /\ Uses(Allocated(o, kind), "builder")
  /\ status' = "StatusOk"
  /\ UNCHANGED <<heap, given, call, io>>

(* Compression level, dictionary size, workers and optimisation, and the    *)
(* progress callback.                                                       *)
archive_builder_set(o) == update_builder_internal(o)
archive_builder_set_c_progress(o) == update_builder_internal(o)

(* The host drops its array of hashes: the arguments need to live no longer *)
(* than the call that was given them.                                       *)
HostFreesHashes(o) ==
  /\ call = Idle
  /\ Hashes(o) \in heap
  /\ heap' = heap \ {Hashes(o)}
  /\ UNCHANGED <<given, call, io, status, misuse>>

(* The builder is gone, and with it the need for what it borrowed.          *)
Borrowed(o) == {Context(o), Hashes(o)}

archive_builder_free(o, kind) ==
  /\ kind \in Builders
  /\ call = Idle
  /\ <<o, kind>> \in given
  /\ given' = given \ {<<o, kind>>}
  /\ heap' = heap \ (Allocated(o, kind) \cup Borrowed(o))
  /\ Uses(Allocated(o, kind), "free")
  /\ UNCHANGED <<call, io, status>>

(* Mutant of BuildBegins: the host still holds the handle afterwards.       *)
BuildBeginsByCopy(o, kind) ==
  /\ call = Idle
  /\ <<o, kind>> \in given
  /\ heap' = heap \ {<<o, kind, "handle">>}
  /\ call' = [fn |-> "build", obj |-> o, kind |-> kind, at |-> "samples", left |-> Batches]
  /\ UNCHANGED <<given, io, status, misuse>>

(* The handle is consumed before anything can fail.                         *)
BuildBegins(o, kind) ==
  /\ call = Idle
  /\ <<o, kind>> \in given
  /\ given' = given \ {<<o, kind>>}
  /\ heap' = heap \ {<<o, kind, "handle">>}
  /\ Uses({<<o, kind, "handle">>}, "free")
  /\ call' = [fn |-> "build", obj |-> o, kind |-> kind, at |-> "samples", left |-> Batches]
  /\ UNCHANGED <<io, status>>

archive_builder_build_u64(o) == BuildBegins(o, "builder_u64")
archive_builder_build_u128(o) == BuildBegins(o, "builder_u128")

Building(at) == call.fn = "build" /\ call.at = at

(* The end of the build: the builder is dropped, the host lets go of what   *)
(* it lent.  An error gives the host nothing.                               *)
BuildReturns(s, out) ==
  LET gone == {<<call.obj, call.kind, "builder">>}
  IN /\ heap' = (heap \ (gone \cup Borrowed(call.obj))) \cup out
     /\ given' = given \cup {<<a[1], a[2]>> : a \in out}
     /\ Uses(gone, "free")
     /\ status' = s
     /\ call' = Idle

(* get_chunks_closure: the array the host made is copied and handed to      *)
(* free_chunks_cb; an empty answer and a failed one have no array.          *)
UserDataOf(o) == IF call # Idle /\ call.obj = o THEN "user_data" ELSE "late user_data"

GetChunks(o) ==
  /\ ChunkArray(o) \notin heap
  /\ heap' = heap \cup {ChunkArray(o)}
  /\ Uses({Context(o)}, UserDataOf(o))

FreeChunks(o) ==
  /\ ChunkArray(o) \in heap
  /\ heap' = heap \ {ChunkArray(o)}
  /\ Uses({Context(o)}, UserDataOf(o))

(* build_train_samples reads the hashes and asks for chunks; then the       *)
(* dictionary is trained, and compress_chunks copies the hashes and starts  *)
(* its threads.                                                             *)
Sample ==
  /\ Building("samples")
  /\ call.left > 0
  /\ GetChunks(call.obj)
  /\ call' = [call EXCEPT !.left = @ - 1]
  /\ UNCHANGED <<given, io, status>>

SampleCopied ==
  /\ Building("samples")
  /\ FreeChunks(call.obj)
  /\ UNCHANGED <<given, call, io, status>>

SampleFails(err) ==
  /\ Building("samples")
  /\ ChunkArray(call.obj) \notin heap
  /\ BuildReturns(StatusOf(err), {})
  /\ UNCHANGED io

CompressBegins ==
  /\ Building("samples")
  /\ ChunkArray(call.obj) \notin heap
  /\ Uses({Hashes(call.obj)}, "hashes")
  /\ io' = [io EXCEPT ![call.obj] = [on |-> "running", left |-> Batches]]
  /\ call' = [call EXCEPT !.at = "compress"]
  /\ UNCHANGED <<heap, given, status>>

Running(o) == io[o].on = "running"

IoRead(o) ==
  /\ Running(o)
  /\ io[o].left > 0
  /\ GetChunks(o)
  /\ io' = [io EXCEPT ![o].left = @ - 1]
  /\ UNCHANGED <<given, call, status>>

IoCopied(o) ==
  /\ Running(o)
  /\ FreeChunks(o)
  /\ UNCHANGED <<given, call, io, status>>

(* write_data_closure: the data stays the library's.                        *)
IoWrite(o) ==
  /\ Running(o)
  /\ ChunkArray(o) \notin heap
  /\ Uses({Context(o)}, UserDataOf(o))
  /\ UNCHANGED <<heap, given, call, io, status>>

Compressing(o) == Building("compress") /\ call.obj = o

IoEnds(o, outcome) ==
  /\ Running(o)
  /\ ChunkArray(o) \notin heap
  /\ outcome = "done" => io[o].left = 0
  /\ io' = [io EXCEPT ![o] = IF Compressing(o) THEN [on |-> outcome] ELSE Gone]
  /\ UNCHANGED <<heap, given, call, status, misuse>>

(* A worker's error returns at once and leaves the I/O thread behind.       *)
WorkerFails(o) ==
  /\ Compressing(o)
  /\ Running(o)
  /\ BuildReturns("CompressionError", {})
  /\ UNCHANGED io

CompressFails(o) ==
  /\ Compressing(o)
  /\ io[o].on \in {"Error", "Cancelled"}
  /\ BuildReturns(StatusOf(io[o].on), {})
  /\ io' = [io EXCEPT ![o] = Gone]

CompressDone(o) ==
  /\ Compressing(o)
  /\ io[o].on = "done"
  /\ io' = [io EXCEPT ![o] = Gone]
  /\ call' = [call EXCEPT !.at = "flush"]
  /\ Uses({Context(o)}, "user_data")
  /\ UNCHANGED <<heap, given, status>>

(* Mutant of handle_build_result: the output is made whatever the result.   *)
handle_build_result_early(out) ==
  /\ Building("flush")
  /\ Fresh(out)
  /\ \E s \in {"StatusOk", "InternalError"} : BuildReturns(s, Allocated(out, "data"))
  /\ UNCHANGED io

handle_build_result(out) ==
  /\ Building("flush")
  /\ \/ \E err \in {"Error", "Cancelled"} : BuildReturns(StatusOf(err), {})
     \/ Fresh(out) /\ BuildReturns("StatusOk", Allocated(out, "data"))
  /\ UNCHANGED io

archive_data_free(o) == TakesBack(o, "data", Allocated(o, "data"))

-----------------------------------------------------------------------------
(* Calls without callbacks.                                                 *)

GivesOrFails(o, kind, errors) ==
  /\ call = Idle
  /\ \/ Gives(o, kind)
     \/ status' \in errors /\ UNCHANGED <<heap, given>>
  /\ UNCHANGED <<call, io, misuse>>

create_file_manifest_and_chunks_u64(o) == GivesOrFails(o, "manifest", {"NullArgument"})
create_file_manifest_and_chunks_u128(o) == GivesOrFails(o, "manifest", {"NullArgument"})
process_file_in_memory_ffi(o) ==
  GivesOrFails(o, "processed", {"NullArgument", "NoDataToProcess"})
get_seek_chunks_u64(o) == GivesOrFails(o, "seek", {"NullArgument", "SeekOutOfBounds"})
get_seek_chunks_u128(o) == GivesOrFails(o, "seek", {"NullArgument", "SeekOutOfBounds"})

free_file_manifest_and_chunks_internal(o) ==
  TakesBack(o, "manifest", Allocated(o, "manifest"))
(* Mutant of free_processed_file_data_ffi: a field is not freed.            *)
free_processed_forgets(o) ==
  TakesBack(o, "processed", Allocated(o, "processed") \ {<<o, "processed", "filename">>})

free_processed_file_data_ffi(o) == TakesBack(o, "processed", Allocated(o, "processed"))
free_seek_chunks_internal(o) == TakesBack(o, "seek", Allocated(o, "seek"))

(* Calls that answer through memory of the host.                            *)
decompress_chunk_c == \E s \in {"StatusOk", "BufferTooSmall", "InternalError"} : Returns(s)
LookedUp == \E s \in {"StatusOk", "HashNotFound"} : Returns(s)
lookup_chunk_location_u64 == LookedUp
lookup_chunk_location_u128 == LookedUp

-----------------------------------------------------------------------------
(* verify_single_file and test_compression: the arrays the host's callback  *)
(* returns become vectors of the library, which frees them.                 *)

VerifyBegins(o, fn) ==
  /\ call = Idle
  /\ Fresh(o)
  /\ heap' = heap \cup {Context(o)}
  /\ call' = [fn |-> fn, obj |-> o, left |-> Batches]
  /\ UNCHANGED <<given, io, status, misuse>>

verify_single_file_u64(o) == VerifyBegins(o, "verify")
verify_single_file_u128(o) == VerifyBegins(o, "verify")
test_compression_u64(o) == VerifyBegins(o, "test")
test_compression_u128(o) == VerifyBegins(o, "test")

TakesChunks ==
  /\ call.fn \in {"verify", "test"}
  /\ call.left > 0
  /\ GetChunks(call.obj)
  /\ call' = [call EXCEPT !.left = @ - 1]
  /\ UNCHANGED <<given, io, status>>

ChunksDropped ==
  /\ call.fn \in {"verify", "test"}
  /\ ChunkArray(call.obj) \in heap
  /\ heap' = heap \ {ChunkArray(call.obj)}
  /\ Uses({ChunkArray(call.obj)}, "free")
  /\ UNCHANGED <<given, call, io, status>>

VerifyReturns(s) ==
  /\ call.fn \in {"verify", "test"}
  /\ ChunkArray(call.obj) \notin heap
  /\ heap' = heap \ {Context(call.obj)}
  /\ call' = Idle
  /\ status' = s
  /\ UNCHANGED <<given, io, misuse>>

-----------------------------------------------------------------------------
Next ==
  \/ NullArgument \/ decompress_chunk_c
  \/ lookup_chunk_location_u64 \/ lookup_chunk_location_u128
  \/ \E o \in Object :
       \/ archive_builder_new_u64(o) \/ archive_builder_new_u128(o)
       \/ archive_builder_set(o) \/ archive_builder_set_c_progress(o)
       \/ HostFreesHashes(o)
       \/ archive_builder_build_u64(o) \/ archive_builder_build_u128(o)
       \/ \E kind \in Builders : archive_builder_free(o, kind)
       \/ handle_build_result(o) \/ archive_data_free(o)
       \/ create_file_manifest_and_chunks_u64(o) \/ create_file_manifest_and_chunks_u128(o)
       \/ process_file_in_memory_ffi(o)
       \/ get_seek_chunks_u64(o) \/ get_seek_chunks_u128(o)
       \/ free_file_manifest_and_chunks_internal(o)
       \/ free_processed_file_data_ffi(o) \/ free_seek_chunks_internal(o)
       \/ verify_single_file_u64(o) \/ verify_single_file_u128(o)
       \/ test_compression_u64(o) \/ test_compression_u128(o)
  \/ Sample \/ SampleCopied \/ CompressBegins
  \/ \E err \in {"Error", "Cancelled", "DictionaryError"} : SampleFails(err)
  \/ \E o \in Object :
       \/ IoRead(o) \/ IoCopied(o) \/ IoWrite(o)
       \/ \E outcome \in {"done", "Error", "Cancelled"} : IoEnds(o, outcome)
       \/ WorkerFails(o) \/ CompressFails(o) \/ CompressDone(o)
  \/ TakesChunks \/ ChunksDropped
  \/ \E s \in {"StatusOk", "VerificationHashMismatch", "InternalError"} : VerifyReturns(s)

Spec == Init /\ [][Next]_vars

-----------------------------------------------------------------------------
(* The allocations of the current call that nobody outside it owns.         *)
Kept == IF call.fn = "build" THEN {<<call.obj, call.kind, "builder">>} ELSE {}

Allocation == {<<o, k, p>> : o \in Object, k \in Kinds \cup {"host"},
                             p \in (UNION {Parts(k) : k \in Kinds})
                                     \cup {"user_data", "sorted_hashes", "chunk_array"}}

(* Allocations, outputs, the call and the I/O threads keep their kinds, and *)
(* nothing is misused in a way that has no name here.                       *)
TypeOK ==
  /\ heap \subseteq Allocation
  /\ given \subseteq Object \X Kinds
  /\ call \in [fn : {"none"}]
         \cup [fn : {"build"}, obj : Object, kind : Builders,
               at : {"samples", "compress", "flush"}, left : 0..Batches]
         \cup [fn : {"verify", "test"}, obj : Object, left : 0..Batches]
  /\ io \in [Object -> [on : {"none", "done", "Error", "Cancelled"}]
                        \cup [on : {"running"}, left : 0..Batches]]
  /\ misuse \subseteq {"free", "builder", "hashes", "user_data", "late user_data"}

(* Whatever the host still holds is wholly allocated, and no call frees or  *)
(* uses a builder, an output or user_data that is not: a build takes its    *)
(* builder once, however it ends, and a failed one leaves nothing to free.  *)
OwnsWhatItHolds ==
  /\ \A g \in given : Allocated(g[1], g[2]) \subseteq heap
  /\ misuse \subseteq {"hashes", "late user_data"}

(* An array of chunks is freed by whoever asked for it: one that is still   *)
(* allocated belongs to a call, or to an I/O thread, that is still running. *)
ArraysComeBack ==
  \A o \in Object : ChunkArray(o) \in heap => Running(o) \/ (call # Idle /\ call.obj = o)

(* All of these.                                                            *)
Safe == TypeOK /\ OwnsWhatItHolds /\ ArraysComeBack

(* Nothing leaks: every allocation of the library is reachable from what    *)
(* the host holds or belongs to the build that is running, so a host that   *)
(* gives everything back and calls no more has all of it freed.             *)
NothingLeaks ==
  {a \in heap : a[2] # "host"} = (UNION {Allocated(g[1], g[2]) : g \in given}) \cup Kept

(* A call that fails gives the host nothing.                                *)
FailureGivesNothing ==
  [][call # Idle /\ call' = Idle /\ status' # "StatusOk" => given' \subseteq given]_vars
=============================================================================

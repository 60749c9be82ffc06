----------------------- MODULE ForeignInterfaceProofs -----------------------
(***************************************************************************)
(* Proofs about ForeignInterface: for any set of objects and any number of  *)
(* callbacks, memory that crosses the C interface has one owner, comes back *)
(* once and is never lost.                                                  *)
(***************************************************************************)
EXTENDS ForeignInterface, TLAPS

(* What a step of the specification is, whichever function it belongs to.   *)
CallStep ==
  \/ \E s \in {"StatusOk", "NullArgument", "BufferTooSmall", "InternalError",
               "HashNotFound"} : Returns(s)
  \/ \E o \in Object :
       \/ archive_builder_new_u64(o) \/ archive_builder_new_u128(o)
       \/ update_builder_internal(o)
       \/ HostFreesHashes(o)
       \/ \E kind \in Builders : archive_builder_free(o, kind) \/ BuildBegins(o, kind)
       \/ \E kind \in {"manifest", "processed", "seek"} :
            GivesOrFails(o, kind, {"NullArgument", "NoDataToProcess", "SeekOutOfBounds"})
       \/ \E kind \in {"data", "manifest", "processed", "seek"} :
            TakesBack(o, kind, Allocated(o, kind))
       \/ \E fn \in {"verify", "test"} : VerifyBegins(o, fn)

InCallStep ==
  \/ Sample \/ SampleCopied \/ CompressBegins
  \/ \E err \in {"Error", "Cancelled", "DictionaryError"} : SampleFails(err)
  \/ TakesChunks \/ ChunksDropped
  \/ \E s \in {"StatusOk", "VerificationHashMismatch", "InternalError"} : VerifyReturns(s)
  \/ \E o \in Object :
       WorkerFails(o) \/ CompressFails(o) \/ CompressDone(o) \/ handle_build_result(o)

IoStep ==
  \E o \in Object :
    \/ IoRead(o) \/ IoCopied(o) \/ IoWrite(o)
    \/ \E outcome \in {"done", "Error", "Cancelled"} : IoEnds(o, outcome)

LEMMA NextIsStep == Next => CallStep \/ InCallStep \/ IoStep
<1> SUFFICES ASSUME Next PROVE CallStep \/ InCallStep \/ IoStep
  OBVIOUS
<1>1. CASE NullArgument \/ decompress_chunk_c
           \/ lookup_chunk_location_u64 \/ lookup_chunk_location_u128
  BY <1>1 DEF NullArgument, decompress_chunk_c, lookup_chunk_location_u64,
       lookup_chunk_location_u128, LookedUp, CallStep
<1>2. ASSUME NEW o \in Object,
             \/ archive_builder_new_u64(o) \/ archive_builder_new_u128(o)
             \/ archive_builder_set(o) \/ archive_builder_set_c_progress(o)
             \/ HostFreesHashes(o)
             \/ archive_builder_build_u64(o) \/ archive_builder_build_u128(o)
             \/ \E kind \in Builders : archive_builder_free(o, kind)
             \/ handle_build_result(o) \/ archive_data_free(o)
      PROVE  CallStep \/ InCallStep
  BY <1>2 DEF archive_builder_set, archive_builder_set_c_progress,
       archive_builder_build_u64, archive_builder_build_u128, archive_data_free,
       CallStep, InCallStep, Builders
<1>3. ASSUME NEW o \in Object,
             \/ create_file_manifest_and_chunks_u64(o)
             \/ create_file_manifest_and_chunks_u128(o)
             \/ process_file_in_memory_ffi(o)
             \/ get_seek_chunks_u64(o) \/ get_seek_chunks_u128(o)
      PROVE  CallStep
  BY <1>3 DEF create_file_manifest_and_chunks_u64,
       create_file_manifest_and_chunks_u128, process_file_in_memory_ffi,
       get_seek_chunks_u64, get_seek_chunks_u128, GivesOrFails, CallStep
<1>4. ASSUME NEW o \in Object,
             \/ free_file_manifest_and_chunks_internal(o)
             \/ free_processed_file_data_ffi(o) \/ free_seek_chunks_internal(o)
             \/ verify_single_file_u64(o) \/ verify_single_file_u128(o)
             \/ test_compression_u64(o) \/ test_compression_u128(o)
      PROVE  CallStep
  BY <1>4 DEF free_file_manifest_and_chunks_internal, free_processed_file_data_ffi,
       free_seek_chunks_internal, verify_single_file_u64, verify_single_file_u128,
       test_compression_u64, test_compression_u128, CallStep
<1> QED
  BY <1>1, <1>2, <1>3, <1>4 DEF Next, InCallStep, IoStep
-----------------------------------------------------------------------------
(***************************************************************************)
(* Allocations.                                                            *)
(***************************************************************************)

(* What is allocated for one object carries its name and its kind.         *)
LEMMA LibraryMemory ==
  ASSUME NEW o \in Object, NEW kind \in Kinds
  PROVE  /\ Allocated(o, kind) \subseteq Allocation
         /\ Allocated(o, kind) # {}
         /\ \A a \in Allocated(o, kind) : a[1] = o /\ a[2] = kind /\ a[2] # "host"
<1> DEFINE names == (UNION {Parts(k) : k \in Kinds})
                      \cup {"user_data", "sorted_hashes", "chunk_array"}
<1>1. Parts(kind) # {}
  BY DEF Parts, Kinds, Builders
<1>2. kind # "host"
  BY DEF Kinds, Builders
<1>3. Parts(kind) \subseteq names
  OBVIOUS
<1>4. Allocation = {<<p, k, n>> : p \in Object, k \in Kinds \cup {"host"}, n \in names}
  BY DEF Allocation
<1> HIDE DEF names
<1>5. \A n \in names : <<o, kind, n>> \in Allocation
  BY <1>4
<1>6. Allocated(o, kind) \subseteq Allocation
  BY <1>3, <1>5 DEF Allocated
<1>7. Allocated(o, kind) # {}
  <2>1. PICK n \in Parts(kind) : TRUE
    BY <1>1
  <2>2. <<o, kind, n>> \in Allocated(o, kind)
    BY <2>1 DEF Allocated
  <2> QED
    BY <2>2
<1>8. \A a \in Allocated(o, kind) : a[1] = o /\ a[2] = kind
  BY DEF Allocated
<1> QED
  BY <1>2, <1>6, <1>7, <1>8

LEMMA BuilderMemory ==
  ASSUME NEW o \in Object, NEW kind \in Builders
  PROVE  Allocated(o, kind) = {<<o, kind, "handle">>, <<o, kind, "builder">>}
BY DEF Allocated, Parts, Builders

LEMMA HostMemory ==
  ASSUME NEW o \in Object
  PROVE  /\ {Context(o), Hashes(o), ChunkArray(o)} \subseteq Allocation
         /\ \A a \in {Context(o), Hashes(o), ChunkArray(o)} : a[1] = o /\ a[2] = "host"
         /\ Context(o) # Hashes(o) /\ Context(o) # ChunkArray(o)
         /\ Hashes(o) # ChunkArray(o)
<1> DEFINE names == (UNION {Parts(k) : k \in Kinds})
                      \cup {"user_data", "sorted_hashes", "chunk_array"}
<1>1. {"user_data", "sorted_hashes", "chunk_array"} \subseteq names
  OBVIOUS
<1>2. Allocation = {<<p, k, n>> : p \in Object, k \in Kinds \cup {"host"}, n \in names}
  BY DEF Allocation
<1> HIDE DEF names
<1>3. \A n \in names : <<o, "host", n>> \in Allocation
  BY <1>2
<1> QED
  BY <1>1, <1>3 DEF Context, Hashes, ChunkArray
-----------------------------------------------------------------------------
(***************************************************************************)
(* Types.                                                                  *)
(***************************************************************************)

CallType ==
  [fn : {"none"}]
    \cup [fn : {"build"}, obj : Object, kind : Builders,
          at : {"samples", "compress", "flush"}, left : 0..Batches]
    \cup [fn : {"verify", "test"}, obj : Object, left : 0..Batches]

IoType ==
  [on : {"none", "done", "Error", "Cancelled"}] \cup [on : {"running"}, left : 0..Batches]

Misuse == {"free", "builder", "hashes", "user_data", "late user_data"}

LEMMA Typed ==
  TypeOK <=> /\ heap \subseteq Allocation /\ given \subseteq Object \X Kinds
             /\ call \in CallType /\ io \in [Object -> IoType]
             /\ misuse \subseteq Misuse
BY DEF TypeOK, CallType, IoType, Misuse

LEMMA TypedNext ==
  TypeOK' <=> /\ heap' \subseteq Allocation /\ given' \subseteq Object \X Kinds
              /\ call' \in CallType /\ io' \in [Object -> IoType]
              /\ misuse' \subseteq Misuse
BY DEF TypeOK, CallType, IoType, Misuse

LEMMA UsesTyped ==
  ASSUME NEW S, NEW what \in Misuse, Uses(S, what), misuse \subseteq Misuse
  PROVE  misuse' \subseteq Misuse
BY DEF Uses

(* The calls there are.                                                    *)
LEMMA Calls ==
  ASSUME NEW o \in Object, NEW left \in 0..Batches
  PROVE  /\ Idle \in CallType
         /\ \A fn \in {"verify", "test"} : [fn |-> fn, obj |-> o, left |-> left] \in CallType
         /\ \A kind \in Builders, at \in {"samples", "compress", "flush"} :
              [fn |-> "build", obj |-> o, kind |-> kind, at |-> at, left |-> left] \in CallType
BY DEF CallType, Idle

LEMMA Ios ==
  /\ Gone \in IoType
  /\ \A outcome \in {"done", "Error", "Cancelled"} : [on |-> outcome] \in IoType
  /\ \A left \in 0..Batches : [on |-> "running", left |-> left] \in IoType
BY DEF IoType, Gone

LEMMA TypeInit == Init => TypeOK
<1> SUFFICES ASSUME Init PROVE TypeOK
  OBVIOUS
<1>1. Idle \in CallType
  BY DEF CallType, Idle
<1>2. io \in [Object -> IoType]
  BY Ios DEF Init
<1> QED
  BY <1>1, <1>2, Typed DEF Init

(* A call that is not idle has an object; one that builds has a builder.    *)
LEMMA CallCases ==
  ASSUME call \in CallType
  PROVE  /\ call # Idle => call.obj \in Object /\ call.left \in 0..Batches
         /\ call.fn = "build" => /\ call # Idle /\ call.kind \in Builders
                                 /\ call = [fn |-> "build", obj |-> call.obj,
                                            kind |-> call.kind, at |-> call.at,
                                            left |-> call.left]
         /\ call.fn \in {"verify", "test"} =>
              /\ call # Idle
              /\ call = [fn |-> call.fn, obj |-> call.obj, left |-> call.left]
BY DEF CallType, Idle

LEMMA CallTyped ==
  ASSUME TypeOK, CallStep
  PROVE  TypeOK'
<1>0. /\ heap \subseteq Allocation /\ given \subseteq Object \X Kinds
      /\ call \in CallType /\ io \in [Object -> IoType] /\ misuse \subseteq Misuse
  BY Typed
<1>12. Batches \in 0..Batches
  BY InterfaceAssumption
<1>1. ASSUME NEW s, Returns(s)
      PROVE  TypeOK'
  BY <1>0, <1>1, TypedNext DEF Returns
<1>2. ASSUME NEW o \in Object, archive_builder_new_u64(o) \/ archive_builder_new_u128(o)
      PROVE  TypeOK'
  <2>1. {"builder_u64", "builder_u128"} \subseteq Kinds
    BY DEF Kinds, Builders
  <2> QED
    BY <1>0, <1>2, <2>1, LibraryMemory, HostMemory, TypedNext
       DEF archive_builder_new_u64, archive_builder_new_u128
<1>4. ASSUME NEW o \in Object, update_builder_internal(o)
      PROVE  TypeOK'
  BY <1>0, <1>4, TypedNext DEF update_builder_internal, Uses, Misuse
<1>5. ASSUME NEW o \in Object, HostFreesHashes(o)
      PROVE  TypeOK'
  BY <1>0, <1>5, TypedNext DEF HostFreesHashes
<1>6. ASSUME NEW o \in Object, NEW kind \in Builders, archive_builder_free(o, kind)
      PROVE  TypeOK'
  BY <1>0, <1>6, TypedNext DEF archive_builder_free, Uses, Misuse
<1>7. ASSUME NEW o \in Object, NEW kind \in Builders, BuildBegins(o, kind)
      PROVE  TypeOK'
  <2>1. call' \in CallType
    BY <1>7, <1>12, Calls DEF BuildBegins
  <2> QED
    BY <1>0, <1>7, <2>1, TypedNext DEF BuildBegins, Uses, Misuse
<1>8. ASSUME NEW o \in Object, NEW kind \in Kinds, NEW errors,
             GivesOrFails(o, kind, errors)
      PROVE  TypeOK'
  BY <1>0, <1>8, LibraryMemory, TypedNext DEF GivesOrFails, Gives
<1>9. ASSUME NEW o \in Object, NEW kind \in Kinds,
             TakesBack(o, kind, Allocated(o, kind))
      PROVE  TypeOK'
  BY <1>0, <1>9, TypedNext DEF TakesBack, Uses, Misuse
<1>10. ASSUME NEW o \in Object, NEW fn \in {"verify", "test"}, VerifyBegins(o, fn)
       PROVE  TypeOK'
  <2>1. call' \in CallType
    BY <1>10, <1>12, Calls DEF VerifyBegins
  <2> QED
    BY <1>0, <1>10, <2>1, HostMemory, TypedNext DEF VerifyBegins
<1>11. {"data", "manifest", "processed", "seek"} \subseteq Kinds
  BY DEF Kinds
<1> QED
  BY <1>1, <1>2, <1>4, <1>5, <1>6, <1>7, <1>8, <1>9, <1>10, <1>11 DEF CallStep

LEMMA ArrayTyped ==
  ASSUME NEW o \in Object, heap \subseteq Allocation, misuse \subseteq Misuse,
         GetChunks(o) \/ FreeChunks(o)
  PROVE  heap' \subseteq Allocation /\ misuse' \subseteq Misuse
<1>1. UserDataOf(o) \in Misuse
  BY DEF UserDataOf, Misuse
<1>2. heap' \subseteq Allocation
  BY HostMemory DEF GetChunks, FreeChunks
<1> QED
  BY <1>1, <1>2 DEF GetChunks, FreeChunks, Uses

LEMMA ReturnTyped ==
  ASSUME TypeOK, call.fn = "build", NEW s, NEW out, BuildReturns(s, out), UNCHANGED io,
         \/ out = {}
         \/ \E o \in Object : out = Allocated(o, "data")
  PROVE  TypeOK'
<1>1. /\ heap \subseteq Allocation /\ given \subseteq Object \X Kinds
      /\ call \in CallType /\ io \in [Object -> IoType] /\ misuse \subseteq Misuse
  BY Typed
<1>2. "data" \in Kinds
  BY DEF Kinds
<1>3. /\ out \subseteq Allocation
      /\ \A a \in out : a[1] \in Object /\ a[2] \in Kinds
  BY <1>2, LibraryMemory
<1>4. heap' \subseteq Allocation
  BY <1>1, <1>3 DEF BuildReturns
<1>5. given' \subseteq Object \X Kinds
  BY <1>1, <1>3 DEF BuildReturns
<1>6. misuse' \subseteq Misuse
  BY <1>1 DEF BuildReturns, Uses, Misuse
<1>7. call' \in CallType
  BY DEF BuildReturns, CallType, Idle
<1> QED
  BY <1>1, <1>4, <1>5, <1>6, <1>7, TypedNext

LEMMA InCallTyped ==
  ASSUME TypeOK, InCallStep
  PROVE  TypeOK'
<1>0. /\ heap \subseteq Allocation /\ given \subseteq Object \X Kinds
      /\ call \in CallType /\ io \in [Object -> IoType] /\ misuse \subseteq Misuse
  BY Typed
<1>00. Batches \in 0..Batches /\ \A n \in 0..Batches : n > 0 => n - 1 \in 0..Batches
  BY InterfaceAssumption
<1>1. ASSUME Sample PROVE TypeOK'
  <2>1. call.obj \in Object /\ call.left - 1 \in 0..Batches
    BY <1>0, <1>00, <1>1, CallCases DEF Sample, Building
  <2>2. heap' \subseteq Allocation /\ misuse' \subseteq Misuse
    BY <1>0, <1>1, <2>1, ArrayTyped DEF Sample
  <2>3. call' = [fn |-> "build", obj |-> call.obj, kind |-> call.kind, at |-> "samples",
                 left |-> call.left - 1]
    BY <1>0, <1>1, CallCases DEF Sample, Building
  <2>4. call' \in CallType
    BY <1>0, <1>1, <2>1, <2>3, CallCases DEF Sample, Building, CallType
  <2> QED
    BY <1>0, <1>1, <2>2, <2>4, TypedNext DEF Sample
<1>2. ASSUME SampleCopied PROVE TypeOK'
  <2>1. call.obj \in Object
    BY <1>0, <1>2, CallCases DEF SampleCopied, Building
  <2> QED
    BY <1>0, <1>2, <2>1, ArrayTyped, TypedNext DEF SampleCopied
<1>3. ASSUME CompressBegins PROVE TypeOK'
  <2>1. call.obj \in Object /\ call.left \in 0..Batches /\ call.kind \in Builders
    BY <1>0, <1>3, CallCases DEF CompressBegins, Building
  <2>2. call' = [fn |-> "build", obj |-> call.obj, kind |-> call.kind, at |-> "compress",
                 left |-> call.left]
    BY <1>0, <1>3, CallCases DEF CompressBegins, Building
  <2>3. io' \in [Object -> IoType]
    BY <1>0, <1>00, <1>3, <2>1, Ios DEF CompressBegins
  <2>4. misuse' \subseteq Misuse
    BY <1>0, <1>3 DEF CompressBegins, Uses, Misuse
  <2>5. call' \in CallType
    BY <2>1, <2>2 DEF CallType
  <2> QED
    BY <1>0, <1>3, <2>3, <2>4, <2>5, TypedNext DEF CompressBegins
<1>4. ASSUME NEW err, SampleFails(err) PROVE TypeOK'
  BY <1>4, ReturnTyped DEF SampleFails, Building
<1>5. ASSUME TakesChunks PROVE TypeOK'
  <2>1. call.obj \in Object /\ call.left - 1 \in 0..Batches
    BY <1>0, <1>00, <1>5, CallCases DEF TakesChunks
  <2>2. heap' \subseteq Allocation /\ misuse' \subseteq Misuse
    BY <1>0, <1>5, <2>1, ArrayTyped DEF TakesChunks
  <2>3. call' = [fn |-> call.fn, obj |-> call.obj, left |-> call.left - 1]
    BY <1>0, <1>5, CallCases DEF TakesChunks
  <2>4. call' \in CallType
    BY <1>5, <2>1, <2>3 DEF TakesChunks, CallType
  <2> QED
    BY <1>0, <1>5, <2>2, <2>4, TypedNext DEF TakesChunks
<1>6. ASSUME ChunksDropped PROVE TypeOK'
  BY <1>0, <1>6, TypedNext DEF ChunksDropped, Uses, Misuse
<1>7. ASSUME NEW s, VerifyReturns(s) PROVE TypeOK'
  <2>1. Idle \in CallType
    BY DEF CallType, Idle
  <2> QED
    BY <1>0, <1>7, <2>1, TypedNext DEF VerifyReturns
<1>8. ASSUME NEW o \in Object, WorkerFails(o) PROVE TypeOK'
  BY <1>8, ReturnTyped DEF WorkerFails, Compressing, Building
<1>9. ASSUME NEW o \in Object, CompressFails(o) PROVE TypeOK'
  <2>1. call' \in CallType /\ misuse' \subseteq Misuse
    BY <1>0, <1>9 DEF CompressFails, BuildReturns, Uses, Misuse, CallType, Idle
  <2> QED
    BY <1>0, <1>9, <2>1, Ios, TypedNext DEF CompressFails, BuildReturns
<1>10. ASSUME NEW o \in Object, CompressDone(o) PROVE TypeOK'
  <2>1. call.obj \in Object /\ call.left \in 0..Batches /\ call.kind \in Builders
    BY <1>0, <1>10, CallCases DEF CompressDone, Compressing, Building
  <2>2. call' = [fn |-> "build", obj |-> call.obj, kind |-> call.kind, at |-> "flush",
                 left |-> call.left]
    BY <1>0, <1>10, CallCases DEF CompressDone, Compressing, Building
  <2>3. misuse' \subseteq Misuse
    BY <1>0, <1>10 DEF CompressDone, Uses, Misuse
  <2>4. call' \in CallType
    BY <2>1, <2>2 DEF CallType
  <2>5. io' \in [Object -> IoType]
    BY <1>0, <1>10, Ios DEF CompressDone
  <2> QED
    BY <1>0, <1>10, <2>3, <2>4, <2>5, TypedNext DEF CompressDone
<1>11. ASSUME NEW o \in Object, handle_build_result(o) PROVE TypeOK'
  BY <1>11, ReturnTyped DEF handle_build_result, Building
<1> QED
  BY <1>1, <1>2, <1>3, <1>4, <1>5, <1>6, <1>7, <1>8, <1>9, <1>10, <1>11 DEF InCallStep

LEMMA IoTyped ==
  ASSUME TypeOK, IoStep
  PROVE  TypeOK'
<1>0. /\ heap \subseteq Allocation /\ given \subseteq Object \X Kinds
      /\ call \in CallType /\ io \in [Object -> IoType] /\ misuse \subseteq Misuse
  BY Typed
<1>1. ASSUME NEW o \in Object, IoRead(o) PROVE TypeOK'
  <2>1. io[o] = [on |-> "running", left |-> io[o].left] /\ io[o].left - 1 \in 0..Batches
    BY <1>0, <1>1, InterfaceAssumption DEF IoRead, Running, IoType
  <2>2. io' \in [Object -> IoType]
    BY <1>0, <1>1, <2>1, Ios DEF IoRead
  <2>3. heap' \subseteq Allocation /\ misuse' \subseteq Misuse
    BY <1>0, <1>1, ArrayTyped DEF IoRead
  <2> QED
    BY <1>0, <1>1, <2>2, <2>3, TypedNext DEF IoRead
<1>2. ASSUME NEW o \in Object, IoCopied(o) PROVE TypeOK'
  BY <1>0, <1>2, ArrayTyped, TypedNext DEF IoCopied
<1>3. ASSUME NEW o \in Object, IoWrite(o) PROVE TypeOK'
  BY <1>0, <1>3, TypedNext DEF IoWrite, Uses, UserDataOf, Misuse
<1>4. ASSUME NEW o \in Object, NEW outcome \in {"done", "Error", "Cancelled"},
             IoEnds(o, outcome)
      PROVE  TypeOK'
  BY <1>0, <1>4, Ios, TypedNext DEF IoEnds
<1> QED
  BY <1>1, <1>2, <1>3, <1>4 DEF IoStep

LEMMA TypeStep ==
  ASSUME TypeOK, [Next]_vars
  PROVE  TypeOK'
<1>1. CASE UNCHANGED vars
  BY <1>1 DEF TypeOK, vars
<1> QED
  BY <1>1, NextIsStep, CallTyped, InCallTyped, IoTyped

(* Every variable keeps its type, and nothing is misused in a way that has  *)
(* no name in the model.                                                    *)
THEOREM TypeCorrect == Spec => []TypeOK
BY TypeInit, TypeStep, PTL DEF Spec
-----------------------------------------------------------------------------
(***************************************************************************)
(* Ownership.                                                              *)
(***************************************************************************)

Harmless == {"hashes", "late user_data"}
HeldIn(G) == UNION {Allocated(g[1], g[2]) : g \in G}
Held == HeldIn(given)
Library(h) == {a \in h : a[2] # "host"}

(* What the host holds are different objects, none of them that of the      *)
(* current call; user_data lives as long as what may use it.                *)
OwnerInv ==
  /\ misuse \subseteq Harmless
  /\ Library(heap) = Held \cup Kept
  /\ \A g, h \in given : g[1] = h[1] => g = h
  /\ \A g \in given : g[2] \in Builders => Context(g[1]) \in heap
  /\ call # Idle => Context(call.obj) \in heap /\ \A g \in given : g[1] # call.obj

LEMMA OwnerInit == Init => OwnerInv
BY DEF Init, OwnerInv, Library, Held, HeldIn, Kept, Idle

LEMMA HeldWith ==
  ASSUME NEW G, NEW o, NEW kind
  PROVE  HeldIn(G \cup {<<o, kind>>}) = HeldIn(G) \cup Allocated(o, kind)
<1> DEFINE more == G \cup {<<o, kind>>}
<1>1. ASSUME NEW a
      PROVE  /\ a \in HeldIn(G) <=> \E g \in G : a \in Allocated(g[1], g[2])
             /\ a \in HeldIn(more) <=> \E g \in more : a \in Allocated(g[1], g[2])
  BY DEF HeldIn
<1>2. ASSUME NEW a
      PROVE  (\E g \in more : a \in Allocated(g[1], g[2]))
               <=> (\E g \in G : a \in Allocated(g[1], g[2])) \/ a \in Allocated(o, kind)
  <2>1. <<o, kind>>[1] = o /\ <<o, kind>>[2] = kind
    OBVIOUS
  <2> QED
    BY <2>1
<1> HIDE DEF more
<1>3. \A a : a \in HeldIn(more) <=> a \in HeldIn(G) \/ a \in Allocated(o, kind)
  BY <1>1, <1>2
<1> QED
  BY <1>3 DEF more

LEMMA Owned ==
  ASSUME TypeOK, OwnerInv
  PROVE  /\ \A g \in given : /\ g[1] \in Object /\ g[2] \in Kinds /\ g = <<g[1], g[2]>>
                             /\ Allocated(g[1], g[2]) \subseteq heap
         /\ call.fn = "build" => <<call.obj, call.kind, "builder">> \in heap
         /\ \A o \in Object : Fresh(o) =>
              (\A g \in given : g[1] # o) /\ (call # Idle => call.obj # o)
<1>1. given \subseteq Object \X Kinds
  BY Typed
<1>2. ASSUME NEW g \in given
      PROVE  /\ g[1] \in Object /\ g[2] \in Kinds /\ g = <<g[1], g[2]>>
             /\ Allocated(g[1], g[2]) \subseteq heap
  <2>1. Allocated(g[1], g[2]) \subseteq Held
    BY DEF Held, HeldIn
  <2> QED
    BY <1>1, <2>1 DEF OwnerInv, Library
<1>3. call.fn = "build" => <<call.obj, call.kind, "builder">> \in heap
  BY DEF OwnerInv, Library, Kept
<1>4. ASSUME NEW o \in Object, Fresh(o), NEW g \in given
      PROVE  g[1] # o
  <2>1. PICK a \in Allocated(g[1], g[2]) : a[1] = g[1]
    BY <1>2, LibraryMemory
  <2> QED
    BY <1>2, <1>4, <2>1 DEF Fresh
<1>5. ASSUME NEW o \in Object, Fresh(o), call # Idle
      PROVE  call.obj # o
  <2>1. Context(call.obj)[1] = call.obj
    BY DEF Context
  <2> QED
    BY <1>5, <2>1 DEF OwnerInv, Fresh
<1> QED
  BY <1>2, <1>3, <1>4, <1>5

(* The objects of Held are those that were given.                          *)
LEMMA HeldObjects ==
  ASSUME TypeOK
  PROVE  \A a \in Held : \E g \in given : a \in Allocated(g[1], g[2]) /\ a[1] = g[1]
                                          /\ a[2] = g[2] /\ a[2] # "host"
<1>1. given \subseteq Object \X Kinds
  BY Typed
<1> SUFFICES ASSUME NEW a \in Held
             PROVE  \E g \in given : a \in Allocated(g[1], g[2]) /\ a[1] = g[1]
                                     /\ a[2] = g[2] /\ a[2] # "host"
  OBVIOUS
<1>2. PICK g \in given : a \in Allocated(g[1], g[2])
  BY DEF Held, HeldIn
<1>3. g[1] \in Object /\ g[2] \in Kinds
  BY <1>1
<1> QED
  BY <1>2, <1>3, LibraryMemory

(* Without one of them.                                                    *)
LEMMA HeldWithout ==
  ASSUME TypeOK, OwnerInv, NEW o \in Object, NEW kind \in Kinds,
         <<o, kind>> \in given, given' = given \ {<<o, kind>>}
  PROVE  Held' = Held \ Allocated(o, kind) /\ \A g \in given' : g[1] # o
<1>1. \A g \in given' : g[1] # o
  BY DEF OwnerInv
<1>2. ASSUME NEW g \in given'
      PROVE  Allocated(g[1], g[2]) \cap Allocated(o, kind) = {}
  BY <1>1, Owned, LibraryMemory
<1>3. Held = HeldIn(given') \cup Allocated(o, kind)
  <2>1. given = given' \cup {<<o, kind>>}
    OBVIOUS
  <2> QED
    BY <2>1, HeldWith DEF Held
<1>4. Held' = HeldIn(given')
  BY DEF Held, HeldIn
<1>5. HeldIn(given') \cap Allocated(o, kind) = {}
  BY <1>2 DEF HeldIn
<1> QED
  BY <1>1, <1>3, <1>4, <1>5

(* An object is given.                                                     *)
LEMMA Giving ==
  ASSUME TypeOK, OwnerInv, call = Idle, call' = Idle, misuse' = misuse,
         NEW o \in Object, NEW kind \in Kinds, Fresh(o),
         heap \subseteq heap', Library(heap)' = Library(heap) \cup Allocated(o, kind),
         kind \in Builders => Context(o) \in heap',
         given' = given \cup {<<o, kind>>}
  PROVE  OwnerInv'
<1>1. Held' = Held \cup Allocated(o, kind)
  BY HeldWith DEF Held, HeldIn
<1>3. Kept' = Kept
  BY DEF Kept
<1>4. \A g \in given : g[1] # o
  BY Owned
<1>5. \A g, h \in given' : g[1] = h[1] => g = h
  BY <1>4 DEF OwnerInv
<1>6. \A g \in given' : g[2] \in Builders => Context(g[1]) \in heap'
  BY DEF OwnerInv
<1> QED
  BY <1>1, <1>3, <1>5, <1>6 DEF OwnerInv

(* An object is taken back, with what the host lent for it.                *)
LEMMA Taking ==
  ASSUME TypeOK, OwnerInv, call = Idle, call' = Idle,
         NEW o \in Object, NEW kind \in Kinds, <<o, kind>> \in given,
         Library(heap)' = Library(heap) \ Allocated(o, kind),
         \A p \in Object \ {o} : Context(p) \in heap => Context(p) \in heap',
         given' = given \ {<<o, kind>>},
         Uses(Allocated(o, kind), "free")
  PROVE  OwnerInv'
<1>1. \A g \in given' : g[1] # o
  BY DEF OwnerInv
<1>2. Allocated(o, kind) \subseteq heap
  BY Owned
<1>3. misuse' = misuse
  BY <1>2 DEF Uses
<1>5. Held' = Held \ Allocated(o, kind)
  BY HeldWithout
<1>6. Kept = {} /\ Kept' = {}
  BY DEF Kept, Idle
<1>7. \A g \in given' : g[2] \in Builders => Context(g[1]) \in heap'
  BY <1>1, Owned DEF OwnerInv
<1> QED
  BY <1>3, <1>5, <1>6, <1>7, HeldWithout DEF OwnerInv

(* Only memory of the host that no user_data is in comes or goes.          *)
LEMMA Lending ==
  ASSUME TypeOK, OwnerInv, given' = given, Kept' = Kept, misuse' \subseteq Harmless,
         Library(heap)' = Library(heap),
         \A o \in Object : Context(o) \in heap => Context(o) \in heap',
         call' # Idle => call # Idle /\ call'.obj = call.obj
  PROVE  OwnerInv'
<1>1. Held' = Held
  BY DEF Held
<1>2. \A g \in given : g[1] \in Object
  BY Owned
<1>3. call # Idle => call.obj \in Object
  BY Typed, CallCases
<1> QED
  BY <1>1, <1>2, <1>3 DEF OwnerInv

(* A build takes the handle of its builder and keeps the builder.           *)
LEMMA Beginning ==
  ASSUME TypeOK, OwnerInv, NEW o \in Object, NEW kind \in Builders, BuildBegins(o, kind)
  PROVE  OwnerInv'
<1> DEFINE handle == <<o, kind, "handle">>
           builder == <<o, kind, "builder">>
<1>1. /\ call = Idle /\ <<o, kind>> \in given /\ given' = given \ {<<o, kind>>}
      /\ heap' = heap \ {handle} /\ kind \in Kinds
  BY DEF BuildBegins, Kinds
<1>2. Allocated(o, kind) = {handle, builder} /\ handle # builder
  BY BuilderMemory
<1>3. Allocated(o, kind) \subseteq heap
  BY <1>1, Owned
<1>4. misuse' = misuse
  BY <1>2, <1>3 DEF BuildBegins, Uses
<1>5. /\ Held' = Held \ Allocated(o, kind)
      /\ \A g \in given' : g[1] # o
  BY <1>1, HeldWithout
<1>6. Kept = {} /\ Kept' = {builder}
  BY <1>1 DEF Kept, Idle, BuildBegins
<1>7. Library(heap)' = Library(heap) \ {handle}
  BY <1>1 DEF Library
<1>8. Library(heap)' = Held' \cup Kept'
  <2>1. builder \in Held /\ handle \in Held
    <3>1. Allocated(o, kind) \subseteq Held
      <4>1. <<o, kind>>[1] = o /\ <<o, kind>>[2] = kind
        OBVIOUS
      <4> QED
        BY <1>1, <4>1 DEF Held, HeldIn
    <3> QED
      BY <1>2, <3>1
  <2> QED
    BY <1>2, <1>5, <1>6, <1>7, <2>1 DEF OwnerInv
<1>9. \A g \in given : g[2] \in Builders => Context(g[1]) \in heap'
  <2>1. \A p \in Object : Context(p) # handle
    <3>1. kind # "host"
      BY DEF Builders
    <3> QED
      BY <3>1 DEF Context
  <2> QED
    BY <1>1, <2>1, Owned DEF OwnerInv
<1>10. Context(o) \in heap'
  BY <1>1, <1>9
<1>11. call'.obj = o
  BY DEF BuildBegins
<1> QED
  BY <1>1, <1>4, <1>5, <1>8, <1>9, <1>10, <1>11 DEF OwnerInv

(* A build that ends drops its builder, and gives the host all or nothing.  *)
LEMMA Returning ==
  ASSUME TypeOK, OwnerInv, call.fn = "build", NEW s, NEW out, BuildReturns(s, out),
         \/ out = {}
         \/ \E o \in Object : Fresh(o) /\ out = Allocated(o, "data")
  PROVE  OwnerInv'
<1> DEFINE builder == <<call.obj, call.kind, "builder">>
<1>1. /\ builder \in heap /\ call # Idle /\ call' = Idle
      /\ heap' = (heap \ ({builder} \cup Borrowed(call.obj))) \cup out
      /\ given' = given \cup {<<a[1], a[2]>> : a \in out}
  BY Owned, Typed, CallCases DEF BuildReturns
<1>2. misuse' = misuse
  BY <1>1 DEF BuildReturns, Uses
<1>3. Kept = {builder} /\ Kept' = {}
  BY <1>1 DEF Kept, Idle
<1>4. /\ call.obj \in Object /\ call.kind \in Builders
      /\ call.kind # "host"
  BY <1>1, Typed, CallCases DEF Builders
<1>5. builder \notin Held
  BY <1>1, HeldObjects DEF OwnerInv
<1>6. \A a \in Borrowed(call.obj) : a[1] = call.obj /\ a[2] = "host"
  BY <1>4, HostMemory DEF Borrowed
<1>7. ASSUME NEW g \in given, g[2] \in Builders
      PROVE  Context(g[1]) \in heap'
  <2>1. Context(g[1])[1] = g[1] /\ Context(g[1])[2] = "host"
    BY DEF Context
  <2>2. Context(g[1]) # builder
    BY <1>4, <2>1
  <2> QED
    BY <1>1, <1>6, <1>7, <2>1, <2>2 DEF OwnerInv
<1>8. CASE out = {}
  <2>1. given' = given /\ Held' = Held
    BY <1>1, <1>8 DEF Held, HeldIn
  <2>2. Library(heap)' = Library(heap) \ {builder}
    BY <1>1, <1>6, <1>8 DEF Library
  <2> QED
    BY <1>1, <1>2, <1>3, <1>5, <1>7, <2>1, <2>2 DEF OwnerInv
<1>9. ASSUME NEW o \in Object, Fresh(o), out = Allocated(o, "data")
      PROVE  OwnerInv'
  <2>1. "data" \in Kinds /\ "data" \notin Builders
    BY DEF Kinds, Builders
  <2>2. given' = given \cup {<<o, "data">>}
    BY <1>1, <1>9, <2>1, LibraryMemory
  <2>3. Held' = Held \cup out
    BY <1>9, <2>2, HeldWith DEF Held
  <2>4. Library(heap)' = (Library(heap) \ {builder}) \cup out
    BY <1>1, <1>6, <1>9, <2>1, LibraryMemory DEF Library
  <2>5. \A g \in given : g[1] # o
    BY <1>9, Owned
  <2>6. \A g, h \in given' : g[1] = h[1] => g = h
    BY <2>2, <2>5 DEF OwnerInv
  <2>7. \A g \in given' : g[2] \in Builders => Context(g[1]) \in heap'
    BY <1>7, <2>1, <2>2
  <2> QED
    BY <1>1, <1>2, <1>3, <1>5, <2>3, <2>4, <2>6, <2>7 DEF OwnerInv
<1> QED
  BY <1>8, <1>9

(* An array of chunks comes or goes.                                       *)
LEMMA Arrays ==
  ASSUME TypeOK, OwnerInv, NEW o \in Object,
         \/ GetChunks(o) \/ FreeChunks(o)
         \/ heap' = heap \ {ChunkArray(o)} /\ misuse' = misuse,
         given' = given, Kept' = Kept, call' # Idle => call # Idle /\ call'.obj = call.obj
  PROVE  OwnerInv'
<1>1. \A p \in Object : Context(p) # ChunkArray(o)
  BY DEF Context, ChunkArray
<1>2. ChunkArray(o)[2] = "host"
  BY DEF ChunkArray
<1>3. /\ Library(heap)' = Library(heap)
      /\ \A p \in Object : Context(p) \in heap => Context(p) \in heap'
  BY <1>1, <1>2 DEF GetChunks, FreeChunks, Library
<1>4. misuse' \subseteq Harmless
  <2>1. CASE UserDataOf(o) = "late user_data"
    BY <2>1 DEF GetChunks, FreeChunks, Uses, OwnerInv, Harmless
  <2>2. CASE call # Idle /\ call.obj = o
    BY <2>2 DEF GetChunks, FreeChunks, Uses, OwnerInv
  <2> QED
    BY <2>1, <2>2 DEF UserDataOf
<1> QED
  BY <1>3, <1>4, Lending

LEMMA OwnerCallStep ==
  ASSUME TypeOK, OwnerInv, CallStep
  PROVE  OwnerInv'
<1>1. ASSUME NEW s, Returns(s) PROVE OwnerInv'
  BY <1>1 DEF Returns, OwnerInv, Held, HeldIn, Library, Kept
<1>2. ASSUME NEW o \in Object, archive_builder_new_u64(o) PROVE OwnerInv'
  <2>1. call' = Idle /\ "builder_u64" \in Kinds
    BY <1>2 DEF archive_builder_new_u64, Kinds, Builders
  <2>2. Library(heap)' = Library(heap) \cup Allocated(o, "builder_u64")
    BY <1>2, <2>1, HostMemory, LibraryMemory DEF archive_builder_new_u64, Library
  <2> QED
    BY <1>2, <2>1, <2>2, Giving DEF archive_builder_new_u64
<1>3. ASSUME NEW o \in Object, archive_builder_new_u128(o) PROVE OwnerInv'
  <2>1. call' = Idle /\ "builder_u128" \in Kinds
    BY <1>3 DEF archive_builder_new_u128, Kinds, Builders
  <2>2. Library(heap)' = Library(heap) \cup Allocated(o, "builder_u128")
    BY <1>3, <2>1, HostMemory, LibraryMemory DEF archive_builder_new_u128, Library
  <2> QED
    BY <1>3, <2>1, <2>2, Giving DEF archive_builder_new_u128
<1>4. ASSUME NEW o \in Object, update_builder_internal(o) PROVE OwnerInv'
  <2>1. PICK kind \in Builders : <<o, kind>> \in given /\ Uses(Allocated(o, kind), "builder")
    BY <1>4 DEF update_builder_internal
  <2>2. Allocated(o, kind) \subseteq heap
    BY <2>1, Owned
  <2>3. misuse' = misuse
    BY <2>1, <2>2 DEF Uses
  <2> QED
    BY <1>4, <2>3 DEF update_builder_internal, OwnerInv, Held, HeldIn, Library, Kept
<1>5. ASSUME NEW o \in Object, HostFreesHashes(o) PROVE OwnerInv'
  <2>1. /\ \A p \in Object : Context(p) # Hashes(o)
        /\ Hashes(o)[2] = "host"
    BY DEF Context, Hashes
  <2>2. Library(heap)' = Library(heap)
    BY <1>5, <2>1 DEF HostFreesHashes, Library
  <2>3. misuse' \subseteq Harmless /\ call' = call /\ Kept' = Kept
    BY <1>5 DEF HostFreesHashes, OwnerInv, Kept
  <2> QED
    BY <1>5, <2>1, <2>2, <2>3, Lending DEF HostFreesHashes
<1>6. ASSUME NEW o \in Object, NEW kind \in Builders, archive_builder_free(o, kind)
      PROVE  OwnerInv'
  <2>1. \A a \in Borrowed(o) : a[1] = o /\ a[2] = "host"
    BY HostMemory DEF Borrowed
  <2>2. kind \in Kinds /\ call' = Idle
    BY <1>6 DEF Kinds, archive_builder_free
  <2>3. Library(heap)' = Library(heap) \ Allocated(o, kind)
    BY <1>6, <2>1 DEF archive_builder_free, Library
  <2>4. \A p \in Object \ {o} :
          Context(p) \notin Allocated(o, kind) /\ Context(p) \notin Borrowed(o)
    <3>1. \A p : Context(p)[1] = p
      BY DEF Context
    <3> QED
      BY <2>1, <2>2, <3>1, LibraryMemory
  <2> QED
    BY <1>6, <2>2, <2>3, <2>4, Taking DEF archive_builder_free
<1>7. ASSUME NEW o \in Object, NEW kind \in Builders, BuildBegins(o, kind)
      PROVE  OwnerInv'
  BY <1>7, Beginning
<1>8. ASSUME NEW o \in Object, NEW kind \in {"manifest", "processed", "seek"}, NEW errors,
             GivesOrFails(o, kind, errors)
      PROVE  OwnerInv'
  <2>1. kind \in Kinds /\ kind \notin Builders
    BY DEF Kinds, Builders
  <2>2. CASE Gives(o, kind)
    <3>1. Library(heap)' = Library(heap) \cup Allocated(o, kind)
      BY <2>1, <2>2, LibraryMemory DEF Gives, Library
    <3> QED
      BY <1>8, <2>1, <2>2, <3>1, Giving DEF GivesOrFails, Gives
  <2>3. CASE UNCHANGED <<heap, given>>
    BY <1>8, <2>3 DEF GivesOrFails, OwnerInv, Held, HeldIn, Library, Kept
  <2> QED
    BY <1>8, <2>2, <2>3 DEF GivesOrFails
<1>9. ASSUME NEW o \in Object, NEW kind \in {"data", "manifest", "processed", "seek"},
             TakesBack(o, kind, Allocated(o, kind))
      PROVE  OwnerInv'
  <2>1. kind \in Kinds
    BY DEF Kinds
  <2>2. Library(heap)' = Library(heap) \ Allocated(o, kind)
    BY <1>9 DEF TakesBack, Library
  <2>3. \A p : Context(p) \notin Allocated(o, kind)
    <3>1. \A p : Context(p)[2] = "host"
      BY DEF Context
    <3> QED
      BY <2>1, <3>1, LibraryMemory
  <2> QED
    BY <1>9, <2>1, <2>2, <2>3, Taking DEF TakesBack
<1>10. ASSUME NEW o \in Object, NEW fn \in {"verify", "test"}, VerifyBegins(o, fn)
       PROVE  OwnerInv'
  <2>1. Context(o)[2] = "host"
    BY DEF Context
  <2>2. Library(heap)' = Library(heap)
    BY <1>10, <2>1 DEF VerifyBegins, Library
  <2>3. Kept' = Kept /\ Held' = Held
    BY <1>10 DEF VerifyBegins, Kept, Idle, Held, HeldIn
  <2>4. call'.obj = o /\ \A g \in given : g[1] # o
    BY <1>10, Owned DEF VerifyBegins
  <2> QED
    BY <1>10, <2>2, <2>3, <2>4 DEF VerifyBegins, OwnerInv
<1> QED
  BY <1>1, <1>2, <1>3, <1>4, <1>5, <1>6, <1>7, <1>8, <1>9, <1>10 DEF CallStep

LEMMA OwnerInCallStep ==
  ASSUME TypeOK, OwnerInv, InCallStep
  PROVE  OwnerInv'
<1>0. call \in CallType
  BY Typed
<1>1. ASSUME Sample PROVE OwnerInv'
  <2>1. call.obj \in Object /\ call # Idle /\ call'.obj = call.obj /\ Kept' = Kept
    BY <1>0, <1>1, CallCases DEF Sample, Building, Kept
  <2> QED
    BY <1>1, <2>1, Arrays DEF Sample
<1>2. ASSUME SampleCopied PROVE OwnerInv'
  <2>1. call.obj \in Object /\ call # Idle /\ call' = call /\ Kept' = Kept
    BY <1>0, <1>2, CallCases DEF SampleCopied, Building, Kept
  <2> QED
    BY <1>2, <2>1, Arrays DEF SampleCopied
<1>3. ASSUME CompressBegins PROVE OwnerInv'
  <2>1. call # Idle /\ call'.obj = call.obj /\ Kept' = Kept
    BY <1>0, <1>3, CallCases DEF CompressBegins, Building, Kept
  <2>2. misuse' \subseteq Harmless
    BY <1>3 DEF CompressBegins, Uses, OwnerInv, Harmless
  <2> QED
    BY <1>3, <2>1, <2>2, Lending DEF CompressBegins, Library
<1>4. ASSUME NEW err, SampleFails(err) PROVE OwnerInv'
  BY <1>4, Returning DEF SampleFails, Building
<1>5. ASSUME TakesChunks PROVE OwnerInv'
  <2>1. call.obj \in Object /\ call # Idle /\ call'.obj = call.obj /\ Kept' = Kept
    BY <1>0, <1>5, CallCases DEF TakesChunks, Kept
  <2> QED
    BY <1>5, <2>1, Arrays DEF TakesChunks
<1>6. ASSUME ChunksDropped PROVE OwnerInv'
  <2>1. call.obj \in Object /\ call # Idle /\ call' = call /\ Kept' = Kept
    BY <1>0, <1>6, CallCases DEF ChunksDropped, Kept
  <2>2. misuse' = misuse
    BY <1>6 DEF ChunksDropped, Uses
  <2> QED
    BY <1>6, <2>1, <2>2, Arrays DEF ChunksDropped
<1>7. ASSUME NEW s, VerifyReturns(s) PROVE OwnerInv'
  <2>1. call # Idle /\ call' = Idle /\ Kept' = Kept /\ Held' = Held
    BY <1>0, <1>7, CallCases DEF VerifyReturns, Kept, Idle, Held, HeldIn
  <2>2. Context(call.obj)[1] = call.obj /\ Context(call.obj)[2] = "host"
    BY DEF Context
  <2>3. Library(heap)' = Library(heap)
    BY <1>7, <2>2 DEF VerifyReturns, Library
  <2>4. ASSUME NEW g \in given, g[2] \in Builders PROVE Context(g[1]) \in heap'
    <3>1. Context(g[1])[1] = g[1]
      BY DEF Context
    <3> QED
      BY <1>7, <2>1, <2>2, <2>4, <3>1 DEF VerifyReturns, OwnerInv
  <2> QED
    BY <1>7, <2>1, <2>3, <2>4 DEF VerifyReturns, OwnerInv
<1>8. ASSUME NEW o \in Object, WorkerFails(o) PROVE OwnerInv'
  BY <1>8, Returning DEF WorkerFails, Compressing, Building
<1>9. ASSUME NEW o \in Object, CompressFails(o) PROVE OwnerInv'
  BY <1>9, Returning DEF CompressFails, Compressing, Building
<1>10. ASSUME NEW o \in Object, CompressDone(o) PROVE OwnerInv'
  <2>1. call # Idle /\ call.obj = o /\ call'.obj = call.obj /\ Kept' = Kept
    BY <1>0, <1>10, CallCases DEF CompressDone, Compressing, Building, Kept
  <2>2. misuse' = misuse
    BY <1>10, <2>1 DEF CompressDone, Uses, OwnerInv
  <2> QED
    BY <1>10, <2>1, <2>2, Lending DEF CompressDone, OwnerInv, Library
<1>11. ASSUME NEW o \in Object, handle_build_result(o) PROVE OwnerInv'
  BY <1>11, Returning DEF handle_build_result, Building
<1> QED
  BY <1>1, <1>2, <1>3, <1>4, <1>5, <1>6, <1>7, <1>8, <1>9, <1>10, <1>11 DEF InCallStep

LEMMA OwnerIoStep ==
  ASSUME TypeOK, OwnerInv, IoStep
  PROVE  OwnerInv'
<1>1. ASSUME NEW o \in Object, IoRead(o) \/ IoCopied(o) PROVE OwnerInv'
  <2>1. call' = call /\ given' = given /\ Kept' = Kept
    BY <1>1 DEF IoRead, IoCopied, Kept
  <2> QED
    BY <1>1, <2>1, Arrays DEF IoRead, IoCopied
<1>2. ASSUME NEW o \in Object, IoWrite(o) PROVE OwnerInv'
  <2>1. misuse' \subseteq Harmless
    BY <1>2 DEF IoWrite, Uses, UserDataOf, OwnerInv, Harmless
  <2> QED
    BY <1>2, <2>1, Lending DEF IoWrite, Kept, Library
<1>3. ASSUME NEW o \in Object, NEW outcome, IoEnds(o, outcome) PROVE OwnerInv'
  BY <1>3 DEF IoEnds, OwnerInv, Held, HeldIn, Library, Kept
<1> QED
  BY <1>1, <1>2, <1>3 DEF IoStep

LEMMA OwnerStep ==
  ASSUME TypeOK, OwnerInv, [Next]_vars
  PROVE  OwnerInv'
<1>1. CASE UNCHANGED vars
  BY <1>1 DEF vars, OwnerInv, Held, HeldIn, Library, Kept
<1> QED
  BY <1>1, NextIsStep, OwnerCallStep, OwnerInCallStep, OwnerIoStep

LEMMA OwnerInvariant == Spec => [](TypeOK /\ OwnerInv)
BY TypeInit, TypeStep, OwnerInit, OwnerStep, PTL DEF Spec

(* What the library has allocated is what the host holds and what the       *)
(* running build works with: nothing is lost, however calls end.            *)
THEOREM NothingLost == Spec => []NothingLeaks
<1>1. OwnerInv => NothingLeaks
  BY DEF OwnerInv, NothingLeaks, Library, Held, HeldIn
<1> QED
  BY <1>1, OwnerInvariant, PTL
-----------------------------------------------------------------------------
(***************************************************************************)
(* The host's arrays, and failures.                                        *)
(***************************************************************************)

(* Behind a build that compresses, only a running I/O thread has an array.  *)
ArrayInv ==
  /\ ArraysComeBack
  /\ \A o \in Object : /\ call.fn = "build" /\ call.at # "samples" /\ call.obj = o
                       /\ ~ Running(o)
                      => ChunkArray(o) \notin heap

LEMMA ArrayNames ==
  ASSUME NEW o \in Object, NEW p \in Object
  PROVE  /\ ChunkArray(o) # Context(p) /\ ChunkArray(o) # Hashes(p)
         /\ o # p => ChunkArray(o) # ChunkArray(p)
         /\ \A kind \in Kinds : ChunkArray(o) \notin Allocated(p, kind)
<1>1. \A kind \in Kinds : kind # "host"
  BY DEF Kinds, Builders
<1>2. ChunkArray(o)[2] = "host"
  BY DEF ChunkArray
<1> QED
  BY <1>1, <1>2, LibraryMemory DEF ChunkArray, Context, Hashes

(* No array is made, and a call that ends had none.                        *)
LEMMA NoArray ==
  ASSUME TypeOK, ArrayInv, UNCHANGED io,
         \A o \in Object : ChunkArray(o) \in heap' => ChunkArray(o) \in heap,
         \/ call = Idle
         \/ call' = call
         \/ call' = Idle /\ ChunkArray(call.obj) \notin heap'
         \/ call' = Idle /\ call.fn = "build" /\ call.at # "samples"
  PROVE  ArrayInv'
BY Typed, CallCases DEF ArrayInv, ArraysComeBack, Running, Idle

LEMMA ArrayCallStep ==
  ASSUME TypeOK, ArrayInv, CallStep
  PROVE  ArrayInv'
<1>1. UNCHANGED io /\ call = Idle
  BY DEF CallStep, Returns, archive_builder_new_u64, archive_builder_new_u128,
     update_builder_internal, HostFreesHashes, archive_builder_free, BuildBegins,
     GivesOrFails, TakesBack, VerifyBegins
<1>2. ASSUME NEW p \in Object, ChunkArray(p) \in heap'
      PROVE  ChunkArray(p) \in heap
  <2>1. ASSUME NEW o \in Object, archive_builder_new_u64(o) \/ archive_builder_new_u128(o)
        PROVE  ChunkArray(p) \in heap
    <3>1. "builder_u64" \in Kinds /\ "builder_u128" \in Kinds
      BY DEF Kinds, Builders
    <3> QED
      BY <1>2, <2>1, <3>1, ArrayNames DEF archive_builder_new_u64, archive_builder_new_u128
  <2>2. ASSUME NEW o \in Object, NEW kind \in {"manifest", "processed", "seek"}, NEW errors,
               GivesOrFails(o, kind, errors)
        PROVE  ChunkArray(p) \in heap
    <3>1. kind \in Kinds
      BY DEF Kinds
    <3> QED
      BY <1>2, <2>2, <3>1, ArrayNames DEF GivesOrFails, Gives
  <2>3. ASSUME NEW o \in Object, NEW fn, VerifyBegins(o, fn)
        PROVE  ChunkArray(p) \in heap
    BY <1>2, <2>3, ArrayNames DEF VerifyBegins
  <2> QED
    BY <1>2, <2>1, <2>2, <2>3 DEF CallStep, Returns, update_builder_internal,
       HostFreesHashes, archive_builder_free, BuildBegins, TakesBack
<1> QED
  BY <1>1, <1>2, NoArray

LEMMA ArrayReturn ==
  ASSUME TypeOK, NEW s, NEW out, BuildReturns(s, out), NEW o \in Object,
         \/ out = {}
         \/ \E p \in Object : out = Allocated(p, "data"),
         ChunkArray(o) \in heap'
  PROVE  ChunkArray(o) \in heap
<1>1. "data" \in Kinds
  BY DEF Kinds
<1> QED
  BY <1>1, ArrayNames DEF BuildReturns

LEMMA ArrayInCallStep ==
  ASSUME TypeOK, ArrayInv, InCallStep
  PROVE  ArrayInv'
<1>0. call \in CallType /\ io \in [Object -> IoType]
  BY Typed
<1>1. ASSUME Sample PROVE ArrayInv'
  <2>1. /\ call # Idle /\ call.at = "samples" /\ call.obj \in Object
        /\ call' = [fn |-> "build", obj |-> call.obj, kind |-> call.kind, at |-> "samples",
                    left |-> call.left - 1]
    BY <1>0, <1>1, CallCases DEF Sample, Building
  <2>2. call' # Idle /\ call'.obj = call.obj /\ call'.at = "samples"
    BY <2>1 DEF Idle
  <2>3. \A o \in Object : ChunkArray(o) \in heap' => ChunkArray(o) \in heap \/ o = call.obj
    BY <1>1, <2>1, ArrayNames DEF Sample, GetChunks
  <2> QED
    BY <1>1, <2>1, <2>2, <2>3 DEF Sample, ArrayInv, ArraysComeBack, Running
<1>2. ASSUME SampleCopied PROVE ArrayInv'
  BY <1>2, NoArray DEF SampleCopied, FreeChunks
<1>3. ASSUME CompressBegins PROVE ArrayInv'
  <2>1. /\ call # Idle /\ call.obj \in Object
        /\ call' = [fn |-> "build", obj |-> call.obj, kind |-> call.kind, at |-> "compress",
                    left |-> call.left]
    BY <1>0, <1>3, CallCases DEF CompressBegins, Building
  <2>2. call' # Idle /\ call'.obj = call.obj
    BY <2>1 DEF Idle
  <2>3. io'[call.obj].on = "running"
    BY <1>0, <1>3, <2>1 DEF CompressBegins
  <2>4. \A o \in Object : o # call.obj => io'[o] = io[o]
    BY <1>0, <1>3 DEF CompressBegins
  <2> QED
    BY <1>3, <2>1, <2>2, <2>3, <2>4 DEF CompressBegins, ArrayInv, ArraysComeBack, Running
<1>4. ASSUME NEW err, SampleFails(err) PROVE ArrayInv'
  <2>1. call' = Idle /\ call.obj \in Object
    BY <1>0, <1>4, CallCases DEF SampleFails, Building, BuildReturns
  <2>2. \A o \in Object : ChunkArray(o) \in heap' => ChunkArray(o) \in heap
    BY <1>4, ArrayReturn DEF SampleFails
  <2> QED
    BY <1>4, <2>1, <2>2, NoArray DEF SampleFails
<1>5. ASSUME TakesChunks PROVE ArrayInv'
  <2>1. /\ call # Idle /\ call.obj \in Object
        /\ call' = [fn |-> call.fn, obj |-> call.obj, left |-> call.left - 1]
        /\ call.fn \in {"verify", "test"}
    BY <1>0, <1>5, CallCases DEF TakesChunks
  <2>2. call' # Idle /\ call'.obj = call.obj /\ call'.fn # "build"
    BY <2>1 DEF Idle
  <2>3. \A o \in Object : ChunkArray(o) \in heap' => ChunkArray(o) \in heap \/ o = call.obj
    BY <1>5, <2>1, ArrayNames DEF TakesChunks, GetChunks
  <2> QED
    BY <1>5, <2>1, <2>2, <2>3 DEF TakesChunks, ArrayInv, ArraysComeBack, Running
<1>6. ASSUME ChunksDropped PROVE ArrayInv'
  BY <1>6, NoArray DEF ChunksDropped
<1>7. ASSUME NEW s, VerifyReturns(s) PROVE ArrayInv'
  BY <1>7, NoArray DEF VerifyReturns
<1>8. ASSUME NEW o \in Object, WorkerFails(o) PROVE ArrayInv'
  <2>1. \A p \in Object : ChunkArray(p) \in heap' => ChunkArray(p) \in heap
    BY <1>8, ArrayReturn DEF WorkerFails
  <2> QED
    BY <1>8, <2>1, NoArray DEF WorkerFails, Compressing, Building, BuildReturns
<1>9. ASSUME NEW o \in Object, CompressFails(o) PROVE ArrayInv'
  <2>1. \A p \in Object : ChunkArray(p) \in heap' => ChunkArray(p) \in heap
    BY <1>9, ArrayReturn DEF CompressFails
  <2>2. /\ call' = Idle /\ call.fn = "build" /\ call.at # "samples" /\ call.obj = o
        /\ ~ Running(o)
    BY <1>9 DEF CompressFails, Compressing, Building, BuildReturns, Running
  <2>3. \A p \in Object : p # o => io'[p] = io[p]
    BY <1>0, <1>9 DEF CompressFails
  <2>4. call # Idle
    BY <2>2 DEF Idle
  <2> QED
    BY <2>1, <2>2, <2>3, <2>4 DEF ArrayInv, ArraysComeBack, Running, Idle
<1>10. ASSUME NEW o \in Object, CompressDone(o) PROVE ArrayInv'
  <2>1. /\ call # Idle /\ call.fn = "build" /\ call.at # "samples" /\ call.obj = o
        /\ ~ Running(o)
        /\ call' = [fn |-> "build", obj |-> call.obj, kind |-> call.kind, at |-> "flush",
                    left |-> call.left]
    BY <1>0, <1>10, CallCases DEF CompressDone, Compressing, Building, Running
  <2>2. call' # Idle /\ call'.obj = o
    BY <2>1 DEF Idle
  <2>3. \A p \in Object : p # o => io'[p] = io[p]
    BY <1>0, <1>10 DEF CompressDone
  <2> QED
    BY <1>10, <2>1, <2>2, <2>3 DEF CompressDone, ArrayInv, ArraysComeBack, Running
<1>11. ASSUME NEW o \in Object, handle_build_result(o) PROVE ArrayInv'
  <2>1. \A p \in Object : ChunkArray(p) \in heap' => ChunkArray(p) \in heap
    BY <1>11, ArrayReturn DEF handle_build_result
  <2>2. UNCHANGED io /\ call' = Idle /\ call.fn = "build" /\ call.at # "samples"
    BY <1>11 DEF handle_build_result, Building, BuildReturns
  <2> QED
    BY <2>1, <2>2, NoArray
<1> QED
  BY <1>1, <1>2, <1>3, <1>4, <1>5, <1>6, <1>7, <1>8, <1>9, <1>10, <1>11 DEF InCallStep

LEMMA ArrayIoStep ==
  ASSUME TypeOK, ArrayInv, IoStep
  PROVE  ArrayInv'
<1>0. io \in [Object -> IoType]
  BY Typed
<1>1. ASSUME NEW o \in Object, IoRead(o) PROVE ArrayInv'
  <2>1. \A p \in Object : ChunkArray(p) \in heap' => ChunkArray(p) \in heap \/ p = o
    BY <1>1, ArrayNames DEF IoRead, GetChunks
  <2>2. /\ \A p \in Object : io'[p].on = io[p].on
        /\ Running(o) /\ UNCHANGED call
    <3>1. io[o] = [on |-> "running", left |-> io[o].left]
      BY <1>0, <1>1 DEF IoRead, Running, IoType
    <3> QED
      BY <1>0, <1>1, <3>1 DEF IoRead
  <2> QED
    BY <2>1, <2>2 DEF ArrayInv, ArraysComeBack, Running
<1>2. ASSUME NEW o \in Object, IoCopied(o) \/ IoWrite(o) PROVE ArrayInv'
  BY <1>2, NoArray DEF IoCopied, FreeChunks, IoWrite
<1>3. ASSUME NEW o \in Object, NEW outcome, IoEnds(o, outcome) PROVE ArrayInv'
  <2>1. /\ ChunkArray(o) \notin heap' /\ UNCHANGED <<heap, call>>
        /\ \A p \in Object : p # o => io'[p] = io[p]
    BY <1>0, <1>3 DEF IoEnds
  <2> QED
    BY <2>1 DEF ArrayInv, ArraysComeBack, Running
<1> QED
  BY <1>1, <1>2, <1>3 DEF IoStep

(* Every array of chunks is given back by whoever asked for it, before the  *)
(* call or the I/O thread ends.                                             *)
THEOREM ArraysReturned == Spec => []ArraysComeBack
<1>1. Init => ArrayInv
  BY DEF Init, ArrayInv, ArraysComeBack, Idle
<1>2. ASSUME TypeOK, ArrayInv, [Next]_vars
      PROVE  ArrayInv'
  <2>1. CASE UNCHANGED vars
    BY <1>2, <2>1 DEF vars, ArrayInv, ArraysComeBack, Running
  <2> QED
    BY <1>2, <2>1, NextIsStep, ArrayCallStep, ArrayInCallStep, ArrayIoStep
<1>3. ArrayInv => ArraysComeBack
  BY DEF ArrayInv
<1> QED
  BY TypeInit, TypeStep, <1>1, <1>2, <1>3, PTL DEF Spec

(* Whatever the host holds is wholly allocated, and no call uses or frees   *)
(* what is not; only the hashes borrowed by a builder, and user_data after  *)
(* an early return, may be used when they are gone.                         *)
THEOREM OneOwner == Spec => []Safe
<1>1. TypeOK /\ OwnerInv /\ ArraysComeBack => Safe
  BY Owned DEF Safe, OwnsWhatItHolds, OwnerInv, Harmless
<1> QED
  BY <1>1, OwnerInvariant, ArraysReturned, PTL

(* A build, a verification or a test that fails gives the host nothing.     *)
THEOREM FailureEmpty == Spec => FailureGivesNothing
<1>1. ASSUME TypeOK, [Next]_vars
      PROVE  [call # Idle /\ call' = Idle /\ status' # "StatusOk"
                => given' \subseteq given]_vars
  <2> SUFFICES ASSUME Next, call # Idle, call' = Idle, status' # "StatusOk"
               PROVE  given' \subseteq given
    BY <1>1
  <2>1. CASE CallStep
    BY <2>1 DEF CallStep, Returns, archive_builder_new_u64, archive_builder_new_u128,
       update_builder_internal, HostFreesHashes, archive_builder_free, BuildBegins,
       GivesOrFails, TakesBack, VerifyBegins
  <2>2. ASSUME NEW s, BuildReturns(s, {})
        PROVE  given' \subseteq given
    BY <2>2 DEF BuildReturns
  <2>3. ASSUME NEW o, handle_build_result(o)
        PROVE  given' \subseteq given
    <3>1. CASE BuildReturns("StatusOk", Allocated(o, "data"))
      BY <3>1 DEF BuildReturns
    <3> QED
      BY <2>2, <2>3, <3>1 DEF handle_build_result
  <2>4. CASE InCallStep
    BY <2>2, <2>3, <2>4 DEF InCallStep, Sample, SampleCopied, CompressBegins, SampleFails,
       TakesChunks, ChunksDropped, VerifyReturns, WorkerFails, CompressFails, CompressDone
  <2>5. CASE IoStep
    BY <2>5 DEF IoStep, IoRead, IoCopied, IoWrite, IoEnds
  <2> QED
    BY <2>1, <2>4, <2>5, NextIsStep
<1> QED
  BY <1>1, TypeCorrect, PTL DEF Spec, FailureGivesNothing
=============================================================================

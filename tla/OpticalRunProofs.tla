-------------------------- MODULE OpticalRunProofs --------------------------
(***************************************************************************)
(* What the compression of discs promises, for any sheets, bins and         *)
(* playlists, channels and batches of any size, and any pool: no piece is   *)
(* lost between the workers and the caches, Ok means that the archive has   *)
(* every disc, collections stay apart, and the audio index says where each  *)
(* block's bytes begin.                                                     *)
(***************************************************************************)
EXTENDS OpticalRun, TLAPS, FiniteSetTheorems, SequenceTheorems, WellFoundedInduction

(* The pieces of the first runs of a disc, by how many runs.                *)
IsJoined(content, joined) ==
  /\ joined \in [0..Len(content) -> Seq(Hash)]
  /\ joined[0] = << >>
  /\ \A r \in 1..Len(content) : joined[r] = joined[r - 1] \o content[r].pieces

Joined(content) == CHOOSE joined : IsJoined(content, joined)

-----------------------------------------------------------------------------
(* The audio pipeline: types, and what is in the index.                     *)
Entries == [hash : Hash, offset : Nat, compressed_length : Nat]

AudioTypes ==
  /\ AudioTypeOK
  /\ blocks \in Seq(Hash)
  /\ to_compress \in Seq(1..Total) /\ from_compress \in Seq(1..Total)
  /\ fetched \in Seq(1..Total)
  /\ io \in {"loop", "send", "receive", "write", "ok", "Worker", "External", "PoolDied"}
  /\ blob \in Seq(Hash) /\ audio_index \in Seq(Entries)

(* The index has the first blocks, one behind the other.                    *)
Indexed ==
  /\ Len(blob) = Len(audio_index) /\ Len(audio_index) <= Total
  /\ \A e \in 1..Len(audio_index) :
       /\ audio_index[e].hash = blocks[e] /\ blob[e] = blocks[e]
       /\ audio_index[e].compressed_length = CompLen(blob[e])
       /\ audio_index[e].offset =
            IF e = 1 THEN 0 ELSE audio_index[e - 1].offset + audio_index[e - 1].compressed_length

AudioInv ==
  /\ AudioTypes
  /\ Indexed
  /\ io = "ok" => Len(audio_index) = Total
  /\ caller = "join" => IoEnded
  /\ returns = "ok" => io = "ok"
  /\ caller = "idle" => AudioInit

-----------------------------------------------------------------------------
(* The run: types.                                                          *)
Places == {"waiting", "send", "enter", "done", "failed", "skipped"}
Discs == [at : Places, run : Nat \ {0}, piece : Nat \ {0}, sent : Seq(Hash)]

MainTypes ==
  /\ input \in Inputs
  /\ pc \in {"start", "collect", "flush", "join", "verify", "audio", "build", "write", "returned"}
  /\ result \in {"none", "Ok", "Error", "Cancelled", "panic"}
  /\ disc \in [Sheet -> Discs]
  /\ queue \in Seq([kind : Kind, piece : Hash]) /\ Len(queue) <= CHANNEL
  /\ batch \in [Kind -> Seq(Hash)] /\ \A k \in Kind : Len(batch[k]) <= BATCH_SIZE
  /\ batches \in Seq([kind : Kind, pieces : Seq(Hash)]) /\ Len(batches) <= BATCHES
  /\ cacher \in {"none", "open", "ok", "error"}
  /\ cache \in [Kind -> SUBSET Hash] /\ \A k \in Kind : IsFiniteSet(cache[k])
  /\ (result # "none") = (pc = "returned")

(* The worker of a sheet has sent what lies before its place in the disc.   *)
Progress(s) ==
  /\ disc[s].run \in 1..(Len(Content(s)) + 1)
  /\ IF disc[s].run <= Len(Content(s))
     THEN /\ disc[s].piece \in 1..(Len(Run(s).pieces) + 1)
          /\ disc[s].sent = Joined(Content(s))[disc[s].run - 1]
                              \o SubSeq(Run(s).pieces, 1, disc[s].piece - 1)
     ELSE disc[s].sent = Joined(Content(s))[Len(Content(s))]

(* What the workers have entered: its own, for discs of different titles.   *)
Entered ==
  /\ DOMAIN manifests \subseteq Titles
  /\ \A s \in Sheet : disc[s].at = "done" => Title(s) \in DOMAIN manifests
  /\ DistinctTitles => \A s \in Sheet :
       /\ disc[s].at \in {"enter", "done"} =>
            Title(s) \in DOMAIN hashes /\ hashes[Title(s)] = Content(s)
       /\ disc[s].at = "done" => manifests[Title(s)] = disc[s].sent

WorkerInv ==
  /\ \A s \in Sheet :
       /\ Progress(s)
       /\ disc[s].at \in {"enter", "done"} => disc[s].run = Len(Content(s)) + 1
       /\ disc[s].at = "skipped" => \E t \in Sheet : disc[t].at = "failed"
  /\ Entered

(* A piece that was sent is on its way, or in its cache.                    *)
OnItsWay(kind, piece) ==
  \/ \E q \in 1..Len(queue) : queue[q].kind = kind /\ queue[q].piece = piece
  \/ \E i \in 1..Len(batch[kind]) : batch[kind][i] = piece
  \/ \E b \in 1..Len(batches) :
       batches[b].kind = kind /\ \E i \in 1..Len(batches[b].pieces) : batches[b].pieces[i] = piece
  \/ piece \in cache[kind]

FlowInv ==
  cacher # "error" =>
    \A s \in Sheet : \A r \in 1..Len(Content(s)) : \A k \in 1..Len(Content(s)[r].pieces) :
      r < disc[s].run \/ (r = disc[s].run /\ k < disc[s].piece) =>
        OnItsWay(Content(s)[r].kind, Content(s)[r].pieces[k])

(* What the main thread's place says.                                       *)
AllJoined == {"verify", "audio", "build", "write"}

PhaseInv ==
  /\ (cacher = "none") = (pc = "start")
  /\ cacher = "ok" => batches = << >> /\ SenderDropped
  /\ pc \notin {"start", "collect"} => queue = << >> /\ WorkersOver
  /\ pc \notin {"start", "collect", "flush"} => Flushed
  /\ pc \in AllJoined => cacher = "ok" /\ \A s \in Sheet : disc[s].at # "failed"
  /\ pc \notin {"audio", "build", "write"} => caller = "idle"
  /\ pc = "audio" => ToSet(blocks) = cache["audio"]
  /\ pc \in {"build", "write"} =>
       \A h \in cache["audio"] : \E e \in 1..Len(audio_index) : audio_index[e].hash = h
  /\ pc = "write" => \A h \in cache["data"] : Contains(data_index, h)

(* What the archive has.                                                    *)
CollectionsNamed ==
  result = "Ok" => \A t \in DOMAIN archive.toc : archive.toc[t].collection = collection_id(t)

Inv ==
  /\ AudioInv
  /\ MainTypes
  /\ pc # "returned" => WorkerInv /\ FlowInv /\ PhaseInv
  /\ CollectionsNamed
  /\ OkHasEveryDisc

-----------------------------------------------------------------------------
(* Induction over a set of numbers.                                         *)
LEMMA LeastOf ==
  ASSUME NEW S, S \subseteq Nat, S # {}
  PROVE  \E m \in S : \A n \in S : m <= n
<1> DEFINE Less == {ss \in Nat \X Nat : ss[1] < ss[2]}
<1>1. IsWellFoundedOn(Less, Nat)
  BY NatLessThanWellFounded DEF OpToRel, Less
<1>2. PICK m \in S : \A n \in S : ~(<<n, m>> \in Less)
  <2> HIDE DEF Less
  <2> QED
    BY <1>1, WFMin
<1>3. ASSUME NEW n \in S PROVE m <= n
  <2>1. m \in Nat /\ n \in Nat /\ ~(<<n, m>> \in Less)
    BY <1>2
  <2> QED
    BY <2>1
<1> QED
  BY <1>3

LEMMA UpFromZero ==
  ASSUME NEW S, 0 \in S, \A n \in Nat : n \in S => n + 1 \in S
  PROVE  Nat \subseteq S
<1> DEFINE Missing == {n \in Nat : n \notin S}
<1> SUFFICES ASSUME Missing # {} PROVE FALSE
  OBVIOUS
<1>1. PICK m \in Missing : \A n \in Missing : m <= n
  <2> Missing \subseteq Nat
    OBVIOUS
  <2> HIDE DEF Missing
  <2> QED
    BY LeastOf
<1>2. m \in Nat /\ m # 0 /\ m \notin S
  OBVIOUS
<1>3. m - 1 \in Nat /\ m - 1 \notin Missing
  BY <1>1, <1>2
<1>4. m - 1 \in S /\ (m - 1) + 1 = m
  BY <1>2, <1>3
<1> HIDE DEF Missing
<1>5. m \in S
  BY <1>3, <1>4
<1> QED
  BY <1>2, <1>5

(* The first element of a sequence and the rest; one more at its end.       *)
LEMMA HeadOf ==
  ASSUME NEW S, NEW s \in Seq(S), s # << >>
  PROVE  /\ Head(s) \in S /\ Head(s) = s[1]
         /\ Len(s) \in Nat \ {0}
         /\ Tail(s) \in Seq(S) /\ Len(Tail(s)) = Len(s) - 1
         /\ \A i \in 1..Len(Tail(s)) : Tail(s)[i] = s[i + 1]
OBVIOUS

LEMMA AppendOf ==
  ASSUME NEW S, NEW s \in Seq(S), NEW x \in S
  PROVE  /\ Append(s, x) \in Seq(S) /\ Len(s) \in Nat /\ Len(Append(s, x)) = Len(s) + 1
         /\ Append(s, x)[Len(s) + 1] = x
         /\ \A i \in 1..Len(s) : Append(s, x)[i] = s[i]
OBVIOUS

(* The last of the numbers that are no larger than n.                       *)
LEMMA MaxOf ==
  ASSUME NEW n \in Nat, NEW S, S \subseteq 0..n, S # {}
  PROVE  Max(S) \in S /\ \A m \in S : m <= Max(S)
<1> DEFINE T == {k \in Nat : n - k \in S}
<1>1. T # {}
  <2>1. PICK m \in S : TRUE
    OBVIOUS
  <2>2. n - m \in Nat /\ n - (n - m) = m
    BY <2>1
  <2> QED
    BY <2>1, <2>2
<1>2. PICK k \in T : \A j \in T : k <= j
  <2>1. T \subseteq Nat
    OBVIOUS
  <2> HIDE DEF T
  <2> QED
    BY <1>1, <2>1, LeastOf
<1>3. k \in Nat /\ n - k \in S
  OBVIOUS
<1>4. ASSUME NEW m \in S PROVE n - k >= m
  <2>1. n - m \in Nat /\ n - (n - m) = m
    OBVIOUS
  <2>2. n - m \in T
    BY <2>1
  <2>3. k <= n - m
    BY <1>2, <2>2
  <2> QED
    BY <1>3, <2>1, <2>3
<1> HIDE DEF T
<1>5. \E x \in S : \A y \in S : x >= y
  BY <1>3, <1>4
<1>6. Max(S) \in S /\ \A y \in S : Max(S) >= y
  BY <1>5 DEF Max
<1>7. S \subseteq Int
  OBVIOUS
<1> QED
  BY <1>6, <1>7

LEMMA ToSetIsFinite ==
  ASSUME NEW S, NEW s \in Seq(S)
  PROVE  IsFiniteSet(ToSet(s)) /\ ToSet(s) \subseteq S
<1>1. s \in Surjection(1..Len(s), ToSet(s)) /\ Len(s) \in Nat /\ ToSet(s) \subseteq S
  BY DEF Surjection, ToSet
<1>2. IsFiniteSet(1..Len(s))
  BY <1>1, FS_Interval
<1> QED
  BY <1>1, <1>2, FS_Surjection

LEMMA SetToSeqIs ==
  ASSUME NEW S, IsFiniteSet(S)
  PROVE  SetToSeq(S) \in Seq(S) /\ ToSet(SetToSeq(S)) = S
<1> DEFINE n == Cardinality(S)
           f == SetToSeq(S)
<1>1. n \in Nat /\ ExistsBijection(1..n, S)
  BY FS_CardinalityType
<1>2. \E g \in [1..n -> S] : IsInjective(g)
  BY <1>1 DEF ExistsBijection, Bijection, Injection
<1>3. f \in [1..n -> S] /\ IsInjective(f)
  BY <1>2 DEF SetToSeq
<1> HIDE DEF f
<1>4. Cardinality(1..n) = n
  BY <1>1, FS_Interval
<1>5. f \in Injection(1..n, S)
  BY <1>3 DEF Injection
<1>6. f \in Surjection(1..n, S)
  BY <1>4, <1>5, FS_Injection
<1>7. ToSet(f) = S
  BY <1>3, <1>6 DEF ToSet, Surjection
<1>8. f \in Seq(S)
  BY <1>1, <1>3
<1> QED
  BY <1>7, <1>8 DEF f

LEMMA RunOf ==
  ASSUME NEW content \in Seq(Runs)
  PROVE  /\ Len(content) \in Nat /\ DOMAIN content = 1..Len(content)
         /\ \A r \in 1..Len(content) : content[r].kind \in Kind /\ content[r].pieces \in Seq(Hash)
<1>1. \A r \in 1..Len(content) : content[r] \in Runs
  OBVIOUS
<1> QED
  BY <1>1 DEF Runs

(* The function that joins the runs exists.                                 *)
LEMMA JoinedExists ==
  ASSUME NEW content \in Seq(Runs)
  PROVE  IsJoined(content, Joined(content))
<1> DEFINE L == Len(content)
           IsUpTo(n, f) == /\ f \in [0..n -> Seq(Hash)] /\ f[0] = << >>
                           /\ \A r \in 1..n : r <= L => f[r] = f[r - 1] \o content[r].pieces
           S == {n \in Nat : \E f : IsUpTo(n, f)}
<1>1. L \in Nat /\ \A r \in 1..L : content[r].pieces \in Seq(Hash)
  BY RunOf
<1>2. 0 \in S
  <2>1. IsUpTo(0, [k \in 0..0 |-> << >>])
    OBVIOUS
  <2> QED
    BY <2>1
<1>3. ASSUME NEW n \in Nat, n \in S PROVE n + 1 \in S
  <2>1. PICK f : IsUpTo(n, f)
    BY <1>3
  <2> DEFINE new == IF n + 1 <= L THEN f[n] \o content[n + 1].pieces ELSE << >>
             g == [k \in 0..(n + 1) |-> IF k = n + 1 THEN new ELSE f[k]]
  <2>2. new \in Seq(Hash)
    BY <1>1, <2>1
  <2>3. g \in [0..(n + 1) -> Seq(Hash)]
    <3> HIDE DEF new
    <3> QED
      BY <2>1, <2>2
  <2>4. g[0] = << >>
    BY <2>1
  <2>5. ASSUME NEW r \in 1..(n + 1), r <= L PROVE g[r] = g[r - 1] \o content[r].pieces
    <3>1. CASE r = n + 1
      BY <2>5, <3>1
    <3>2. CASE r # n + 1
      <4>1. r \in 1..n /\ g[r] = f[r] /\ g[r - 1] = f[r - 1]
        BY <3>2
      <4> QED
        BY <2>1, <2>5, <4>1
    <3> QED
      BY <3>1, <3>2
  <2>6. IsUpTo(n + 1, g)
    <3> HIDE DEF g
    <3> QED
      BY <2>3, <2>4, <2>5
  <2> HIDE DEF g, IsUpTo
  <2> QED
    BY <2>6
<1>4. L \in S
  <2> HIDE DEF S
  <2>1. Nat \subseteq S
    BY <1>2, <1>3, UpFromZero
  <2> QED
    BY <1>1, <2>1
<1>5. PICK f : IsUpTo(L, f)
  BY <1>4
<1> HIDE DEF S
<1>6. IsJoined(content, f)
  <2>1. f \in [0..L -> Seq(Hash)] /\ f[0] = << >>
    BY <1>5
  <2>2. ASSUME NEW r \in 1..L PROVE f[r] = f[r - 1] \o content[r].pieces
    <3>1. r <= L
      BY <1>1
    <3> QED
      BY <1>5, <3>1
  <2> HIDE DEF IsUpTo
  <2> QED
    BY <2>1, <2>2 DEF IsJoined
<1> QED
  BY <1>6 DEF Joined

(* AllPieces joins all of them.                                             *)
LEMMA AllPiecesJoined ==
  ASSUME NEW content \in Seq(Runs)
  PROVE  AllPieces(content) = Joined(content)[Len(content)]
<1> DEFINE L == Len(content)
           seqs == [r \in DOMAIN content |-> content[r].pieces]
           f == Joined(content)
<1>1. IsJoined(content, f) /\ L \in Nat
  BY JoinedExists
<1>2. /\ seqs \in Seq(Seq(Hash)) /\ Len(seqs) = L
      /\ \A r \in 1..L : seqs[r] = content[r].pieces
  BY RunOf
<1> HIDE DEF f, seqs
<1>3. /\ \A r \in 0..L : f[r] \in Seq(Hash)
      /\ \A r \in 1..L : f[r] = f[r - 1] \o seqs[r]
      /\ f[0] = << >>
  BY <1>1, <1>2 DEF IsJoined
<1>4. L # 0 => f[1] = << >> \o seqs[1] /\ seqs[1] \in Seq(Hash)
  <2> SUFFICES ASSUME L # 0 PROVE f[1] = << >> \o seqs[1] /\ seqs[1] \in Seq(Hash)
    OBVIOUS
  <2>1. 1 \in 1..L /\ 1 - 1 = 0
    BY <1>1
  <2>2. f[1] = f[1 - 1] \o seqs[1]
    BY <1>3, <2>1
  <2>3. f[1 - 1] = << >>
    BY <1>3, <2>1
  <2>4. seqs[1] \in Seq(Hash)
    BY <1>2, <2>1
  <2> QED
    BY <2>2, <2>3, <2>4
<1>5. CASE L = 0
  <2>1. FlattenSeq(seqs) = seqs /\ seqs = << >>
    BY <1>2, <1>5 DEF FlattenSeq
  <2> QED
    BY <1>1, <1>5, <2>1 DEF IsJoined, AllPieces, f, seqs
<1>6. CASE L # 0
  <2> DEFINE Step(g) == [i \in 1..L |-> IF i = 1 THEN seqs[i] ELSE g[i - 1] \o seqs[i]]
             flatten == CHOOSE g : g = Step(g)
  <2>1. FlattenSeq(seqs) = flatten[L]
    BY <1>2, <1>6 DEF FlattenSeq
  <2>2. [i \in 1..L |-> f[i]] = Step([i \in 1..L |-> f[i]])
    <3>1. ASSUME NEW i \in 1..L
          PROVE  f[i] = IF i = 1 THEN seqs[i] ELSE [j \in 1..L |-> f[j]][i - 1] \o seqs[i]
      <4>1. CASE i = 1
        <5>1. f[1] = << >> \o seqs[1]
          BY <1>6, <1>4
        <5>2. seqs[1] \in Seq(Hash)
          BY <1>2, <4>1
        <5> QED
          BY <4>1, <5>1, <5>2
      <4>2. CASE i # 1
        <5>1. i - 1 \in 1..L /\ [j \in 1..L |-> f[j]][i - 1] = f[i - 1]
          BY <1>1, <4>2
        <5> QED
          BY <1>3, <4>2, <5>1
      <4> QED
        BY <4>1, <4>2
    <3> QED
      BY <3>1
  <2>3. flatten = Step(flatten)
    <3> HIDE DEF Step
    <3> QED
      BY <2>2
  <2> HIDE DEF flatten
  <2> DEFINE S == {n \in Nat : n + 1 <= L => flatten[n + 1] = f[n + 1]}
  <2>4. 0 \in S
    <3>1. flatten[1] = seqs[1]
      BY <1>1, <1>6, <2>3
    <3>2. f[1] = << >> \o seqs[1] /\ seqs[1] \in Seq(Hash)
      BY <1>6, <1>4
    <3> QED
      BY <3>1, <3>2
  <2>5. ASSUME NEW n \in Nat, n \in S PROVE n + 1 \in S
    <3> SUFFICES ASSUME n + 2 <= L PROVE flatten[n + 2] = f[n + 2]
      OBVIOUS
    <3>0. n + 2 \in 1..L /\ n + 2 # 1 /\ (n + 2) - 1 = n + 1
      BY <1>1
    <3>1. flatten[n + 2] = flatten[n + 1] \o seqs[n + 2]
      <4> HIDE DEF S
      <4> QED
        BY <2>3, <3>0
    <3>2. flatten[n + 1] = f[n + 1]
      BY <1>1, <2>5
    <3>3. f[n + 2] = f[n + 1] \o seqs[n + 2]
      <4> HIDE DEF S
      <4> QED
        BY <1>3, <3>0
    <3> QED
      BY <3>1, <3>2, <3>3
  <2>6. L - 1 \in S
    <3> HIDE DEF S
    <3>1. Nat \subseteq S
      BY <2>4, <2>5, UpFromZero
    <3> QED
      BY <1>1, <1>6, <3>1
  <2>7. flatten[L] = f[L]
    BY <1>1, <2>6
  <2> QED
    BY <2>1, <2>7 DEF AllPieces, f, seqs
<1> QED
  BY <1>5, <1>6

-----------------------------------------------------------------------------
(* The audio pipeline.                                                      *)
LEMMA TotalIsNat ==
  ASSUME AudioTypes
  PROVE  Total \in Nat
BY DEF AudioTypes, Total

LEMMA AudioBegins ==
  ASSUME AudioInit
  PROVE  AudioInv
<1>1. Total = 0
  BY DEF AudioInit, Total
<1>2. AudioTypes
  BY <1>1, AudioBlocksAssumption DEF AudioInit, AudioTypes, AudioTypeOK, Idle, Ended
<1>3. Indexed
  BY <1>1 DEF AudioInit, Indexed
<1> QED
  BY <1>2, <1>3 DEF AudioInv, AudioInit

LEMMA AudioStarts ==
  ASSUME AudioInv, NEW hs \in Seq(Hash), Start(hs)
  PROVE  AudioInv'
<1>1. AudioInit /\ caller' = "poll" /\ blocks' = hs
  BY DEF AudioInv, Start
<1>2. UNCHANGED <<returns, to_compress, from_compress, errors, worker, io, fetched,
                  read_cursor, reorder, blob, audio_index>>
  BY DEF Start
<1>3. Total' \in Nat
  BY <1>1 DEF Total
<1>4. AudioTypes'
  BY <1>1, <1>2, <1>3, AudioBlocksAssumption DEF AudioInit, AudioTypes, AudioTypeOK, Idle, Ended
<1>5. Indexed'
  BY <1>1, <1>2, <1>3 DEF AudioInit, Indexed
<1> QED
  BY <1>1, <1>2, <1>4, <1>5 DEF AudioInv, AudioInit

LEMMA AudioKept ==
  ASSUME AudioInv, UNCHANGED audioVars
  PROVE  AudioInv'
BY DEF audioVars, AudioInv, AudioTypes, AudioTypeOK, Indexed, Total, IoEnded, AudioInit

(* A step of the I/O thread that leaves the index alone.                    *)
LEMMA IoGoesOn ==
  ASSUME AudioInv, Started, ~IoEnded, KeptByIo, AudioTypes',
         UNCHANGED <<blob, audio_index>>,
         io' = "ok" => next_needed > Total
  PROVE  AudioInv'
<1>1. UNCHANGED <<blocks, caller, returns, errors, worker>> /\ Total' = Total
  BY DEF KeptByIo, Total
<1>2. caller \notin {"idle", "join"} /\ returns # "ok"
  BY DEF AudioInv, Started, IoEnded
<1>3. Indexed'
  BY <1>1 DEF AudioInv, Indexed
<1>4. io' = "ok" => Len(audio_index) = Total
  BY TotalIsNat DEF AudioInv, AudioTypes, Indexed, next_needed
<1> QED
  BY <1>1, <1>2, <1>3, <1>4 DEF AudioInv

LEMMA IoTypes ==
  ASSUME AudioTypes, Prefetch \/ NoPrefetch \/ QueueBlock \/ AllQueued \/ PoolDied \/ Receive
                     \/ NothingInTurn \/ IoDone
  PROVE  AudioTypes'
<1>1. KeptByIo /\ UNCHANGED <<blob, audio_index>>
  BY DEF Prefetch, NoPrefetch, QueueBlock, AllQueued, PoolDied, Receive, NothingInTurn, IoDone
<1>2. UNCHANGED <<blocks, caller, returns, errors, worker>> /\ Total' = Total /\ Total \in Nat
  BY <1>1, TotalIsNat DEF KeptByIo, Total
<1>3. CASE Prefetch
  <2> DEFINE upto == IF read_cursor + PREFETCH_HIGH_THRESHOLD < Total
                     THEN read_cursor + PREFETCH_HIGH_THRESHOLD ELSE Total
  <2>1. UNCHANGED <<to_compress, from_compress, reorder>> /\ io' \in {"send", "Worker"}
    BY <1>3 DEF Prefetch
  <2>2. \/ /\ fetched' = [k \in 1..(upto - read_cursor) |-> read_cursor + k]
           /\ read_cursor' = upto
        \/ UNCHANGED <<fetched, read_cursor>>
    BY <1>3 DEF Prefetch
  <2>3. read_cursor \in 0..Total /\ upto \in 0..Total /\ upto - read_cursor \in Nat
    BY <1>2, AudioBlocksAssumption DEF AudioTypes, AudioTypeOK
  <2>4. [k \in 1..(upto - read_cursor) |-> read_cursor + k] \in Seq(1..Total)
    <3> HIDE DEF upto
    <3>1. \A k \in 1..(upto - read_cursor) : read_cursor + k \in 1..Total
      BY <1>2, <2>3
    <3> QED
      BY <2>3, <3>1
  <2>5. fetched' \in Seq(1..Total) /\ read_cursor' \in 0..Total
    BY <2>2, <2>3, <2>4 DEF AudioTypes
  <2> QED
    BY <1>1, <1>2, <2>1, <2>5 DEF AudioTypes, AudioTypeOK
<1>4. CASE QueueBlock
  <2>1. /\ fetched # << >> /\ fetched' = Tail(fetched)
        /\ to_compress' = Append(to_compress, Head(fetched))
        /\ Len(to_compress) < PREFETCH_HIGH_THRESHOLD
        /\ UNCHANGED <<from_compress, io, read_cursor, reorder>>
    BY <1>4 DEF QueueBlock
  <2>2. Head(fetched) \in 1..Total /\ fetched' \in Seq(1..Total)
    BY <2>1, HeadOf DEF AudioTypes
  <2>3. to_compress' \in Seq(1..Total) /\ Len(to_compress') = Len(to_compress) + 1
        /\ Len(to_compress) \in Nat
    BY <2>1, <2>2, AppendOf DEF AudioTypes
  <2>4. Len(to_compress') <= PREFETCH_HIGH_THRESHOLD
    BY <2>1, <2>3, AudioBlocksAssumption
  <2> QED
    BY <1>1, <1>2, <2>1, <2>2, <2>3, <2>4 DEF AudioTypes, AudioTypeOK
<1>5. CASE Receive
  <2>1. /\ from_compress # << >> /\ from_compress' = Tail(from_compress)
        /\ reorder' = reorder \cup {Head(from_compress)} /\ io' = "write"
        /\ UNCHANGED <<to_compress, fetched, read_cursor>>
    BY <1>5 DEF Receive
  <2>2. Head(from_compress) \in 1..Total /\ from_compress' \in Seq(1..Total)
    BY <2>1, HeadOf DEF AudioTypes
  <2> QED
    BY <1>1, <1>2, <2>1, <2>2 DEF AudioTypes, AudioTypeOK
<1>6. CASE NoPrefetch \/ AllQueued \/ PoolDied \/ NothingInTurn \/ IoDone
  <2>1. UNCHANGED <<to_compress, from_compress, fetched, read_cursor, reorder>>
    BY <1>6 DEF NoPrefetch, AllQueued, PoolDied, NothingInTurn, IoDone
  <2>2. io' \in {"receive", "PoolDied", "loop", "ok"}
    BY <1>6 DEF NoPrefetch, AllQueued, PoolDied, NothingInTurn, IoDone
  <2> QED
    BY <1>1, <1>2, <2>1, <2>2 DEF AudioTypes, AudioTypeOK
<1> QED
  BY <1>3, <1>4, <1>5, <1>6

LEMMA AudioWrites ==
  ASSUME AudioInv, WriteBlock
  PROVE  AudioInv'
<1> DEFINE n == Len(audio_index)
           h == blocks[InTurn]
           entry == [hash |-> h, offset |-> Offset, compressed_length |-> CompLen(h)]
<1>1. /\ Started /\ io = "write" /\ InTurn # 0
      /\ UNCHANGED <<running, blocks, caller, returns, errors, worker>>
      /\ UNCHANGED <<to_compress, from_compress, fetched, read_cursor>>
  BY DEF WriteBlock, IoAt, KeptByIo
<1>2. Total \in Nat /\ Total' = Total /\ n \in Nat /\ Len(blob) = n
  BY <1>1, TotalIsNat DEF AudioInv, AudioTypes, Indexed, Total
<1>3. InTurn = n + 1 /\ n + 1 \in 1..Total
  BY <1>1, <1>2 DEF InTurn, next_needed, AudioInv, AudioTypes, AudioTypeOK
<1>4. caller \notin {"idle", "join"} /\ returns # "ok"
  BY <1>1 DEF AudioInv, Started, IoEnded
<1>5. CASE io' = "External" /\ UNCHANGED <<reorder, blob, audio_index>>
  <2>1. AudioTypes'
    BY <1>1, <1>2, <1>5 DEF AudioInv, AudioTypes, AudioTypeOK
  <2>2. Indexed'
    BY <1>1, <1>2, <1>5 DEF AudioInv, Indexed
  <2> QED
    BY <1>1, <1>4, <1>5, <2>1, <2>2 DEF AudioInv
<1>6. CASE /\ blob' = Append(blob, h) /\ audio_index' = Append(audio_index, entry)
           /\ reorder' = reorder \ {InTurn} /\ io' = io
  <2>1. h \in Hash /\ h = blocks[n + 1]
    BY <1>2, <1>3 DEF AudioInv, AudioTypes, Total
  <2>2. /\ Offset = IF n = 0 THEN 0 ELSE audio_index[n].offset + audio_index[n].compressed_length
        /\ Offset \in Nat
    <3>1. CASE n = 0
      <4>1. audio_index = << >>
        BY <3>1 DEF AudioInv, AudioTypes
      <4> QED
        BY <3>1, <4>1 DEF Offset
    <3>2. CASE n # 0
      <4>1. audio_index # << >> /\ audio_index[n] \in Entries
        BY <1>2, <3>2 DEF AudioInv, AudioTypes
      <4> QED
        BY <3>2, <4>1 DEF Offset, Last, Entries
    <3> QED
      BY <3>1, <3>2
  <2>3. entry \in Entries
    BY <2>1, <2>2, OpticalAssumption DEF Entries
  <2>4. /\ entry.hash = h /\ entry.offset = Offset /\ entry.compressed_length = CompLen(h)
    OBVIOUS
  <2> HIDE DEF entry, h
  <2>5. /\ audio_index' \in Seq(Entries) /\ blob' \in Seq(Hash)
        /\ Len(audio_index') = n + 1 /\ Len(blob') = n + 1
        /\ audio_index'[n + 1] = entry /\ blob'[n + 1] = h
        /\ \A e \in 1..n : audio_index'[e] = audio_index[e] /\ blob'[e] = blob[e]
    BY <1>2, <1>6, <2>1, <2>3 DEF AudioInv, AudioTypes
  <2>6. AudioTypes'
    BY <1>1, <1>2, <1>6, <2>5 DEF AudioInv, AudioTypes, AudioTypeOK
  <2>7. ASSUME NEW e \in 1..(n + 1)
        PROVE  /\ audio_index'[e].hash = blocks'[e] /\ blob'[e] = blocks'[e]
               /\ audio_index'[e].compressed_length = CompLen(blob'[e])
               /\ audio_index'[e].offset =
                    IF e = 1 THEN 0
                    ELSE audio_index'[e - 1].offset + audio_index'[e - 1].compressed_length
    <3>1. CASE e = n + 1
      <4>1. e # 1 => e - 1 = n /\ n \in 1..n
        BY <1>2, <3>1
      <4>2. e = 1 <=> n = 0
        BY <1>2, <3>1
      <4> QED
        BY <1>1, <2>1, <2>2, <2>4, <2>5, <3>1, <4>1, <4>2
    <3>2. CASE e # n + 1
      <4>1. e \in 1..n /\ (e # 1 => e - 1 \in 1..n)
        BY <1>2, <3>2
      <4> QED
        BY <1>1, <2>5, <4>1 DEF AudioInv, Indexed
    <3> QED
      BY <3>1, <3>2
  <2>8. Indexed'
    <3> HIDE DEF n
    <3> QED
      BY <1>2, <1>3, <2>5, <2>7 DEF Indexed
  <2> QED
    BY <1>1, <1>4, <1>6, <2>6, <2>8 DEF AudioInv
<1> QED
  BY <1>5, <1>6 DEF WriteBlock

LEMMA AudioIo ==
  ASSUME AudioInv, IoStep
  PROVE  AudioInv'
<1>1. CASE WriteBlock
  BY <1>1, AudioWrites
<1>2. CASE Prefetch \/ NoPrefetch \/ QueueBlock \/ AllQueued \/ PoolDied \/ Receive
           \/ NothingInTurn \/ IoDone
  <2>1. AudioTypes'
    BY <1>2, IoTypes DEF AudioInv
  <2>2. Started /\ ~IoEnded /\ KeptByIo /\ UNCHANGED <<blob, audio_index>>
    BY <1>2 DEF Prefetch, NoPrefetch, QueueBlock, AllQueued, PoolDied, Receive, NothingInTurn,
                IoDone, IoAt, IoEnded
  <2>3. io' = "ok" => next_needed > Total
    BY <1>2, <2>2 DEF Prefetch, NoPrefetch, QueueBlock, AllQueued, PoolDied, Receive,
                      NothingInTurn, IoDone, IoAt, IoEnded
  <2> QED
    BY <2>1, <2>2, <2>3, IoGoesOn
<1> QED
  BY <1>1, <1>2 DEF IoStep

LEMMA AudioPool ==
  ASSUME AudioInv, NEW p \in Pool, PoolStep(p)
  PROVE  AudioInv'
<1>1. UNCHANGED <<blocks, caller, returns, io, fetched, read_cursor, reorder, blob, audio_index>>
      /\ Total' = Total /\ Total \in Nat
  BY TotalIsNat DEF PoolStep, Take, Compressed, CompressFails, NoMoreWork, KeptByWorker, Total,
                    AudioInv
<1>2. caller # "idle"
  BY DEF AudioInv, AudioInit, PoolStep, Take, Compressed, CompressFails, NoMoreWork, Compressing,
         Started, IoEnded, Idle
<1>3. /\ to_compress' \in Seq(1..Total) /\ Len(to_compress') <= PREFETCH_HIGH_THRESHOLD
      /\ worker' \in [Pool -> 0..Total \cup {Ended}]
      /\ from_compress' \in Seq(1..Total)
  <2>0. /\ to_compress \in Seq(1..Total) /\ Len(to_compress) <= PREFETCH_HIGH_THRESHOLD
        /\ worker \in [Pool -> 0..Total \cup {Ended}]
        /\ from_compress \in Seq(1..Total)
    BY DEF AudioInv, AudioTypes, AudioTypeOK
  <2>1. CASE Take(p)
    <3>1. to_compress # << >> /\ to_compress' = Tail(to_compress)
          /\ worker' = [worker EXCEPT ![p] = Head(to_compress)] /\ from_compress' = from_compress
      BY <2>1 DEF Take
    <3>2. Head(to_compress) \in 1..Total /\ to_compress' \in Seq(1..Total)
          /\ Len(to_compress') = Len(to_compress) - 1 /\ Len(to_compress) \in Nat
      BY <2>0, <3>1, HeadOf
    <3>3. Len(to_compress') <= PREFETCH_HIGH_THRESHOLD
      BY <2>0, <3>2, AudioBlocksAssumption
    <3> QED
      BY <1>1, <2>0, <3>1, <3>2, <3>3
  <2>2. CASE Compressed(p)
    <3>1. to_compress' = to_compress /\ worker[p] \in 1..Total
      BY <2>2 DEF Compressed, Compressing
    <3>2. worker' = [worker EXCEPT ![p] = Ended] \/ worker' = [worker EXCEPT ![p] = Idle]
      BY <2>2 DEF Compressed
    <3>3. from_compress' = from_compress \/ from_compress' = Append(from_compress, worker[p])
      BY <2>2 DEF Compressed
    <3>4. from_compress' \in Seq(1..Total)
      <4>1. Append(from_compress, worker[p]) \in Seq(1..Total)
        BY <2>0, <3>1, AppendOf
      <4> QED
        BY <2>0, <3>3, <4>1
    <3> QED
      BY <1>1, <2>0, <3>1, <3>2, <3>4 DEF Idle
  <2>3. CASE CompressFails(p) \/ NoMoreWork(p)
    BY <1>1, <2>0, <2>3 DEF CompressFails, NoMoreWork
  <2> QED
    BY <2>1, <2>2, <2>3 DEF PoolStep
<1>4. AudioTypes'
  BY <1>1, <1>3 DEF AudioInv, AudioTypes, AudioTypeOK
<1>5. Indexed'
  BY <1>1 DEF AudioInv, Indexed
<1> QED
  BY <1>1, <1>2, <1>4, <1>5 DEF AudioInv, IoEnded

LEMMA AudioCaller ==
  ASSUME AudioInv, CallerStep
  PROVE  AudioInv'
<1>1. UNCHANGED <<blocks, to_compress, from_compress, errors, worker, io, fetched, read_cursor,
                  reorder, blob, audio_index>> /\ Total' = Total
  BY DEF CallerStep, SeesIoEnd, SeesError, JoinAll, KeptByCaller, Total
<1>2. /\ caller' \in {"join", "returned"}
      /\ caller' = "join" => IoEnded
      /\ returns' = returns \/ returns' = "Flac" \/ (returns' = io /\ IoEnded)
  BY DEF CallerStep, SeesIoEnd, SeesError, JoinAll, IoResult, AudioInv
<1>3. AudioTypes'
  BY <1>1, <1>2 DEF AudioInv, AudioTypes, AudioTypeOK, IoEnded
<1>4. Indexed'
  BY <1>1 DEF AudioInv, Indexed
<1> QED
  BY <1>1, <1>2, <1>3, <1>4 DEF AudioInv, IoEnded

LEMMA AudioStepKeeps ==
  ASSUME AudioInv, AudioStep
  PROVE  AudioInv'
BY AudioIo, AudioPool, AudioCaller DEF AudioStep

(* How many bytes the first blocks of the blob have, by how many blocks.    *)
LEMMA BytesAre ==
  ASSUME AudioTypes
  PROVE  /\ Bytes[0] = 0
         /\ \A n \in 1..Len(blob) : Bytes[n] = Bytes[n - 1] + CompLen(blob[n])
<1> DEFINE L == Len(blob)
           IsUpTo(n, f) == /\ f \in [0..n -> Nat] /\ f[0] = 0
                           /\ \A k \in 1..n : k <= L => f[k] = f[k - 1] + CompLen(blob[k])
           S == {n \in Nat : \E f : IsUpTo(n, f)}
<1>1. L \in Nat /\ \A k \in 1..L : CompLen(blob[k]) \in Nat
  BY OpticalAssumption DEF AudioTypes
<1>2. 0 \in S
  <2>1. IsUpTo(0, [k \in 0..0 |-> 0])
    OBVIOUS
  <2> QED
    BY <2>1
<1>3. ASSUME NEW n \in Nat, n \in S PROVE n + 1 \in S
  <2>1. PICK f : IsUpTo(n, f)
    BY <1>3
  <2> DEFINE new == IF n + 1 <= L THEN f[n] + CompLen(blob[n + 1]) ELSE 0
             g == [k \in 0..(n + 1) |-> IF k = n + 1 THEN new ELSE f[k]]
  <2>2. new \in Nat
    BY <1>1, <2>1
  <2>3. g \in [0..(n + 1) -> Nat]
    <3> HIDE DEF new
    <3> QED
      BY <2>1, <2>2
  <2>4. g[0] = 0
    BY <2>1
  <2>5. ASSUME NEW k \in 1..(n + 1), k <= L PROVE g[k] = g[k - 1] + CompLen(blob[k])
    <3>1. CASE k = n + 1
      BY <2>5, <3>1
    <3>2. CASE k # n + 1
      <4>1. k \in 1..n /\ g[k] = f[k] /\ g[k - 1] = f[k - 1]
        BY <3>2
      <4> QED
        BY <2>1, <2>5, <4>1
    <3> QED
      BY <3>1, <3>2
  <2>6. IsUpTo(n + 1, g)
    <3> HIDE DEF g
    <3> QED
      BY <2>3, <2>4, <2>5
  <2> HIDE DEF g, IsUpTo
  <2> QED
    BY <2>6
<1>4. L \in S
  <2> HIDE DEF S
  <2>1. Nat \subseteq S
    BY <1>2, <1>3, UpFromZero
  <2> QED
    BY <1>1, <2>1
<1>5. PICK f : IsUpTo(L, f)
  BY <1>4
<1> HIDE DEF S
<1> DEFINE Step(g) == [n \in 0..L |-> IF n = 0 THEN 0 ELSE g[n - 1] + CompLen(blob[n])]
<1>6. f = Step(f)
  <2>1. ASSUME NEW n \in 0..L PROVE f[n] = IF n = 0 THEN 0 ELSE f[n - 1] + CompLen(blob[n])
    <3>1. n # 0 => n \in 1..L /\ n <= L
      BY <1>1
    <3> QED
      BY <1>5, <3>1
  <2>2. f \in [0..L -> Nat]
    BY <1>5
  <2> HIDE DEF IsUpTo
  <2> QED
    BY <2>1, <2>2
<1>7. Bytes = CHOOSE g : g = Step(g)
  BY DEF Bytes
<1>8. Bytes = Step(Bytes)
  <2> HIDE DEF Step
  <2> QED
    BY <1>6, <1>7
<1>9. 0 \in 0..L /\ \A n \in 1..L : n \in 0..L /\ n # 0
  BY <1>1
<1> QED
  BY <1>8, <1>9

LEMMA IndexLocates ==
  ASSUME AudioTypes, Indexed
  PROVE  AudioIndexLocates
<1> DEFINE L == Len(audio_index)
           S == {n \in Nat : n + 1 <= L => audio_index[n + 1].offset = Bytes[n]}
<1>1. /\ L \in Nat /\ Len(blob) = L /\ DOMAIN audio_index = 1..L
      /\ \A e \in 1..L :
           /\ audio_index[e].hash = blob[e]
           /\ audio_index[e].compressed_length = CompLen(blob[e])
           /\ audio_index[e].offset =
                IF e = 1 THEN 0
                ELSE audio_index[e - 1].offset + audio_index[e - 1].compressed_length
  BY DEF AudioTypes, Indexed
<1>2. Bytes[0] = 0 /\ \A n \in 1..L : Bytes[n] = Bytes[n - 1] + CompLen(blob[n])
  BY <1>1, BytesAre
<1>3. 0 \in S
  BY <1>1, <1>2
<1>4. ASSUME NEW n \in Nat, n \in S PROVE n + 1 \in S
  <2> SUFFICES ASSUME n + 2 <= L PROVE audio_index[n + 2].offset = Bytes[n + 1]
    OBVIOUS
  <2>1. /\ n + 1 \in 1..L /\ n + 2 \in 1..L /\ n + 2 # 1
        /\ (n + 2) - 1 = n + 1 /\ (n + 1) - 1 = n
    BY <1>1
  <2>2. audio_index[n + 1].offset = Bytes[n]
    BY <1>4, <2>1
  <2> HIDE DEF S
  <2>3. audio_index[n + 2].offset = audio_index[n + 1].offset + CompLen(blob[n + 1])
    BY <1>1, <2>1
  <2>4. Bytes[n + 1] = Bytes[n] + CompLen(blob[n + 1])
    BY <1>2, <2>1
  <2> QED
    BY <2>2, <2>3, <2>4
<1>5. Nat \subseteq S
  <2> HIDE DEF S
  <2> QED
    BY <1>3, <1>4, UpFromZero
<1>6. ASSUME NEW e \in 1..L PROVE audio_index[e].offset = Bytes[e - 1]
  <2>1. e - 1 \in S /\ (e - 1) + 1 = e /\ e <= L
    <3> HIDE DEF S
    <3> QED
      BY <1>1, <1>5
  <2> QED
    BY <2>1
<1> QED
  BY <1>1, <1>6 DEF AudioIndexLocates

-----------------------------------------------------------------------------
(* The discs.                                                               *)

(* Every hash among the joined runs is a piece of one of them.              *)
LEMMA JoinedHas ==
  ASSUME NEW content \in Seq(Runs), NEW x \in ToSet(AllPieces(content))
  PROVE  \E r \in 1..Len(content) : \E k \in 1..Len(content[r].pieces) : content[r].pieces[k] = x
<1> DEFINE L == Len(content)
           f == Joined(content)
           Of(y) == \E r \in 1..L : \E k \in 1..Len(content[r].pieces) : content[r].pieces[k] = y
           S == {n \in Nat : n <= L => \A i \in 1..Len(f[n]) : Of(f[n][i])}
<1>1. /\ L \in Nat /\ \A n \in 0..L : f[n] \in Seq(Hash)
      /\ f[0] = << >> /\ \A r \in 1..L : f[r] = f[r - 1] \o content[r].pieces
      /\ \A r \in 1..L : content[r].pieces \in Seq(Hash)
      /\ AllPieces(content) = f[L]
  BY JoinedExists, RunOf, AllPiecesJoined DEF IsJoined
<1> HIDE DEF f
<1>2. 0 \in S
  BY <1>1
<1>3. ASSUME NEW n \in Nat, n \in S PROVE n + 1 \in S
  <2> SUFFICES ASSUME n + 1 <= L PROVE \A i \in 1..Len(f[n + 1]) : Of(f[n + 1][i])
    OBVIOUS
  <2> DEFINE a == f[n]
             b == content[n + 1].pieces
  <2>1. n + 1 \in 1..L /\ n \in 0..L /\ (n + 1) - 1 = n
    BY <1>1
  <2>2. a \in Seq(Hash) /\ b \in Seq(Hash) /\ f[n + 1] = a \o b
    <3> HIDE DEF S
    <3> QED
      BY <1>1, <2>1
  <2>3. \A i \in 1..Len(a) : Of(a[i])
    BY <1>3, <2>1
  <2>4. \A k \in 1..Len(b) : Of(b[k])
    BY <2>1
  <2> HIDE DEF a, b, Of, S
  <2>5. ASSUME NEW i \in 1..Len(a \o b) PROVE Of((a \o b)[i])
    <3>1. CASE i <= Len(a)
      <4>1. i \in 1..Len(a) /\ (a \o b)[i] = a[i]
        BY <2>2, <3>1
      <4> QED
        BY <2>3, <4>1
    <3>2. CASE ~(i <= Len(a))
      <4>1. i - Len(a) \in 1..Len(b) /\ (a \o b)[i] = b[i - Len(a)]
        BY <2>2, <3>2
      <4> QED
        BY <2>4, <4>1
    <3> QED
      BY <3>1, <3>2
  <2> QED
    BY <2>2, <2>5
<1>4. Nat \subseteq S
  <2> HIDE DEF S
  <2> QED
    BY <1>2, <1>3, UpFromZero
<1>5. \A i \in 1..Len(f[L]) : Of(f[L][i])
  <2>1. L \in S
    <3> HIDE DEF S
    <3> QED
      BY <1>1, <1>4
  <2> QED
    BY <1>1, <2>1
<1>6. L \in 0..L /\ f[L] \in Seq(Hash)
  BY <1>1
<1>7. PICK i \in 1..Len(f[L]) : f[L][i] = x
  <2>1. x \in ToSet(f[L])
    BY <1>1
  <2>2. DOMAIN f[L] = 1..Len(f[L])
    BY <1>6
  <2> QED
    BY <2>1, <2>2 DEF ToSet
<1> QED
  BY <1>5, <1>7

(* A sheet's content is a sequence of runs.                                 *)
LEMMA ContentIs ==
  ASSUME MainTypes, NEW s \in Sheet
  PROVE  /\ Content(s) \in Seq(Runs) /\ Len(Content(s)) \in Nat
         /\ \A r \in 1..Len(Content(s)) :
              Content(s)[r].kind \in Kind /\ Content(s)[r].pieces \in Seq(Hash)
<1>1. input \in Inputs
  BY DEF MainTypes
<1>2. input.sheets \in Seq(ToSet(input.sheets)) /\ input.sheets # << >>
  BY <1>1, OpticalAssumption DEF Sheet
<1>3. 1 \in DOMAIN input.sheets
  BY <1>2
<1>4. Content(s) \in Seq(Runs)
  BY <1>1, <1>3, OpticalAssumption DEF Content, BinIn, Sheet
<1> QED
  BY <1>4, RunOf

LEMMA DiscIs ==
  ASSUME MainTypes, NEW s \in Sheet
  PROVE  /\ disc[s].at \in Places /\ disc[s].run \in Nat \ {0} /\ disc[s].piece \in Nat \ {0}
         /\ disc[s].sent \in Seq(Hash)
<1>1. disc[s] \in Discs
  BY DEF MainTypes
<1> QED
  BY <1>1 DEF Discs

(* What a step of a worker makes of its place in the disc.                  *)
Moves(s, at, run, piece, sent) ==
  /\ disc' \in [Sheet -> Discs]
  /\ \A t \in Sheet \ {s} : disc'[t] = disc[t]
  /\ disc'[s].at = at /\ disc'[s].run = run /\ disc'[s].piece = piece /\ disc'[s].sent = sent

LEMMA MovesTo ==
  ASSUME MainTypes, NEW s \in Sheet, NEW d \in Discs, disc' = [disc EXCEPT ![s] = d]
  PROVE  Moves(s, d.at, d.run, d.piece, d.sent)
BY DEF Moves, MainTypes

LEMMA MovesAt ==
  ASSUME MainTypes, NEW s \in Sheet, NEW at \in Places, disc' = [disc EXCEPT ![s].at = at]
  PROVE  Moves(s, at, disc[s].run, disc[s].piece, disc[s].sent)
<1> DEFINE d == [disc[s] EXCEPT !.at = at]
<1>1. disc[s] \in Discs
  BY DEF MainTypes
<1>2. d \in Discs
  BY <1>1 DEF Discs
<1>3. d.at = at /\ d.run = disc[s].run /\ d.piece = disc[s].piece /\ d.sent = disc[s].sent
  BY <1>1 DEF Discs
<1>4. disc' = [disc EXCEPT ![s] = d]
  OBVIOUS
<1> HIDE DEF d
<1>5. Moves(s, d.at, d.run, d.piece, d.sent)
  BY <1>2, <1>4, MovesTo
<1> QED
  BY <1>3, <1>5

(* The place after the last piece of a run, and after one piece more.       *)
LEMMA MovesToNextRun ==
  ASSUME MainTypes, NEW s \in Sheet, disc' = [disc EXCEPT ![s] = NextRun(@)]
  PROVE  Moves(s, disc[s].at, disc[s].run + 1, 1, disc[s].sent)
<1> DEFINE d == NextRun(disc[s])
<1>1. disc[s] \in Discs
  BY DEF MainTypes
<1>2. disc[s].run \in Nat
  BY <1>1 DEF Discs
<1>3. disc[s].run + 1 \in Nat \ {0} /\ 1 \in Nat \ {0}
  BY <1>2
<1>4. d \in Discs
  BY <1>1, <1>3 DEF Discs, NextRun
<1>5. d.at = disc[s].at /\ d.run = disc[s].run + 1 /\ d.piece = 1 /\ d.sent = disc[s].sent
  BY <1>1 DEF Discs, NextRun
<1>6. disc' = [disc EXCEPT ![s] = d]
  OBVIOUS
<1> HIDE DEF d
<1>7. Moves(s, d.at, d.run, d.piece, d.sent)
  BY <1>4, <1>6, MovesTo
<1> QED
  BY <1>5, <1>7

LEMMA MovesToNextPiece ==
  ASSUME MainTypes, NEW s \in Sheet, SendPiece(s)
  PROVE  /\ disc[s].run \in 1..Len(Content(s)) /\ disc[s].piece \in 1..Len(Run(s).pieces)
         /\ Run(s).kind \in Kind /\ Run(s).pieces[disc[s].piece] \in Hash
         /\ Moves(s, disc[s].at, disc[s].run, disc[s].piece + 1, Sent(s))
<1> DEFINE d == [disc[s] EXCEPT !.piece = disc[s].piece + 1, !.sent = Sent(s)]
<1>0. /\ disc[s] \in Discs
      /\ disc[s].run \in Nat /\ disc[s].run # 0 /\ disc[s].piece \in Nat /\ disc[s].piece # 0
      /\ disc[s].sent \in Seq(Hash)
  BY DiscIs DEF MainTypes
<1>1. disc[s].run \in 1..Len(Content(s))
  <2>1. disc[s].run <= Len(Content(s)) /\ Len(Content(s)) \in Nat
    BY ContentIs DEF SendPiece, Sending
  <2> QED
    BY <1>0, <2>1
<1>2. Run(s).kind \in Kind /\ Run(s).pieces \in Seq(Hash)
  BY <1>1, ContentIs DEF Run
<1>3. disc[s].piece \in 1..Len(Run(s).pieces)
  <2>1. disc[s].piece <= Len(Run(s).pieces) /\ Len(Run(s).pieces) \in Nat
    BY <1>2 DEF SendPiece
  <2> QED
    BY <1>0, <2>1
<1>4. Run(s).pieces[disc[s].piece] \in Hash
  BY <1>2, <1>3
<1>5. Sent(s) \in Seq(Hash)
  BY <1>0, <1>4, AppendOf DEF Sent
<1>6. disc[s].piece + 1 \in Nat /\ disc[s].piece + 1 # 0
  BY <1>0
<1>7. d \in Discs
  BY <1>0, <1>5, <1>6 DEF Discs
<1>8. /\ d.at = disc[s].at /\ d.run = disc[s].run /\ d.piece = disc[s].piece + 1
      /\ d.sent = Sent(s)
  BY <1>0 DEF Discs
<1>9. disc' = [disc EXCEPT ![s] = d]
  BY DEF SendPiece, MainTypes
<1> HIDE DEF d
<1>10. Moves(s, d.at, d.run, d.piece, d.sent)
  BY <1>7, <1>9, MovesTo
<1> QED
  BY <1>1, <1>2, <1>3, <1>4, <1>8, <1>10

KeptByDiscs == UNCHANGED <<input, pc, result, batch, batches, cacher, cache, checked, data_index,
                           archive, audioVars>>

(* What every step of a worker has in common.                               *)
LEMMA DiscMoves ==
  ASSUME MainTypes, NEW s \in Sheet, DiscStep(s) \/ WorkerFails(s)
  PROVE  /\ disc' \in [Sheet -> Discs]
         /\ \A t \in Sheet \ {s} : disc'[t] = disc[t]
         /\ disc[s].at \in {"waiting", "send", "enter"}
         /\ KeptByDiscs
<1>1. KeptByDiscs
  BY DEF KeptByDiscs, DiscStep, Begin, Skip, WorkerFails, SendPiece, SendRefused, RunSent,
         EnterHash, EnterManifest, KeptByWorkers
<1>2. disc[s].at \in {"waiting", "send", "enter"}
  BY DEF DiscStep, Begin, Skip, WorkerFails, SendPiece, SendRefused, RunSent, EnterHash,
         EnterManifest, Sending
<1>3. \E at, run, piece, sent : Moves(s, at, run, piece, sent)
  <2>1. CASE Begin(s) \/ Skip(s) \/ WorkerFails(s) \/ EnterHash(s) \/ EnterManifest(s)
    <3>1. \E at \in Places : disc' = [disc EXCEPT ![s].at = at]
      BY <2>1 DEF Begin, Skip, WorkerFails, EnterHash, EnterManifest, Places
    <3> QED
      BY <3>1, MovesAt
  <2>2. CASE SendRefused(s) \/ RunSent(s)
    BY <2>2, MovesToNextRun DEF SendRefused, RunSent
  <2>3. CASE SendPiece(s)
    BY <2>3, MovesToNextPiece
  <2> QED
    BY <2>1, <2>2, <2>3 DEF DiscStep
<1> QED
  BY <1>1, <1>2, <1>3 DEF Moves

LEMMA DiscTypes ==
  ASSUME MainTypes, NEW s \in Sheet, DiscStep(s) \/ WorkerFails(s)
  PROVE  MainTypes'
<1>1. /\ disc' \in [Sheet -> Discs]
      /\ UNCHANGED <<input, pc, result, batch, batches, cacher, cache>>
  BY DiscMoves DEF KeptByDiscs
<1>2. queue' \in Seq([kind : Kind, piece : Hash]) /\ Len(queue') <= CHANNEL
  <2>0. queue \in Seq([kind : Kind, piece : Hash]) /\ Len(queue) <= CHANNEL
    BY DEF MainTypes
  <2>1. CASE SendPiece(s)
    <3> DEFINE sent == [kind |-> Run(s).kind, piece |-> Run(s).pieces[disc[s].piece]]
    <3>1. sent \in [kind : Kind, piece : Hash]
      BY <2>1, MovesToNextPiece
    <3>2. queue' = Append(queue, sent) /\ Len(queue) < CHANNEL
      BY <2>1 DEF SendPiece
    <3> HIDE DEF sent
    <3>3. queue' \in Seq([kind : Kind, piece : Hash]) /\ Len(queue) \in Nat
          /\ Len(queue') = Len(queue) + 1
      BY <2>0, <3>1, <3>2, AppendOf
    <3> QED
      BY <3>2, <3>3, OpticalAssumption
  <2>2. CASE ~SendPiece(s)
    <3>1. queue' = queue
      BY <2>2 DEF DiscStep, Begin, Skip, WorkerFails, SendRefused, RunSent, EnterHash,
                  EnterManifest
    <3> QED
      BY <2>0, <3>1
  <2> QED
    BY <2>1, <2>2
<1>3. Sheet' = Sheet
  BY <1>1 DEF Sheet
<1> QED
  BY <1>1, <1>2, <1>3 DEF MainTypes

LEMMA InputKept ==
  ASSUME input' = input
  PROVE  /\ Sheet' = Sheet /\ Titles' = Titles
         /\ DistinctTitles' = DistinctTitles /\ OneDirectory' = OneDirectory
         /\ \A s \in Sheet :
              Title(s)' = Title(s) /\ Content(s)' = Content(s) /\ Owned(s)' = Owned(s)
         /\ \A t : collection_id(t)' = collection_id(t)
BY DEF Sheet, Titles, Title, DistinctTitles, OneDirectory, Content, Owned, BinIn, collection_id,
       next_collection_id

(* The joined pieces of a disc grow by one run.                             *)
LEMMA JoinedGrows ==
  ASSUME NEW content \in Seq(Runs), NEW r \in 1..Len(content)
  PROVE  /\ Joined(content)[r - 1] \in Seq(Hash) /\ content[r].pieces \in Seq(Hash)
         /\ Joined(content)[r] = Joined(content)[r - 1] \o content[r].pieces
         /\ Joined(content)[r] \in Seq(Hash)
<1>1. IsJoined(content, Joined(content))
  BY JoinedExists
<1>2. r - 1 \in 0..Len(content) /\ r \in 0..Len(content) /\ content[r].pieces \in Seq(Hash)
  BY RunOf
<1> QED
  BY <1>1, <1>2 DEF IsJoined

(* The pieces before a place, the one at it, and all of them.               *)
LEMMA OnePieceMore ==
  ASSUME NEW before \in Seq(Hash), NEW pieces \in Seq(Hash), NEW k \in 1..Len(pieces)
  PROVE  Append(before \o SubSeq(pieces, 1, k - 1), pieces[k]) = before \o SubSeq(pieces, 1, k)
OBVIOUS

LEMMA NoPieceYet ==
  ASSUME NEW before \in Seq(Hash), NEW pieces \in Seq(Hash)
  PROVE  /\ before \o SubSeq(pieces, 1, 0) = before
         /\ SubSeq(pieces, 1, Len(pieces)) = pieces
OBVIOUS

LEMMA ProgressIs ==
  ASSUME NEW s, Progress(s), disc[s].run <= Len(Content(s))
  PROVE  /\ disc[s].piece \in 1..(Len(Content(s)[disc[s].run].pieces) + 1)
         /\ disc[s].sent = Joined(Content(s))[disc[s].run - 1]
                             \o SubSeq(Content(s)[disc[s].run].pieces, 1, disc[s].piece - 1)
BY DEF Progress, Run

(* Where a worker is, over what it has sent, after its step.                *)
LEMMA ProgressGoesOn ==
  ASSUME MainTypes, NEW s \in Sheet, Progress(s), pc # "returned",
         DiscStep(s) \/ WorkerFails(s)
  PROVE  Progress(s)'
<1> DEFINE c == Content(s)
           L == Len(c)
           r == disc[s].run
           k == disc[s].piece
           J == Joined(c)
<1>1. /\ c \in Seq(Runs) /\ L \in Nat /\ r \in 1..(L + 1) /\ k \in Nat /\ k # 0
      /\ Content(s)' = c
  BY ContentIs, DiscIs, DiscMoves, InputKept DEF Progress, KeptByDiscs
<1> HIDE DEF c, J
<1>2. CASE /\ disc'[s].run = r /\ disc'[s].piece = k /\ disc'[s].sent = disc[s].sent
  BY <1>1, <1>2 DEF Progress, Run, c
<1>3. CASE RunSent(s)
  <2>1. /\ disc'[s].run = r + 1 /\ disc'[s].piece = 1 /\ disc'[s].sent = disc[s].sent
    BY <1>3, MovesToNextRun DEF RunSent, Moves
  <2>2. r \in 1..L /\ k > Len(c[r].pieces)
    BY <1>1, <1>3 DEF RunSent, Sending, Run, c
  <2>3. /\ J[r - 1] \in Seq(Hash) /\ c[r].pieces \in Seq(Hash) /\ J[r] \in Seq(Hash)
        /\ J[r] = J[r - 1] \o c[r].pieces
    BY <1>1, <2>2, JoinedGrows DEF J
  <2>4. k = Len(c[r].pieces) + 1 /\ disc[s].sent = J[r - 1] \o SubSeq(c[r].pieces, 1, k - 1)
    <3>1. /\ k \in 1..(Len(c[r].pieces) + 1)
          /\ disc[s].sent = J[r - 1] \o SubSeq(c[r].pieces, 1, k - 1)
      <4>1. r <= L
        BY <1>1, <2>2
      <4> QED
        BY <4>1, ProgressIs DEF c, J
    <3>2. Len(c[r].pieces) \in Nat
      BY <2>3
    <3>3. k = Len(c[r].pieces) + 1
      <4> HIDE DEF k, r
      <4> QED
        BY <1>1, <2>2, <3>1, <3>2
    <3> QED
      BY <3>1, <3>3
  <2>5. disc[s].sent = J[r]
    <3>1. k - 1 = Len(c[r].pieces)
      BY <2>3, <2>4
    <3> QED
      BY <2>3, <2>4, <3>1, NoPieceYet
  <2>6. CASE r + 1 <= L
    <3>1. r + 1 \in 1..L /\ (r + 1) - 1 = r
      BY <1>1, <2>2, <2>6
    <3>2. c[r + 1].pieces \in Seq(Hash)
      BY <1>1, <3>1, RunOf
    <3>3. J[r] \o SubSeq(c[r + 1].pieces, 1, 0) = J[r] /\ 1 \in 1..(Len(c[r + 1].pieces) + 1)
      <4>1. J[r] \o SubSeq(c[r + 1].pieces, 1, 0) = J[r]
        BY <2>3, <3>2, NoPieceYet
      <4>2. Len(c[r + 1].pieces) \in Nat
        BY <3>2
      <4> QED
        BY <4>1, <4>2
    <3>4. r + 1 \in 1..(L + 1) /\ 1 - 1 = 0
      BY <1>1, <3>1
    <3>5. disc'[s].sent = J[(r + 1) - 1] \o SubSeq(c[r + 1].pieces, 1, 1 - 1)
      BY <2>1, <2>5, <3>1, <3>3, <3>4
    <3> HIDE DEF r, k, L
    <3> QED
      BY <1>1, <2>1, <2>6, <3>3, <3>4, <3>5 DEF Progress, Run, J, L
  <2>7. CASE ~(r + 1 <= L)
    <3>1. r = L /\ r + 1 \in 1..(L + 1)
      BY <1>1, <2>2, <2>7
    <3>2. disc'[s].sent = J[L]
      BY <2>1, <2>5, <3>1
    <3> HIDE DEF r, k, L
    <3> QED
      BY <1>1, <2>1, <2>7, <3>1, <3>2 DEF Progress, J, L
  <2> QED
    BY <2>6, <2>7
<1>4. CASE SendPiece(s)
  <2>1. /\ disc'[s].run = r /\ disc'[s].piece = k + 1 /\ disc'[s].sent = Sent(s)
        /\ r \in 1..L /\ k \in 1..Len(c[r].pieces)
    BY <1>4, MovesToNextPiece DEF Moves, Run, c
  <2>2. /\ J[r - 1] \in Seq(Hash) /\ c[r].pieces \in Seq(Hash)
    BY <1>1, <2>1, JoinedGrows DEF J
  <2>3. disc[s].sent = J[r - 1] \o SubSeq(c[r].pieces, 1, k - 1)
    <3>1. r <= L
      BY <1>1, <2>1
    <3> QED
      BY <3>1, ProgressIs DEF c, J
  <2>4. Sent(s) = J[r - 1] \o SubSeq(c[r].pieces, 1, k)
    <3>1. Sent(s) = Append(disc[s].sent, c[r].pieces[k])
      BY DEF Sent, Run, c
    <3> QED
      BY <2>1, <2>2, <2>3, <3>1, OnePieceMore
  <2>5. (k + 1) - 1 = k /\ k + 1 \in 1..(Len(c[r].pieces) + 1) /\ r <= L
    BY <1>1, <2>1, <2>2
  <2>6. disc'[s].sent = J[r - 1] \o SubSeq(c[r].pieces, 1, (k + 1) - 1)
    BY <2>1, <2>4, <2>5
  <2> HIDE DEF r, k, L
  <2> QED
    BY <1>1, <2>1, <2>5, <2>6 DEF Progress, Run, J, L
<1>5. CASE Begin(s) \/ Skip(s) \/ WorkerFails(s) \/ EnterHash(s) \/ EnterManifest(s)
  <2>1. \E at \in Places : disc' = [disc EXCEPT ![s].at = at]
    BY <1>5 DEF Begin, Skip, WorkerFails, EnterHash, EnterManifest, Places
  <2> QED
    BY <1>2, <2>1, MovesAt DEF Moves
<1>6. ~SendRefused(s)
  BY DEF SendRefused, ReceiverGone
<1> QED
  BY <1>3, <1>4, <1>5, <1>6 DEF DiscStep

LEMMA EnteredGoesOn ==
  ASSUME MainTypes, Entered, NEW s \in Sheet, DiscStep(s) \/ WorkerFails(s)
  PROVE  Entered'
<1>1. /\ \A t \in Sheet \ {s} : disc'[t] = disc[t]
      /\ Sheet' = Sheet /\ Titles' = Titles /\ DistinctTitles' = DistinctTitles
      /\ \A t \in Sheet : Title(t)' = Title(t) /\ Content(t)' = Content(t)
  BY DiscMoves, InputKept DEF KeptByDiscs
<1>2. Title(s) \in Titles
  BY DEF Titles
<1>3. CASE /\ UNCHANGED <<manifests, hashes>>
           /\ disc'[s].at \notin {"enter", "done"}
  BY <1>1, <1>3 DEF Entered
<1>4. CASE EnterHash(s)
  <2>1. /\ disc'[s].at = "enter" /\ manifests' = manifests
        /\ hashes' = Enter(hashes, Title(s), Content(s))
    BY <1>4, MovesAt DEF EnterHash, Places, Moves
  <2> DEFINE title == Title(s)
  <2>5. DOMAIN hashes' = DOMAIN hashes \cup {title} /\ hashes'[title] = Content(s)
        /\ \A t \in DOMAIN hashes : t # title => hashes'[t] = hashes[t]
    <3> HIDE DEF title
    <3>1. hashes' = Enter(hashes, title, Content(s))
      BY <2>1 DEF title
    <3> QED
      BY <3>1 DEF Enter
  <2>2. ASSUME DistinctTitles, NEW t \in Sheet, disc'[t].at \in {"enter", "done"}
        PROVE  Title(t) \in DOMAIN hashes' /\ hashes'[Title(t)] = Content(t)
    <3>1. CASE t = s
      BY <2>5, <3>1
    <3>2. CASE t # s
      <4>1. Title(t) \in DOMAIN hashes /\ hashes[Title(t)] = Content(t) /\ Title(t) # Title(s)
        BY <1>1, <2>2, <3>2 DEF Entered, DistinctTitles
      <4> QED
        BY <2>5, <4>1
    <3> QED
      BY <3>1, <3>2
  <2>3. ASSUME NEW t \in Sheet, disc'[t].at = "done" PROVE t # s /\ disc'[t] = disc[t]
    BY <1>1, <2>1, <2>3
  <2> QED
    BY <1>1, <2>1, <2>2, <2>3 DEF Entered
<1>5. CASE EnterManifest(s)
  <2>1. /\ disc'[s].at = "done" /\ disc'[s].sent = disc[s].sent /\ hashes' = hashes
        /\ manifests' = Enter(manifests, Title(s), disc[s].sent) /\ disc[s].at = "enter"
    BY <1>5, MovesAt DEF EnterManifest, Places, Moves
  <2>2. DOMAIN manifests' = DOMAIN manifests \cup {Title(s)} /\ manifests'[Title(s)] = disc[s].sent
        /\ \A t \in DOMAIN manifests : t # Title(s) => manifests'[t] = manifests[t]
    <3> DEFINE title == Title(s)
               value == disc[s].sent
    <3>1. manifests' = Enter(manifests, title, value)
      BY <2>1
    <3> HIDE DEF title, value
    <3>2. DOMAIN manifests' = DOMAIN manifests \cup {title} /\ manifests'[title] = value
          /\ \A t \in DOMAIN manifests : t # title => manifests'[t] = manifests[t]
      BY <3>1 DEF Enter
    <3> QED
      BY <3>2 DEF title, value
  <2>3. DOMAIN manifests' \subseteq Titles
    BY <1>2, <2>2 DEF Entered
  <2>4. ASSUME NEW t \in Sheet, disc'[t].at = "done" PROVE Title(t) \in DOMAIN manifests'
    BY <1>1, <2>2, <2>4 DEF Entered
  <2>5. ASSUME DistinctTitles, NEW t \in Sheet, disc'[t].at = "done"
        PROVE  manifests'[Title(t)] = disc'[t].sent
    <3>1. CASE t = s
      BY <2>1, <2>2, <3>1
    <3>2. CASE t # s
      <4>1. /\ disc'[t] = disc[t] /\ Title(t) \in DOMAIN manifests /\ Title(t) # Title(s)
            /\ manifests[Title(t)] = disc[t].sent
        BY <1>1, <2>5, <3>2 DEF Entered, DistinctTitles
      <4> QED
        BY <2>2, <4>1
    <3> QED
      BY <3>1, <3>2
  <2>6. ASSUME DistinctTitles, NEW t \in Sheet, disc'[t].at \in {"enter", "done"}
        PROVE  Title(t) \in DOMAIN hashes' /\ hashes'[Title(t)] = Content(t)
    <3>1. disc[t].at \in {"enter", "done"}
      BY <1>1, <2>1, <2>6
    <3> QED
      BY <2>1, <2>6, <3>1 DEF Entered
  <2> QED
    BY <1>1, <2>3, <2>4, <2>5, <2>6 DEF Entered
<1>6. CASE Begin(s) \/ Skip(s) \/ WorkerFails(s)
  <2>1. \E at \in Places \ {"enter", "done"} : disc' = [disc EXCEPT ![s].at = at]
    BY <1>6 DEF Begin, Skip, WorkerFails, Places
  <2>2. UNCHANGED <<manifests, hashes>>
    BY <1>6 DEF Begin, Skip, WorkerFails
  <2>3. disc'[s].at \notin {"enter", "done"}
    BY <2>1, MovesAt DEF Moves
  <2> QED
    BY <1>3, <2>2, <2>3
<1>7. CASE SendRefused(s) \/ RunSent(s)
  <2>1. disc'[s].at = "send" /\ UNCHANGED <<manifests, hashes>>
    BY <1>7, MovesToNextRun DEF SendRefused, RunSent, Sending, Moves
  <2> QED
    BY <1>3, <2>1
<1>8. CASE SendPiece(s)
  <2>1. disc'[s].at = "send" /\ UNCHANGED <<manifests, hashes>>
    BY <1>8, MovesToNextPiece DEF SendPiece, Sending, Moves
  <2> QED
    BY <1>3, <2>1
<1> QED
  BY <1>4, <1>5, <1>6, <1>7, <1>8 DEF DiscStep

LEMMA WorkerGoesOn ==
  ASSUME MainTypes, WorkerInv, NEW s \in Sheet, pc # "returned", DiscStep(s) \/ WorkerFails(s)
  PROVE  WorkerInv'
<1>1. /\ \A t \in Sheet \ {s} : disc'[t] = disc[t]
      /\ disc[s].at \in {"waiting", "send", "enter"}
      /\ Sheet' = Sheet
      /\ \A t \in Sheet : Title(t)' = Title(t) /\ Content(t)' = Content(t)
  BY DiscMoves, InputKept DEF KeptByDiscs
<1>2. Entered'
  BY EnteredGoesOn DEF WorkerInv
<1>3. ASSUME NEW t \in Sheet PROVE Progress(t)'
  <2>1. CASE t = s
    BY <2>1, ProgressGoesOn DEF WorkerInv
  <2>2. CASE t # s
    <3>1. disc'[t] = disc[t] /\ Content(t)' = Content(t) /\ Progress(t)
      BY <1>1, <2>2 DEF WorkerInv
    <3> QED
      BY <3>1 DEF Progress, Run
  <2> QED
    BY <2>1, <2>2
<1>4. ASSUME NEW t \in Sheet, disc'[t].at \in {"enter", "done"}
      PROVE  disc'[t].run = Len(Content(t)) + 1
  <2>1. CASE t # s
    BY <1>1, <1>4, <2>1 DEF WorkerInv
  <2>2. CASE t = s /\ EnterHash(s)
    <3>1. disc'[s].run = disc[s].run /\ disc[s].at = "send" /\ ~(disc[s].run <= Len(Content(s)))
      BY <2>2, MovesAt DEF EnterHash, Places, Moves, Sending
    <3>2. disc[s].run \in 1..(Len(Content(s)) + 1) /\ Len(Content(s)) \in Nat
      BY ContentIs DEF WorkerInv, Progress
    <3> QED
      BY <2>2, <3>1, <3>2
  <2>3. CASE t = s /\ EnterManifest(s)
    <3>1. disc'[s].run = disc[s].run /\ disc[s].at = "enter"
      BY <2>3, MovesAt DEF EnterManifest, Places, Moves
    <3> QED
      BY <2>3, <3>1 DEF WorkerInv
  <2>4. CASE t = s /\ (Begin(s) \/ Skip(s) \/ WorkerFails(s))
    <3>1. \E at \in Places \ {"enter", "done"} : disc' = [disc EXCEPT ![s].at = at]
      BY <2>4 DEF Begin, Skip, WorkerFails, Places
    <3> QED
      BY <1>4, <2>4, <3>1, MovesAt DEF Moves
  <2>5. CASE t = s /\ (SendRefused(s) \/ RunSent(s) \/ SendPiece(s))
    <3>1. disc'[s].at = disc[s].at
      BY <2>5, MovesToNextRun, MovesToNextPiece DEF SendRefused, RunSent, Moves
    <3>2. disc[s].at = "send"
      BY <2>5 DEF SendRefused, RunSent, SendPiece, Sending
    <3> QED
      BY <1>4, <2>5, <3>1, <3>2
  <2> QED
    BY <2>1, <2>2, <2>3, <2>4, <2>5 DEF DiscStep
<1>5. ASSUME NEW t \in Sheet, disc'[t].at = "skipped"
      PROVE  \E u \in Sheet : disc'[u].at = "failed"
  <2>1. PICK u \in Sheet : disc[u].at = "failed"
    <3>1. CASE t # s
      BY <1>1, <1>5, <3>1 DEF WorkerInv
    <3>2. CASE t = s
      <4>1. CASE Skip(s)
        BY <4>1 DEF Skip
      <4>2. CASE Begin(s) \/ WorkerFails(s) \/ EnterHash(s) \/ EnterManifest(s)
        <5>1. \E at \in Places \ {"skipped"} : disc' = [disc EXCEPT ![s].at = at]
          BY <4>2 DEF Begin, WorkerFails, EnterHash, EnterManifest, Places
        <5> QED
          BY <1>5, <3>2, <5>1, MovesAt DEF Moves
      <4>3. CASE SendRefused(s) \/ RunSent(s) \/ SendPiece(s)
        <5>1. disc'[s].at = disc[s].at
          BY <4>3, MovesToNextRun, MovesToNextPiece DEF SendRefused, RunSent, Moves
        <5> QED
          BY <1>1, <1>5, <3>2, <5>1
      <4> QED
        BY <4>1, <4>2, <4>3 DEF DiscStep
    <3> QED
      BY <3>1, <3>2
  <2>2. u # s
    BY <1>1, <2>1
  <2> QED
    BY <1>1, <2>1, <2>2
<1> QED
  BY <1>1, <1>2, <1>3, <1>4, <1>5 DEF WorkerInv

LEMMA WorkerKept ==
  ASSUME WorkerInv, UNCHANGED <<input, disc, manifests, hashes>>
  PROVE  WorkerInv'
<1>1. /\ Sheet' = Sheet /\ Titles' = Titles /\ DistinctTitles' = DistinctTitles
      /\ \A t \in Sheet : Title(t)' = Title(t) /\ Content(t)' = Content(t)
  BY InputKept
<1>2. \A t \in Sheet : Progress(t)'
  BY <1>1 DEF WorkerInv, Progress, Run
<1>3. Entered'
  BY <1>1 DEF WorkerInv, Entered
<1> QED
  BY <1>1, <1>2, <1>3 DEF WorkerInv

(* A piece on its way stays on its way.                                     *)
LEMMA FlowKept ==
  ASSUME MainTypes, FlowInv, UNCHANGED <<input, disc>>,
         cacher' # "error" => cacher # "error" /\
           \A kind \in Kind, piece \in Hash : OnItsWay(kind, piece) => OnItsWay(kind, piece)'
  PROVE  FlowInv'
<1>1. Sheet' = Sheet /\ \A t \in Sheet : Content(t)' = Content(t)
  BY InputKept
<1> SUFFICES ASSUME cacher' # "error", NEW s \in Sheet, NEW r \in 1..Len(Content(s)),
                    NEW k \in 1..Len(Content(s)[r].pieces),
                    r < disc[s].run \/ (r = disc[s].run /\ k < disc[s].piece)
             PROVE  OnItsWay(Content(s)[r].kind, Content(s)[r].pieces[k])'
  BY <1>1 DEF FlowInv
<1>2. Content(s)[r].kind \in Kind /\ Content(s)[r].pieces[k] \in Hash
  BY ContentIs
<1>3. OnItsWay(Content(s)[r].kind, Content(s)[r].pieces[k])
  BY DEF FlowInv
<1>4. Content(s)' = Content(s)
  BY <1>1
<1>5. \A a \in Kind, b \in Hash : OnItsWay(a, b) => OnItsWay(a, b)'
  OBVIOUS
<1>6. PICK a \in Kind, b \in Hash : a = Content(s)[r].kind /\ b = Content(s)[r].pieces[k]
  BY <1>2
<1>7. OnItsWay(a, b)
  BY <1>3, <1>6
<1>8. OnItsWay(a, b)'
  BY <1>5, <1>7
<1>9. (Content(s)[r].kind)' = a /\ (Content(s)[r].pieces[k])' = b
  BY <1>4, <1>6
<1> QED
  BY <1>8, <1>9 DEF OnItsWay

LEMMA FlowAfterDiscStep ==
  ASSUME MainTypes, WorkerInv, FlowInv, NEW s \in Sheet, pc # "returned",
         DiscStep(s) \/ WorkerFails(s)
  PROVE  FlowInv'
<1>1. /\ \A t \in Sheet \ {s} : disc'[t] = disc[t]
      /\ Sheet' = Sheet /\ \A t \in Sheet : Content(t)' = Content(t)
      /\ UNCHANGED <<batch, batches, cacher, cache>>
  BY DiscMoves, InputKept DEF KeptByDiscs
<1>2. queue \in Seq([kind : Kind, piece : Hash])
  BY DEF MainTypes
<1>3. ASSUME NEW kind, NEW piece, OnItsWay(kind, piece) PROVE OnItsWay(kind, piece)'
  <2>1. CASE queue' = queue
    BY <1>1, <1>3, <2>1 DEF OnItsWay
  <2>2. CASE SendPiece(s)
    <3> DEFINE sent == [kind |-> Run(s).kind, piece |-> Run(s).pieces[disc[s].piece]]
    <3>1. sent \in [kind : Kind, piece : Hash]
      BY <2>2, MovesToNextPiece
    <3>2. queue' = Append(queue, sent)
      BY <2>2 DEF SendPiece
    <3> HIDE DEF sent
    <3>3. Len(queue') = Len(queue) + 1 /\ Len(queue) \in Nat
          /\ \A q \in 1..Len(queue) : queue'[q] = queue[q]
      BY <1>2, <3>1, <3>2, AppendOf
    <3>4. \A q \in 1..Len(queue) : q \in 1..Len(queue')
      BY <3>3
    <3> QED
      BY <1>1, <1>3, <3>3, <3>4 DEF OnItsWay
  <2> QED
    BY <2>1, <2>2 DEF DiscStep, Begin, Skip, WorkerFails, SendRefused, RunSent, EnterHash,
                      EnterManifest
<1> SUFFICES ASSUME cacher # "error", NEW t \in Sheet, NEW r \in 1..Len(Content(t)),
                    NEW k \in 1..Len(Content(t)[r].pieces),
                    r < disc'[t].run \/ (r = disc'[t].run /\ k < disc'[t].piece)
             PROVE  OnItsWay(Content(t)[r].kind, Content(t)[r].pieces[k])'
  BY <1>1 DEF FlowInv
<1> DEFINE kind == Content(t)[r].kind
           piece == Content(t)[r].pieces[k]
<1>4. kind' = kind /\ piece' = piece
  BY <1>1
<1>5. CASE r < disc[t].run \/ (r = disc[t].run /\ k < disc[t].piece)
  <2>1. OnItsWay(kind, piece)
    BY <1>5 DEF FlowInv
  <2>2. PICK a, b : a = kind /\ b = piece
    OBVIOUS
  <2>3. OnItsWay(a, b)'
    BY <1>3, <2>1, <2>2
  <2>4. a = kind' /\ b = piece'
    BY <1>4, <2>2
  <2> QED
    BY <2>3, <2>4 DEF OnItsWay
<1>6. CASE SendPiece(s) /\ t = s /\ r = disc[s].run /\ k = disc[s].piece
  <2> DEFINE sent == [kind |-> kind, piece |-> piece]
  <2>1. queue' = Append(queue, sent)
    BY <1>6 DEF SendPiece, Run
  <2>2. sent \in [kind : Kind, piece : Hash]
    BY <1>6, MovesToNextPiece DEF Run
  <2> HIDE DEF sent
  <2>3. Len(queue') = Len(queue) + 1 /\ Len(queue) \in Nat /\ queue'[Len(queue) + 1] = sent
    BY <1>2, <2>1, <2>2, AppendOf
  <2>4. Len(queue) + 1 \in 1..Len(queue')
    BY <2>3
  <2>5. sent.kind = kind /\ sent.piece = piece
    BY DEF sent
  <2> HIDE DEF kind, piece
  <2> QED
    BY <1>4, <2>3, <2>4, <2>5 DEF OnItsWay, kind, piece
<1>7. (r < disc[t].run \/ (r = disc[t].run /\ k < disc[t].piece))
      \/ (SendPiece(s) /\ t = s /\ r = disc[s].run /\ k = disc[s].piece)
  <2>0. /\ Len(Content(t)) \in Nat /\ Content(t)[r].pieces \in Seq(Hash)
        /\ disc[t].run \in Nat /\ disc[t].piece \in Nat /\ k \in Nat /\ k # 0 /\ r \in Nat
    BY ContentIs, DiscIs
  <2>1. CASE t # s
    BY <1>1, <2>1
  <2>2. CASE t = s /\ SendPiece(s)
    <3>1. disc'[s].run = disc[s].run /\ disc'[s].piece = disc[s].piece + 1
      BY <2>2, MovesToNextPiece DEF Moves
    <3> QED
      BY <2>0, <2>2, <3>1
  <2>3. CASE t = s /\ RunSent(s)
    <3>1. disc'[s].run = disc[s].run + 1 /\ disc'[s].piece = 1
      BY <2>3, MovesToNextRun DEF RunSent, Moves
    <3>2. disc[s].piece > Len(Content(s)[disc[s].run].pieces)
      BY <2>3 DEF RunSent, Run
    <3>3. r < disc[s].run \/ r = disc[s].run
      BY <2>0, <2>3, <3>1
    <3>4. r = disc[s].run => k < disc[s].piece
      <4> SUFFICES ASSUME r = disc[s].run PROVE k < disc[s].piece
        OBVIOUS
      <4>1. Len(Content(s)[r].pieces) \in Nat /\ k <= Len(Content(s)[r].pieces)
        BY <2>0, <2>3
      <4> QED
        BY <2>0, <2>3, <3>2, <4>1
    <3> QED
      BY <2>3, <3>3, <3>4
  <2>4. CASE t = s /\ (Begin(s) \/ Skip(s) \/ WorkerFails(s) \/ EnterHash(s) \/ EnterManifest(s))
    <3>1. \E at \in Places : disc' = [disc EXCEPT ![s].at = at]
      BY <2>4 DEF Begin, Skip, WorkerFails, EnterHash, EnterManifest, Places
    <3>2. disc'[s].run = disc[s].run /\ disc'[s].piece = disc[s].piece
      BY <3>1, MovesAt DEF Moves
    <3> QED
      BY <2>4, <3>2
  <2>5. ~SendRefused(s)
    BY DEF SendRefused, ReceiverGone
  <2> QED
    BY <2>1, <2>2, <2>3, <2>4, <2>5 DEF DiscStep
<1> QED
  BY <1>5, <1>6, <1>7

LEMMA PhaseAfterDiscStep ==
  ASSUME MainTypes, PhaseInv, NEW s \in Sheet, pc # "returned", DiscStep(s) \/ WorkerFails(s)
  PROVE  PhaseInv'
<1>1. /\ disc[s].at \in {"waiting", "send", "enter"} /\ KeptByDiscs
  BY DiscMoves
<1>2. pc \in {"start", "collect"}
  BY <1>1 DEF PhaseInv, WorkersOver
<1> QED
  BY <1>1, <1>2 DEF PhaseInv, KeptByDiscs, AllJoined, SenderDropped, audioVars
-----------------------------------------------------------------------------
(* The thread that fills the caches.                                        *)
Batches == [kind : Kind, pieces : Seq(Hash)]

LEMMA FirstBatch ==
  ASSUME MainTypes, batches # << >>
  PROVE  /\ Head(batches) = batches[1] /\ Head(batches).kind \in Kind
         /\ Head(batches).pieces \in Seq(Hash)
         /\ IsFiniteSet(ToSet(Head(batches).pieces)) /\ ToSet(Head(batches).pieces) \subseteq Hash
         /\ Tail(batches) \in Seq(Batches) /\ Len(batches) \in Nat \ {0}
         /\ Len(Tail(batches)) = Len(batches) - 1
         /\ \A b \in 1..Len(Tail(batches)) : Tail(batches)[b] = batches[b + 1]
<1>1. batches \in Seq(Batches)
  BY DEF MainTypes, Batches
<1>2. /\ Head(batches) \in Batches /\ Head(batches) = batches[1]
      /\ Tail(batches) \in Seq(Batches) /\ Len(batches) \in Nat \ {0}
      /\ Len(Tail(batches)) = Len(batches) - 1
      /\ \A b \in 1..Len(Tail(batches)) : Tail(batches)[b] = batches[b + 1]
  BY <1>1, HeadOf
<1>3. Head(batches).kind \in Kind /\ Head(batches).pieces \in Seq(Hash)
  BY <1>2 DEF Batches
<1> QED
  BY <1>2, <1>3, ToSetIsFinite

LEMMA CacheTypes ==
  ASSUME MainTypes, CacheStep
  PROVE  MainTypes'
<1> DEFINE h == Head(batches)
           k == h.kind
           new == ToSet(h.pieces)
<1>1. /\ UNCHANGED <<input, pc, result, disc, queue, batch>> /\ Sheet' = Sheet
  BY DEF CacheStep, InsertBatch, CacherDone, KeptByCacher, Sheet
<1>2. batches' \in Seq(Batches) /\ Len(batches') <= BATCHES /\ cacher' \in {"open", "ok", "error"}
  <2>1. CASE InsertBatch
    <3>1. batches # << >> /\ batches' = Tail(batches) /\ cacher' \in {"open", "ok", "error"}
      BY <2>1 DEF InsertBatch
    <3>2. batches' \in Seq(Batches) /\ Len(batches') = Len(batches) - 1 /\ Len(batches) \in Nat
      BY <3>1, FirstBatch
    <3>3. Len(batches) <= BATCHES
      BY DEF MainTypes
    <3> QED
      BY <3>1, <3>2, <3>3, OpticalAssumption
  <2>2. CASE CacherDone
    BY <2>2 DEF CacherDone, MainTypes, Batches
  <2> QED
    BY <2>1, <2>2 DEF CacheStep
<1>3. cache' \in [Kind -> SUBSET Hash] /\ \A x \in Kind : IsFiniteSet(cache'[x])
  <2>0. cache \in [Kind -> SUBSET Hash] /\ \A x \in Kind : IsFiniteSet(cache[x])
    BY DEF MainTypes
  <2>1. CASE cache' = cache
    BY <2>0, <2>1
  <2>2. CASE batches # << >> /\ cache' = [cache EXCEPT ![h.kind] = @ \cup ToSet(h.pieces)]
    <3>1. k \in Kind /\ IsFiniteSet(new) /\ new \subseteq Hash
      BY <2>2, FirstBatch
    <3>2. IsFiniteSet(cache[k] \cup new)
      <4> HIDE DEF k, new
      <4> QED
        BY <2>0, <3>1, FS_Union
    <3>3. cache' = [cache EXCEPT ![k] = cache[k] \cup new]
      BY <2>2
    <3> HIDE DEF k, new
    <3> QED
      BY <2>0, <3>1, <3>2, <3>3
  <2> QED
    BY <2>1, <2>2 DEF CacheStep, InsertBatch, CacherDone
<1> QED
  BY <1>1, <1>2, <1>3 DEF MainTypes, Batches

LEMMA FlowAfterCacheStep ==
  ASSUME MainTypes, FlowInv, CacheStep
  PROVE  FlowInv'
<1>1. UNCHANGED <<input, disc, queue, batch>> /\ cacher = "open"
  BY DEF CacheStep, InsertBatch, CacherDone, KeptByCacher
<1>2. ASSUME cacher' # "error", NEW kind \in Kind, NEW piece \in Hash, OnItsWay(kind, piece)
      PROVE  OnItsWay(kind, piece)'
  <2>1. CASE CacherDone
    <3>1. UNCHANGED <<queue, batch, batches, cache>>
      BY <1>1, <2>1 DEF CacherDone
    <3> QED
      BY <1>2, <3>1 DEF OnItsWay
  <2>2. CASE InsertBatch
    <3> DEFINE h == Head(batches)
    <3>1. batches # << >> /\ batches' = Tail(batches)
          /\ cache' = [cache EXCEPT ![h.kind] = @ \cup ToSet(h.pieces)]
      BY <1>2, <2>2, <1>1 DEF InsertBatch
    <3>2. /\ h = batches[1] /\ h.kind \in Kind /\ h.pieces \in Seq(Hash)
          /\ Len(batches) \in Nat \ {0} /\ Len(batches') = Len(batches) - 1
          /\ \A b \in 1..Len(batches') : batches'[b] = batches[b + 1]
      BY <3>1, FirstBatch
    <3>3. cache[kind] \subseteq cache'[kind]
          /\ (kind = h.kind => ToSet(h.pieces) \subseteq cache'[kind])
      <4> HIDE DEF h
      <4> QED
        BY <3>1, <3>2 DEF MainTypes
    <3>4. CASE \E b \in 1..Len(batches) : /\ batches[b].kind = kind
                                          /\ \E i \in 1..Len(batches[b].pieces) :
                                               batches[b].pieces[i] = piece
      <4>1. PICK b \in 1..Len(batches) : /\ batches[b].kind = kind
                                         /\ \E i \in 1..Len(batches[b].pieces) :
                                              batches[b].pieces[i] = piece
        BY <3>4
      <4>2. CASE b = 1
        <5>1. PICK i \in 1..Len(h.pieces) : h.pieces[i] = piece
          BY <3>2, <4>1, <4>2
        <5>2. i \in DOMAIN h.pieces
          BY <3>2, <5>1
        <5>3. piece \in ToSet(h.pieces)
          BY <5>1, <5>2 DEF ToSet
        <5>4. kind = h.kind
          BY <3>2, <4>1, <4>2
        <5> HIDE DEF h
        <5> QED
          BY <3>3, <5>3, <5>4 DEF OnItsWay
      <4>3. CASE b # 1
        <5>1. b - 1 \in 1..Len(batches') /\ (b - 1) + 1 = b
          BY <3>2, <4>1, <4>3
        <5>2. batches'[b - 1] = batches[b]
          BY <3>2, <5>1
        <5> HIDE DEF h
        <5> QED
          BY <4>1, <5>1, <5>2 DEF OnItsWay
      <4> QED
        BY <4>2, <4>3
    <3> HIDE DEF h
    <3> QED
      BY <1>1, <1>2, <3>3, <3>4 DEF OnItsWay
  <2> QED
    BY <2>1, <2>2 DEF CacheStep
<1> QED
  BY <1>1, <1>2, FlowKept

LEMMA PhaseAfterCacheStep ==
  ASSUME MainTypes, PhaseInv, pc # "returned", CacheStep
  PROVE  PhaseInv'
<1>1. /\ UNCHANGED <<input, pc, disc, queue, batch, data_index, audioVars>>
      /\ cacher = "open" /\ cacher' # "none" /\ Sheet' = Sheet
      /\ cacher' = "ok" => batches' = << >> /\ SenderDropped
  BY DEF CacheStep, InsertBatch, CacherDone, KeptByCacher, Sheet
<1>2. pc \in {"collect", "flush", "join"}
  BY <1>1 DEF PhaseInv, AllJoined, MainTypes
<1> QED
  BY <1>1, <1>2 DEF PhaseInv, AllJoined, SenderDropped, WorkersOver, Flushed, audioVars

-----------------------------------------------------------------------------
(* The main thread while it collects.                                       *)
Piece == [kind : Kind, piece : Hash]
MainPlaces == {"start", "collect", "flush", "join", "verify", "audio", "build", "write", "returned"}
Results == {"none", "Ok", "Error", "Cancelled", "panic"}

(* What all of its steps have in common.                                    *)
LEMMA MainMoves ==
  ASSUME MainTypes, MainStep
  PROVE  /\ UNCHANGED <<running, input, disc, cache, manifests, hashes>>
         /\ pc # "returned" /\ result = "none"
         /\ pc' \in MainPlaces /\ result' \in Results
         /\ (result' # "none") = (pc' = "returned")
         /\ result' = "Ok" => WriteArchive /\ pc = "write"
         /\ ~WriteArchive => archive' = archive
         /\ Sheet' = Sheet
<1> DEFINE Concl == /\ UNCHANGED <<running, input, disc, cache, manifests, hashes>>
                    /\ pc # "returned"
                    /\ \/ pc' \in MainPlaces \ {"returned"} /\ result' = result
                       \/ pc' = "returned" /\ result' \in {"Error", "Cancelled", "panic"}
                       \/ WriteArchive /\ pc = "write" /\ pc' = "returned" /\ result' = "Ok"
                    /\ WriteArchive \/ archive' = archive
<1>1. ASSUME Prepare PROVE Concl
  BY <1>1 DEF Prepare, Goto, Return, KeptCollecting, MainPlaces
<1>2. ASSUME Collect PROVE Concl
  BY <1>2 DEF Collect, Goto, Return, KeptCollecting, KeptByMain, MainPlaces
<1>3. ASSUME NEW k \in Kind, SendBatch(k) PROVE Concl
  BY <1>3 DEF SendBatch, Return, KeptCollecting, KeptByMain, MainPlaces
<1>4. ASSUME AllCollected \/ Flush PROVE Concl
  BY <1>4 DEF AllCollected, Flush, Goto, KeptCollecting, KeptByMain, MainPlaces
<1>5. ASSUME Join PROVE Concl
  BY <1>5 DEF Join, Goto, Return, KeptCollecting, KeptByMain, MainPlaces
<1>6. ASSUME NEW t, VerifyDisc(t) PROVE Concl
  BY <1>6 DEF VerifyDisc, Goto, Return, KeptAfter, KeptByMain, MainPlaces
<1>7. ASSUME BeginBlob PROVE Concl
  BY <1>7 DEF BeginBlob, Goto, Return, KeptAfter, KeptByMain, MainPlaces
<1>8. ASSUME AudioReturned PROVE Concl
  BY <1>8 DEF AudioReturned, Goto, Return, KeptAfter, KeptByMain, MainPlaces
<1>9. ASSUME Build PROVE Concl
  BY <1>9 DEF Build, Goto, Return, KeptAfter, KeptByMain, MainPlaces
<1>10. ASSUME WriteArchive PROVE Concl
  BY <1>10 DEF WriteArchive, Return, KeptAfter, KeptByMain
<1>11. Concl
  BY <1>1, <1>2, <1>3, <1>4, <1>5, <1>6, <1>7, <1>8, <1>9, <1>10 DEF MainStep
<1>12. result = "none"
  BY <1>11 DEF MainTypes
<1> QED
  BY <1>11, <1>12 DEF MainPlaces, Results, Sheet

(* The first piece that waits.                                              *)
LEMMA FirstPiece ==
  ASSUME MainTypes, queue # << >>
  PROVE  /\ Head(queue) = queue[1] /\ Head(queue).kind \in Kind /\ Head(queue).piece \in Hash
         /\ Tail(queue) \in Seq(Piece) /\ Len(queue) \in Nat \ {0}
         /\ Len(Tail(queue)) = Len(queue) - 1
         /\ \A q \in 1..Len(Tail(queue)) : Tail(queue)[q] = queue[q + 1]
<1>1. queue \in Seq(Piece)
  BY DEF MainTypes, Piece
<1>2. /\ Head(queue) \in Piece /\ Head(queue) = queue[1]
      /\ Tail(queue) \in Seq(Piece) /\ Len(queue) \in Nat \ {0}
      /\ Len(Tail(queue)) = Len(queue) - 1
      /\ \A q \in 1..Len(Tail(queue)) : Tail(queue)[q] = queue[q + 1]
  BY <1>1, HeadOf
<1> QED
  BY <1>2 DEF Piece

(* What it collects.                                                        *)
LEMMA CollectTypes ==
  ASSUME MainTypes, Collect \/ (\E k \in Kind : SendBatch(k))
  PROVE  /\ queue' \in Seq(Piece) /\ Len(queue') <= CHANNEL
         /\ batch' \in [Kind -> Seq(Hash)] /\ \A k \in Kind : Len(batch'[k]) <= BATCH_SIZE
         /\ batches' \in Seq(Batches) /\ Len(batches') <= BATCHES
         /\ cacher' = cacher
<1>0. /\ queue \in Seq(Piece) /\ Len(queue) <= CHANNEL
      /\ batch \in [Kind -> Seq(Hash)] /\ \A k \in Kind : Len(batch[k]) <= BATCH_SIZE
      /\ batches \in Seq(Batches) /\ Len(batches) <= BATCHES
  BY DEF MainTypes, Piece, Batches
<1>1. CASE Collect
  <2> DEFINE h == Head(queue)
             k == h.kind
             more == Append(batch[k], h.piece)
  <2>1. queue # << >> /\ queue' = Tail(queue) /\ UNCHANGED <<batches, cacher>>
    BY <1>1 DEF Collect, KeptByMain
  <2>2. /\ k \in Kind /\ h.piece \in Hash /\ queue' \in Seq(Piece)
        /\ Len(queue') = Len(queue) - 1 /\ Len(queue) \in Nat
    BY <2>1, FirstPiece
  <2>3. Len(queue') <= CHANNEL
    BY <1>0, <2>2, OpticalAssumption
  <2>4. batch' = batch \/ batch' = [batch EXCEPT ![k] = more]
    BY <1>1 DEF Collect
  <2>5. more \in Seq(Hash) /\ Len(more) = Len(batch[k]) + 1 /\ Len(batch[k]) \in Nat
    BY <1>0, <2>2, AppendOf
  <2>6. Len(more) <= BATCH_SIZE
    <3>1. ~(Len(batch[k]) >= BATCH_SIZE)
      BY <1>1, <2>2 DEF Collect, NoneFull, Full
    <3> QED
      BY <2>5, <3>1, OpticalAssumption
  <2> HIDE DEF h, k, more
  <2>7. batch' \in [Kind -> Seq(Hash)] /\ \A x \in Kind : Len(batch'[x]) <= BATCH_SIZE
    BY <1>0, <2>2, <2>4, <2>5, <2>6
  <2> QED
    BY <1>0, <2>1, <2>2, <2>3, <2>7
<1>2. ASSUME NEW k \in Kind, SendBatch(k)
      PROVE  /\ queue' = queue /\ cacher' = cacher
             /\ batch' \in [Kind -> Seq(Hash)] /\ \A x \in Kind : Len(batch'[x]) <= BATCH_SIZE
             /\ batches' \in Seq(Batches) /\ Len(batches') <= BATCHES
  <2>1. queue' = queue /\ cacher' = cacher
    BY <1>2 DEF SendBatch, KeptByMain
  <2>2. CASE /\ Len(batches) < BATCHES
             /\ batches' = Append(batches, [kind |-> k, pieces |-> batch[k]])
             /\ batch' = [batch EXCEPT ![k] = << >>]
    <3> DEFINE b == [kind |-> k, pieces |-> batch[k]]
    <3>1. b \in Batches
      BY <1>0 DEF Batches
    <3>2. batches' = Append(batches, b)
      BY <2>2
    <3> HIDE DEF b
    <3>3. batches' \in Seq(Batches) /\ Len(batches) \in Nat /\ Len(batches') = Len(batches) + 1
      BY <1>0, <3>1, <3>2, AppendOf
    <3>4. Len(batches') <= BATCHES
      BY <2>2, <3>3, OpticalAssumption
    <3>5. << >> \in Seq(Hash) /\ Len(<< >>) <= BATCH_SIZE
      BY OpticalAssumption
    <3> QED
      BY <1>0, <2>1, <2>2, <3>3, <3>4, <3>5
  <2>3. CASE UNCHANGED <<batch, batches>>
    BY <1>0, <2>1, <2>3
  <2> QED
    BY <1>2, <2>2, <2>3 DEF SendBatch
<1> QED
  BY <1>0, <1>1, <1>2

LEMMA MainStepTypes ==
  ASSUME MainTypes, MainStep
  PROVE  MainTypes'
<1>1. /\ UNCHANGED <<input, disc, cache>> /\ Sheet' = Sheet
      /\ pc' \in MainPlaces /\ result' \in Results
      /\ (result' # "none") = (pc' = "returned")
  BY MainMoves
<1>2. CASE Collect \/ (\E k \in Kind : SendBatch(k))
  BY <1>1, <1>2, CollectTypes DEF MainTypes, MainPlaces, Results, Piece, Batches
<1>3. CASE ~(Collect \/ (\E k \in Kind : SendBatch(k)))
  <2>1. UNCHANGED <<queue, batch, batches>> /\ cacher' \in {cacher, "open"}
    BY <1>3 DEF MainStep, Prepare, AllCollected, Flush, Join, VerifyDisc, BeginBlob,
                AudioReturned, Build, WriteArchive, KeptAfter, KeptByMain
  <2> QED
    BY <1>1, <2>1 DEF MainTypes, MainPlaces, Results
<1> QED
  BY <1>2, <1>3

(* A piece the main thread moves on is still on its way.                    *)
LEMMA FlowAfterCollect ==
  ASSUME MainTypes, FlowInv, Collect, pc' # "returned"
  PROVE  FlowInv'
<1> DEFINE h == Head(queue)
           more == Append(batch[h.kind], h.piece)
<1>1. /\ queue # << >> /\ queue' = Tail(queue)
      /\ batch' = [batch EXCEPT ![h.kind] = more]
      /\ UNCHANGED <<input, disc, batches, cacher, cache>>
  BY DEF Collect, Return, KeptByMain
<1>2. /\ h = queue[1] /\ h.kind \in Kind /\ h.piece \in Hash /\ Len(queue) \in Nat \ {0}
      /\ Len(queue') = Len(queue) - 1
      /\ \A q \in 1..Len(queue') : queue'[q] = queue[q + 1]
  BY <1>1, FirstPiece
<1>3. batch \in [Kind -> Seq(Hash)]
  BY DEF MainTypes
<1>4. /\ Len(more) = Len(batch[h.kind]) + 1 /\ Len(batch[h.kind]) \in Nat
      /\ more[Len(batch[h.kind]) + 1] = h.piece
      /\ \A i \in 1..Len(batch[h.kind]) : more[i] = batch[h.kind][i]
  BY <1>2, <1>3, AppendOf
<1> HIDE DEF h, more
<1>5. ASSUME NEW kind \in Kind, NEW piece \in Hash, OnItsWay(kind, piece)
      PROVE  OnItsWay(kind, piece)'
  <2>1. kind # h.kind => batch'[kind] = batch[kind]
    BY <1>1, <1>2, <1>3
  <2>2. kind = h.kind => batch'[kind] = more
    BY <1>1, <1>2, <1>3
  <2>3. CASE \E q \in 1..Len(queue) : queue[q].kind = kind /\ queue[q].piece = piece
    <3>1. PICK q \in 1..Len(queue) : queue[q].kind = kind /\ queue[q].piece = piece
      BY <2>3
    <3>2. CASE q = 1
      <4>1. Len(more) \in 1..Len(more) /\ more[Len(more)] = piece /\ batch'[kind] = more
        BY <1>2, <1>4, <2>2, <3>1, <3>2
      <4> QED
        BY <4>1 DEF OnItsWay
    <3>3. CASE q # 1
      <4>1. q - 1 \in 1..Len(queue') /\ queue'[q - 1] = queue[q]
        BY <1>2, <3>1, <3>3
      <4> QED
        BY <3>1, <4>1 DEF OnItsWay
    <3> QED
      BY <3>2, <3>3
  <2>4. CASE \E i \in 1..Len(batch[kind]) : batch[kind][i] = piece
    <3>1. PICK i \in 1..Len(batch[kind]) : batch[kind][i] = piece
      BY <2>4
    <3>2. i \in 1..Len(batch'[kind]) /\ batch'[kind][i] = piece
      <4>1. CASE kind = h.kind
        BY <1>4, <2>2, <3>1, <4>1
      <4>2. CASE kind # h.kind
        BY <2>1, <3>1, <4>2
      <4> QED
        BY <4>1, <4>2
    <3> QED
      BY <3>2 DEF OnItsWay
  <2> QED
    BY <1>1, <1>5, <2>3, <2>4 DEF OnItsWay
<1> QED
  BY <1>1, <1>5, FlowKept

LEMMA FlowAfterSendBatch ==
  ASSUME MainTypes, FlowInv, NEW k \in Kind, SendBatch(k), pc' # "returned"
  PROVE  FlowInv'
<1> DEFINE sent == [kind |-> k, pieces |-> batch[k]]
<1>1. /\ batches' = Append(batches, sent)
      /\ batch' = [batch EXCEPT ![k] = << >>]
      /\ UNCHANGED <<input, disc, queue, cacher, cache>>
  BY DEF SendBatch, Return, KeptByMain
<1>2. batch \in [Kind -> Seq(Hash)] /\ batches \in Seq(Batches)
  BY DEF MainTypes, Batches
<1>3. sent \in Batches /\ sent.kind = k /\ sent.pieces = batch[k]
  BY <1>2 DEF Batches
<1> HIDE DEF sent
<1>4. /\ Len(batches') = Len(batches) + 1 /\ Len(batches) \in Nat
      /\ batches'[Len(batches) + 1] = sent
      /\ \A b \in 1..Len(batches) : batches'[b] = batches[b]
  BY <1>1, <1>2, <1>3, AppendOf
<1>5. ASSUME NEW kind \in Kind, NEW piece \in Hash, OnItsWay(kind, piece)
      PROVE  OnItsWay(kind, piece)'
  <2>1. CASE \E i \in 1..Len(batch[kind]) : batch[kind][i] = piece
    <3>1. CASE kind = k
      <4>1. Len(batches) + 1 \in 1..Len(batches')
        BY <1>4
      <4> QED
        BY <1>3, <1>4, <2>1, <3>1, <4>1 DEF OnItsWay
    <3>2. CASE kind # k
      <4>1. batch'[kind] = batch[kind]
        BY <1>1, <1>2, <3>2
      <4> QED
        BY <2>1, <4>1 DEF OnItsWay
    <3> QED
      BY <3>1, <3>2
  <2>2. CASE \E b \in 1..Len(batches) : /\ batches[b].kind = kind
                                        /\ \E i \in 1..Len(batches[b].pieces) :
                                             batches[b].pieces[i] = piece
    <3>1. PICK b \in 1..Len(batches) : /\ batches[b].kind = kind
                                       /\ \E i \in 1..Len(batches[b].pieces) :
                                            batches[b].pieces[i] = piece
      BY <2>2
    <3>2. b \in 1..Len(batches') /\ batches'[b] = batches[b]
      BY <1>4
    <3> QED
      BY <3>1, <3>2 DEF OnItsWay
  <2> QED
    BY <1>1, <1>5, <2>1, <2>2 DEF OnItsWay
<1> QED
  BY <1>1, <1>5, FlowKept

LEMMA FlowAfterMainStep ==
  ASSUME MainTypes, PhaseInv, FlowInv, MainStep, pc' # "returned"
  PROVE  FlowInv'
<1>1. UNCHANGED <<input, disc, cache>>
  BY MainMoves
<1>2. CASE Collect \/ (\E k \in Kind : SendBatch(k))
  BY <1>2, FlowAfterCollect, FlowAfterSendBatch
<1>3. CASE ~(Collect \/ (\E k \in Kind : SendBatch(k)))
  <2>1. UNCHANGED <<queue, batch, batches>>
    BY <1>3 DEF MainStep, Prepare, AllCollected, Flush, Join, VerifyDisc, BeginBlob,
                AudioReturned, Build, WriteArchive, KeptAfter
  <2>2. cacher' = cacher \/ (Prepare /\ cacher = "none")
    BY <1>3 DEF MainStep, Prepare, AllCollected, Flush, Join, VerifyDisc, BeginBlob,
                AudioReturned, Build, WriteArchive, KeptAfter, KeptByMain, PhaseInv
  <2>3. \A kind \in Kind, piece \in Hash : OnItsWay(kind, piece) => OnItsWay(kind, piece)'
    BY <1>1, <2>1 DEF OnItsWay
  <2> QED
    BY <1>1, <2>2, <2>3, FlowKept
<1> QED
  BY <1>2, <1>3

(* What the audio thread's Ok says: the index has every block.              *)
LEMMA IndexComplete ==
  ASSUME AudioInv, returns = "ok", NEW h \in ToSet(blocks)
  PROVE  \E e \in 1..Len(audio_index) : audio_index[e].hash = h
<1>1. /\ blocks \in Seq(Hash) /\ Len(audio_index) = Len(blocks)
      /\ \A e \in 1..Len(audio_index) : audio_index[e].hash = blocks[e]
  BY DEF AudioInv, AudioTypes, Indexed, Total
<1>2. PICK e \in DOMAIN blocks : blocks[e] = h
  BY DEF ToSet
<1>3. e \in 1..Len(audio_index)
  BY <1>1
<1> QED
  BY <1>1, <1>2, <1>3

LEMMA PhaseAfterMainStep ==
  ASSUME AudioInv, MainTypes, PhaseInv, MainStep, pc' # "returned"
  PROVE  PhaseInv'
<1>1. UNCHANGED <<input, disc, cache>> /\ Sheet' = Sheet
  BY MainMoves
<1>2. WorkersOver' = WorkersOver
  BY <1>1 DEF WorkersOver
<1>3. CASE Prepare
  BY <1>1, <1>2, <1>3 DEF Prepare, Goto, Return, KeptCollecting, PhaseInv, AllJoined,
                          SenderDropped, audioVars
<1>4. CASE Collect
  BY <1>1, <1>2, <1>4 DEF Collect, Goto, Return, KeptCollecting, KeptByMain, PhaseInv, AllJoined,
                          SenderDropped, audioVars
<1>5. CASE \E k \in Kind : SendBatch(k)
  BY <1>1, <1>2, <1>5 DEF SendBatch, Return, KeptCollecting, KeptByMain, PhaseInv, AllJoined,
                          SenderDropped, audioVars
<1>6. CASE AllCollected \/ Flush
  BY <1>1, <1>2, <1>6 DEF AllCollected, Flush, Goto, KeptCollecting, KeptByMain, PhaseInv,
                          AllJoined, SenderDropped, Flushed, audioVars
<1>7. CASE Join
  <2>1. cacher \in {"none", "open", "ok", "error"}
    BY DEF MainTypes
  <2> QED
    BY <1>1, <1>2, <1>7, <2>1 DEF Join, Goto, Return, KeptCollecting, KeptByMain, PhaseInv,
                                  AllJoined, SenderDropped, Flushed, audioVars
<1>8. CASE \E t \in DOMAIN manifests : VerifyDisc(t)
  BY <1>1, <1>2, <1>8 DEF VerifyDisc, Goto, Return, KeptAfter, KeptByMain, PhaseInv, AllJoined,
                          SenderDropped, Flushed, audioVars
<1>9. ASSUME pc \in AllJoined, pc' \in {"audio", "build", "write"},
             UNCHANGED <<queue, batch, batches, cacher>>,
             pc' = "audio" => ToSet(blocks') = cache["audio"],
             pc' \in {"build", "write"} => \A h \in cache["audio"] :
               \E e \in 1..Len(audio_index') : audio_index'[e].hash = h,
             pc' = "write" => \A h \in cache["data"] : Contains(data_index', h)
      PROVE  PhaseInv'
  BY <1>1, <1>2, <1>9 DEF PhaseInv, AllJoined, SenderDropped, Flushed
<1>10. CASE BeginBlob
  <2>1. IsFiniteSet(cache["audio"]) /\ cache["audio"] \subseteq Hash
    BY DEF MainTypes, Kind
  <2>2. ToSet(SetToSeq(cache["audio"])) = cache["audio"]
    BY <2>1, SetToSeqIs
  <2>3. /\ pc = "verify" /\ UNCHANGED <<queue, batch, batches, cacher>>
        /\ \/ pc' = "build" /\ cache["audio"] = {}
           \/ pc' = "audio" /\ blocks' = SetToSeq(cache["audio"])
    BY <1>10 DEF BeginBlob, Start, Goto, Return, KeptAfter, KeptByMain
  <2> QED
    BY <1>9, <2>2, <2>3 DEF AllJoined
<1>11. CASE AudioReturned
  <2>1. /\ pc = "audio" /\ returns = "ok" /\ pc' = "build" /\ audio_index' = audio_index
        /\ UNCHANGED <<queue, batch, batches, cacher>>
    BY <1>11 DEF AudioReturned, Goto, Return, KeptAfter, KeptByMain, audioVars
  <2>2. ToSet(blocks) = cache["audio"]
    BY <2>1 DEF PhaseInv
  <2> QED
    BY <1>9, <2>1, <2>2, IndexComplete DEF AllJoined
<1>12. CASE Build
  <2>1. IsFiniteSet(cache["data"])
    BY DEF MainTypes, Kind
  <2> DEFINE S == cache["data"]
             chunks == SetToSeq(S)
  <2>2. \A h \in S : Contains(chunks, h)
    <3> HIDE DEF S
    <3>1. chunks \in Seq(S) /\ ToSet(chunks) = S
      BY <2>1, SetToSeqIs DEF S
    <3> HIDE DEF chunks
    <3>2. DOMAIN chunks = 1..Len(chunks)
      BY <3>1
    <3> QED
      BY <3>1, <3>2 DEF ToSet, Contains
  <2>3. /\ pc = "build" /\ pc' = "write" /\ data_index' = SetToSeq(cache["data"])
        /\ audio_index' = audio_index /\ UNCHANGED <<queue, batch, batches, cacher>>
    BY <1>12 DEF Build, Goto, Return, KeptAfter, KeptByMain, audioVars
  <2>4. \A h \in cache["audio"] : \E e \in 1..Len(audio_index') : audio_index'[e].hash = h
    BY <2>3 DEF PhaseInv
  <2> QED
    BY <1>9, <2>2, <2>3, <2>4 DEF AllJoined
<1>13. ~WriteArchive
  BY DEF WriteArchive, Return
<1> QED
  BY <1>3, <1>4, <1>5, <1>6, <1>7, <1>8, <1>10, <1>11, <1>12, <1>13 DEF MainStep

-----------------------------------------------------------------------------
(* The audio threads.                                                       *)
LEMMA AudioMoves ==
  ASSUME AudioInv, AudioStep
  PROVE  /\ caller # "idle" /\ blocks' = blocks /\ running' = running
         /\ \A e \in 1..Len(audio_index) :
              e \in 1..Len(audio_index') /\ audio_index'[e] = audio_index[e]
<1>1. CASE IoStep
  <2>1. Started /\ KeptByIo
    BY <1>1 DEF IoStep, Prefetch, NoPrefetch, QueueBlock, AllQueued, PoolDied, Receive,
                WriteBlock, NothingInTurn, IoDone, IoAt
  <2>2. audio_index' = audio_index \/ \E entry : audio_index' = Append(audio_index, entry)
    BY <1>1 DEF IoStep, Prefetch, NoPrefetch, QueueBlock, AllQueued, PoolDied, Receive,
                WriteBlock, NothingInTurn, IoDone
  <2>3. audio_index \in Seq(Entries)
    BY DEF AudioInv, AudioTypes
  <2>4. ASSUME NEW entry, audio_index' = Append(audio_index, entry), NEW e \in 1..Len(audio_index)
        PROVE  e \in 1..Len(audio_index') /\ audio_index'[e] = audio_index[e]
    BY <2>3, <2>4
  <2> QED
    BY <2>1, <2>2, <2>4 DEF Started, KeptByIo
<1>2. CASE \E p \in Pool : PoolStep(p)
  <2>1. PICK p \in Pool : PoolStep(p)
    BY <1>2
  <2>2. KeptByWorker
    BY <2>1 DEF PoolStep, Take, Compressed, CompressFails, NoMoreWork
  <2>3. caller # "idle"
    BY <2>1 DEF AudioInv, AudioInit, PoolStep, Take, Compressed, CompressFails, NoMoreWork,
                Compressing, Started, IoEnded, Idle
  <2> QED
    BY <2>2, <2>3 DEF KeptByWorker
<1>3. CASE CallerStep
  BY <1>3 DEF CallerStep, SeesIoEnd, SeesError, JoinAll, KeptByCaller
<1> QED
  BY <1>1, <1>2, <1>3 DEF AudioStep

LEMMA PhaseAfterAudio ==
  ASSUME AudioInv, MainTypes, PhaseInv, pc # "returned", Audio
  PROVE  PhaseInv'
<1>1. /\ caller # "idle" /\ blocks' = blocks
      /\ \A e \in 1..Len(audio_index) :
           e \in 1..Len(audio_index') /\ audio_index'[e] = audio_index[e]
  BY AudioMoves DEF Audio
<1>2. UNCHANGED <<input, pc, disc, queue, batch, batches, cacher, cache, data_index>>
      /\ Sheet' = Sheet
  BY DEF Audio, opticalVars, Sheet
<1>3. pc \in {"audio", "build", "write"}
  BY <1>1 DEF PhaseInv
<1>4. pc \in {"build", "write"} => \A h \in cache["audio"] :
        \E e \in 1..Len(audio_index') : audio_index'[e].hash = h
  BY <1>1 DEF PhaseInv
<1> QED
  BY <1>1, <1>2, <1>3, <1>4 DEF PhaseInv, AllJoined, SenderDropped, WorkersOver, Flushed

-----------------------------------------------------------------------------
(* When all threads are joined.                                             *)
LEMMA AllDone ==
  ASSUME MainTypes, WorkerInv, FlowInv, PhaseInv, pc \in AllJoined, NEW s \in Sheet
  PROVE  /\ disc[s].at = "done" /\ disc[s].sent = AllPieces(Content(s))
         /\ \A r \in 1..Len(Content(s)) : \A k \in 1..Len(Content(s)[r].pieces) :
              Content(s)[r].pieces[k] \in cache[Content(s)[r].kind]
<1>1. /\ queue = << >> /\ batches = << >> /\ \A k \in Kind : batch[k] = << >>
      /\ WorkersOver /\ \A t \in Sheet : disc[t].at # "failed"
      /\ cacher = "ok"
  BY DEF PhaseInv, AllJoined, Flushed
<1>2. disc[s].at = "done"
  BY <1>1 DEF WorkersOver, WorkerInv
<1>3. disc[s].run = Len(Content(s)) + 1
  BY <1>2 DEF WorkerInv
<1>4. Content(s) \in Seq(Runs) /\ Len(Content(s)) \in Nat
  BY ContentIs
<1>5. disc[s].sent = AllPieces(Content(s))
  <2>1. ~(disc[s].run <= Len(Content(s)))
    BY <1>3, <1>4
  <2>2. Progress(s)
    BY DEF WorkerInv
  <2>3. disc[s].sent = Joined(Content(s))[Len(Content(s))]
    BY <2>1, <2>2 DEF Progress
  <2> QED
    BY <1>4, <2>3, AllPiecesJoined
<1>6. ASSUME NEW r \in 1..Len(Content(s)), NEW k \in 1..Len(Content(s)[r].pieces)
      PROVE  Content(s)[r].pieces[k] \in cache[Content(s)[r].kind]
  <2>1. r < disc[s].run /\ Content(s)[r].kind \in Kind
    BY <1>3, <1>4, ContentIs
  <2>2. OnItsWay(Content(s)[r].kind, Content(s)[r].pieces[k])
    BY <1>1, <2>1 DEF FlowInv
  <2>3. Len(queue) = 0 /\ Len(batches) = 0 /\ Len(batch[Content(s)[r].kind]) = 0
    BY <1>1, <2>1
  <2> QED
    BY <2>2, <2>3 DEF OnItsWay
<1> QED
  BY <1>2, <1>5, <1>6

LEMMA NothingIsLost ==
  ASSUME MainTypes, pc # "returned" => WorkerInv /\ FlowInv /\ PhaseInv
  PROVE  NothingLost
<1> SUFFICES ASSUME pc \in AllJoined, DistinctTitles
             PROVE  DOMAIN manifests = Titles /\ \A t \in Titles : Matches(t)
  BY DEF NothingLost, AllJoined
<1>1. WorkerInv /\ FlowInv /\ PhaseInv
  BY DEF AllJoined
<1>2. DOMAIN manifests = Titles
  BY <1>1, AllDone DEF WorkerInv, Entered, Titles
<1>3. ASSUME NEW t \in Titles PROVE Matches(t)
  <2>1. PICK s \in Sheet : t = Title(s)
    BY DEF Titles
  <2>2. disc[s].at = "done" /\ disc[s].sent = AllPieces(Content(s))
    BY <1>1, AllDone
  <2>3. manifests[t] = AllPieces(Content(s)) /\ hashes[t] = Content(s)
    BY <1>1, <2>1, <2>2 DEF WorkerInv, Entered
  <2>4. ASSUME NEW x \in ToSet(AllPieces(Content(s))) PROVE x \in UNION {cache[k] : k \in Kind}
    <3>1. Content(s) \in Seq(Runs)
      BY ContentIs
    <3>2. PICK r \in 1..Len(Content(s)) : \E k \in 1..Len(Content(s)[r].pieces) :
            Content(s)[r].pieces[k] = x
      BY <3>1, JoinedHas
    <3>3. x \in cache[Content(s)[r].kind] /\ Content(s)[r].kind \in Kind
      BY <1>1, <3>2, AllDone, ContentIs
    <3> QED
      BY <3>3
  <2> QED
    BY <2>3, <2>4 DEF Matches, Cached
<1> QED
  BY <1>2, <1>3

-----------------------------------------------------------------------------
(* The collections.                                                         *)
LEMMA SmallRemainder ==
  ASSUME NEW a \in Nat, NEW n \in Nat \ {0}, a < n
  PROVE  a % n = a
OBVIOUS

Naming(t) == {n \in DOMAIN input.lists : t \in input.lists[n]}
Filled == {n \in DOMAIN input.lists : input.lists[n] # {}}
FilledBefore(n) == {m \in 1..(n - 1) : input.lists[m] # {}}

(* With fewer playlists than ids, ids are given in the order of the         *)
(* playlists that name something, and the last one is not given.            *)
LEMMA IdsAre ==
  ASSUME MainTypes, Cardinality(Filled) < ID_SPACE, NEW n \in Filled
  PROVE  /\ next_collection_id(n) = Cardinality(FilledBefore(n))
         /\ next_collection_id(n) \in Nat /\ next_collection_id(n) < ID_SPACE - 1
<1> DEFINE N == Len(input.lists)
           before == FilledBefore(n)
<1>1. DOMAIN input.lists = 1..N /\ N \in Nat /\ ID_SPACE \in Nat \ {0}
  <2>1. input.lists \in Seq(ToSet(input.lists))
    BY OpticalAssumption DEF MainTypes
  <2> QED
    BY <2>1, OpticalAssumption
<1>2. IsFiniteSet(Filled)
  <2>1. IsFiniteSet(1..N) /\ Filled \subseteq 1..N
    BY <1>1, FS_Interval DEF Filled
  <2> QED
    BY <2>1, FS_Subset
<1>3. before \subseteq Filled /\ n \notin before
  BY <1>1 DEF Filled, FilledBefore
<1>4. Cardinality(before) < Cardinality(Filled) /\ Cardinality(before) \in Nat
      /\ Cardinality(Filled) \in Nat
  <2>1. IsFiniteSet(before)
    BY <1>2, <1>3, FS_Subset
  <2>2. before # Filled
    BY <1>3
  <2> HIDE DEF before
  <2> QED
    BY <1>2, <1>3, <2>1, <2>2, FS_Subset, FS_CardinalityType
<1>5. next_collection_id(n) = Cardinality(before) % ID_SPACE
  BY DEF next_collection_id, FilledBefore
<1> HIDE DEF before
<1>6. Cardinality(before) % ID_SPACE = Cardinality(before)
  BY <1>1, <1>4, SmallRemainder
<1> QED
  BY <1>1, <1>4, <1>5, <1>6 DEF before

LEMMA IdsDiffer ==
  ASSUME MainTypes, Cardinality(Filled) < ID_SPACE, NEW m \in Filled, NEW n \in Filled, m < n
  PROVE  next_collection_id(m) # next_collection_id(n)
<1> DEFINE N == Len(input.lists)
           a == FilledBefore(m)
           b == FilledBefore(n)
<1>1. DOMAIN input.lists = 1..N /\ N \in Nat
  <2>1. input.lists \in Seq(ToSet(input.lists))
    BY OpticalAssumption DEF MainTypes
  <2> QED
    BY <2>1
<1>2. a \subseteq b /\ m \in b /\ m \notin a /\ b \subseteq 1..N
  BY <1>1 DEF Filled, FilledBefore
<1>3. IsFiniteSet(b)
  <2> HIDE DEF b
  <2>1. IsFiniteSet(1..N)
    BY <1>1, FS_Interval
  <2> QED
    BY <1>2, <2>1, FS_Subset
<1>4. Cardinality(a) < Cardinality(b) /\ Cardinality(a) \in Nat /\ Cardinality(b) \in Nat
  <2> HIDE DEF a, b
  <2>1. a # b
    BY <1>2
  <2>2. Cardinality(a) <= Cardinality(b) /\ (Cardinality(a) = Cardinality(b) => a = b)
        /\ IsFiniteSet(a)
    BY <1>2, <1>3, FS_Subset
  <2>3. Cardinality(a) \in Nat /\ Cardinality(b) \in Nat
    BY <1>3, <2>2, FS_CardinalityType
  <2> QED
    BY <2>1, <2>2, <2>3
<1> QED
  BY <1>4, IdsAre

(* The playlist whose id a title has.                                       *)
LEMMA LastNaming ==
  ASSUME MainTypes, NEW t, Naming(t) # {}
  PROVE  /\ Max(Naming(t)) \in Naming(t) /\ Max(Naming(t)) \in Filled
         /\ {n \in Naming(t) : \A m \in Naming(t) : m <= n} = {Max(Naming(t))}
         /\ collection_id(t) = next_collection_id(Max(Naming(t)))
<1> DEFINE N == Len(input.lists)
           S == Naming(t)
<1>1. DOMAIN input.lists = 1..N /\ N \in Nat
  <2>1. input.lists \in Seq(ToSet(input.lists))
    BY OpticalAssumption DEF MainTypes
  <2> QED
    BY <2>1
<1>2. S \subseteq 0..N /\ S # {}
  BY <1>1 DEF Naming
<1>3. Max(S) \in S /\ \A m \in S : m <= Max(S)
  <2> HIDE DEF S
  <2> QED
    BY <1>1, <1>2, MaxOf
<1>4. Max(S) \in Filled
  BY <1>3 DEF Naming, Filled
<1>5. {n \in S : \A m \in S : m <= n} = {Max(S)}
  <2> DEFINE top == Max(S)
  <2>0. top \in S /\ \A m \in S : m <= top
    BY <1>3
  <2> HIDE DEF S, top
  <2>1. \A n \in S : (\A m \in S : m <= n) <=> n = top
    BY <1>1, <1>2, <2>0
  <2> QED
    BY <2>0, <2>1 DEF top
<1>6. collection_id(t) = next_collection_id(Max(S))
  BY <1>2 DEF collection_id, Naming
<1> QED
  BY <1>3, <1>4, <1>5, <1>6

LEMMA NotNamed ==
  ASSUME NEW t, Naming(t) = {}
  PROVE  collection_id(t) = ID_SPACE - 1
BY DEF collection_id, Naming

LEMMA CollectionsAreApart ==
  ASSUME MainTypes, CollectionsNamed
  PROVE  CollectionsApart
<1> DEFINE last(t) == {n \in Naming(t) : \A m \in Naming(t) : m <= n}
<1> SUFFICES ASSUME result = "Ok", Cardinality(Filled) < ID_SPACE,
                    NEW t \in DOMAIN archive.toc, NEW u \in DOMAIN archive.toc
             PROVE  /\ (archive.toc[t].collection = ID_SPACE - 1) = (Naming(t) = {})
                    /\ (archive.toc[t].collection = archive.toc[u].collection)
                         = (last(t) = last(u))
  BY DEF CollectionsApart, Naming, Filled
<1>1. archive.toc[t].collection = collection_id(t) /\ archive.toc[u].collection = collection_id(u)
  BY DEF CollectionsNamed
<1>2. ASSUME NEW x, Naming(x) # {}
      PROVE  /\ Max(Naming(x)) \in Filled /\ last(x) = {Max(Naming(x))}
             /\ collection_id(x) = next_collection_id(Max(Naming(x)))
             /\ collection_id(x) # ID_SPACE - 1
  <2>1. /\ Max(Naming(x)) \in Filled /\ last(x) = {Max(Naming(x))}
        /\ collection_id(x) = next_collection_id(Max(Naming(x)))
    BY <1>2, LastNaming
  <2> HIDE DEF last
  <2>2. next_collection_id(Max(Naming(x))) \in Nat
        /\ next_collection_id(Max(Naming(x))) < ID_SPACE - 1
    BY <2>1, IdsAre
  <2>3. ID_SPACE \in Nat
    BY OpticalAssumption
  <2> QED
    BY <2>1, <2>2, <2>3
<1>3. ASSUME NEW x, Naming(x) = {} PROVE last(x) = {} /\ collection_id(x) = ID_SPACE - 1
  BY <1>3, NotNamed
<1> HIDE DEF last
<1>4. (collection_id(t) = ID_SPACE - 1) <=> (Naming(t) = {})
  BY <1>2, <1>3
<1>5. (collection_id(t) = collection_id(u)) <=> (last(t) = last(u))
  <2>1. CASE Naming(t) = {} \/ Naming(u) = {}
    <3>1. ASSUME NEW x, Naming(x) # {} PROVE last(x) # {}
      BY <1>2, <3>1
    <3> QED
      BY <1>2, <1>3, <2>1, <3>1
  <2>2. CASE Naming(t) # {} /\ Naming(u) # {}
    <3> DEFINE a == Max(Naming(t))
               b == Max(Naming(u))
    <3>1. a \in Filled /\ b \in Filled /\ last(t) = {a} /\ last(u) = {b}
          /\ collection_id(t) = next_collection_id(a)
          /\ collection_id(u) = next_collection_id(b)
      BY <1>2, <2>2
    <3> HIDE DEF a, b
    <3>2. a \in Nat /\ b \in Nat
      <4>1. input.lists \in Seq(ToSet(input.lists))
        BY OpticalAssumption DEF MainTypes
      <4>2. Filled \subseteq Nat
        BY <4>1 DEF Filled
      <4> QED
        BY <3>1, <4>2
    <3>3. a # b => next_collection_id(a) # next_collection_id(b)
      <4>1. a < b => next_collection_id(a) # next_collection_id(b)
        BY <3>1, IdsDiffer
      <4>2. b < a => next_collection_id(a) # next_collection_id(b)
        BY <3>1, IdsDiffer
      <4> QED
        BY <3>2, <4>1, <4>2
    <3> QED
      BY <3>1, <3>3
  <2> QED
    BY <2>1, <2>2
<1>6. (archive.toc[t].collection = ID_SPACE - 1) \in BOOLEAN /\ (Naming(t) = {}) \in BOOLEAN
      /\ (archive.toc[t].collection = archive.toc[u].collection) \in BOOLEAN
      /\ (last(t) = last(u)) \in BOOLEAN
  OBVIOUS
<1> QED
  BY <1>1, <1>4, <1>5

-----------------------------------------------------------------------------
(* The archive.                                                             *)
LEMMA ArchiveWritten ==
  ASSUME AudioInv, MainTypes, WorkerInv, FlowInv, PhaseInv, WriteArchive
  PROVE  CollectionsNamed' /\ OkHasEveryDisc'
<1>1. /\ pc = "write" /\ UNCHANGED <<input, cache, manifests>>
      /\ \/ /\ archive'.toc = [t \in DOMAIN manifests |->
                                 [collection |-> collection_id(t), manifest |-> manifests[t]]]
            /\ archive'.audio_index = audio_index /\ archive'.data = data_index
            /\ result' = "Ok"
         \/ result' = "Error"
  BY DEF WriteArchive, Return, KeptAfter, KeptByMain
<1>2. CASE result' = "Error"
  BY <1>2 DEF CollectionsNamed, OkHasEveryDisc
<1>3. CASE /\ archive'.toc = [t \in DOMAIN manifests |->
                                [collection |-> collection_id(t), manifest |-> manifests[t]]]
           /\ archive'.audio_index = audio_index /\ archive'.data = data_index
           /\ result' = "Ok"
  <2>1. /\ Sheet' = Sheet /\ DistinctTitles' = DistinctTitles /\ OneDirectory' = OneDirectory
        /\ \A s \in Sheet : Title(s)' = Title(s) /\ Owned(s)' = Owned(s)
        /\ \A t : collection_id(t)' = collection_id(t)
    BY <1>1, InputKept
  <2>2. ASSUME NEW t \in DOMAIN archive'.toc
        PROVE  archive'.toc[t].collection = collection_id(t)'
    BY <1>3, <2>1
  <2>3. CollectionsNamed'
    BY <2>2 DEF CollectionsNamed
  <2>4. ASSUME DistinctTitles, OneDirectory, NEW s \in Sheet
        PROVE  /\ Title(s) \in DOMAIN archive'.toc
               /\ archive'.toc[Title(s)].manifest = AllPieces(Owned(s))
               /\ \A r \in DOMAIN Owned(s) : \A k \in DOMAIN Owned(s)[r].pieces :
                    IF Owned(s)[r].kind = "data"
                    THEN Contains(archive'.data, Owned(s)[r].pieces[k])
                    ELSE \E e \in DOMAIN archive'.audio_index :
                           archive'.audio_index[e].hash = Owned(s)[r].pieces[k]
    <3>1. Owned(s) = Content(s)
      BY <2>4 DEF Owned, Content, OneDirectory
    <3>2. /\ disc[s].at = "done" /\ disc[s].sent = AllPieces(Content(s))
          /\ \A r \in 1..Len(Content(s)) : \A k \in 1..Len(Content(s)[r].pieces) :
               Content(s)[r].pieces[k] \in cache[Content(s)[r].kind]
      BY <1>1, AllDone DEF AllJoined
    <3>3. Title(s) \in DOMAIN manifests /\ manifests[Title(s)] = AllPieces(Content(s))
      BY <2>4, <3>2 DEF WorkerInv, Entered
    <3>4. /\ \A h \in cache["audio"] : \E e \in 1..Len(audio_index) : audio_index[e].hash = h
          /\ \A h \in cache["data"] : Contains(data_index, h)
      BY <1>1 DEF PhaseInv
    <3>5. ASSUME NEW r \in DOMAIN Content(s), NEW k \in DOMAIN Content(s)[r].pieces
          PROVE  IF Content(s)[r].kind = "data"
                 THEN Contains(data_index, Content(s)[r].pieces[k])
                 ELSE \E e \in DOMAIN audio_index :
                        audio_index[e].hash = Content(s)[r].pieces[k]
      <4>1. Content(s) \in Seq(Runs)
        BY ContentIs
      <4>2. r \in 1..Len(Content(s))
        BY <4>1
      <4>3. Content(s)[r].kind \in Kind /\ Content(s)[r].pieces \in Seq(Hash)
        BY <4>2, ContentIs
      <4>4. k \in 1..Len(Content(s)[r].pieces)
        BY <4>3
      <4>5. Content(s)[r].pieces[k] \in cache[Content(s)[r].kind]
        BY <3>2, <4>2, <4>4
      <4>6. CASE Content(s)[r].kind = "data"
        BY <3>4, <4>5, <4>6
      <4>7. CASE Content(s)[r].kind = "audio"
        <5>1. PICK e \in 1..Len(audio_index) : audio_index[e].hash = Content(s)[r].pieces[k]
          BY <3>4, <4>5, <4>7
        <5>2. e \in DOMAIN audio_index
          BY <5>1 DEF AudioInv, AudioTypes
        <5> QED
          BY <4>7, <5>1, <5>2
      <4> QED
        BY <4>3, <4>6, <4>7 DEF Kind
    <3> QED
      BY <1>3, <3>1, <3>3, <3>5
  <2>5. OkHasEveryDisc'
    BY <2>1, <2>4 DEF OkHasEveryDisc
  <2> QED
    BY <2>3, <2>5
<1> QED
  BY <1>1, <1>2, <1>3

LEMMA ArchiveKept ==
  ASSUME CollectionsNamed, OkHasEveryDisc, UNCHANGED <<input, archive>>,
         result' = "Ok" => result = "Ok"
  PROVE  CollectionsNamed' /\ OkHasEveryDisc'
<1>1. /\ Sheet' = Sheet /\ DistinctTitles' = DistinctTitles /\ OneDirectory' = OneDirectory
      /\ \A s \in Sheet : Title(s)' = Title(s) /\ Owned(s)' = Owned(s)
      /\ \A t : collection_id(t)' = collection_id(t)
  BY InputKept
<1>2. CollectionsNamed'
  BY <1>1 DEF CollectionsNamed
<1>3. OkHasEveryDisc'
  BY <1>1 DEF OkHasEveryDisc
<1> QED
  BY <1>2, <1>3

-----------------------------------------------------------------------------
(* The invariant.                                                           *)
LEMMA InvInit == Init => Inv
<1> SUFFICES ASSUME Init PROVE Inv
  OBVIOUS
<1>1. AudioInv
  BY AudioBegins DEF Init
<1>2. MainTypes
  <2>1. [at |-> "waiting", run |-> 1, piece |-> 1, sent |-> << >>] \in Discs
    BY DEF Discs, Places
  <2>2. disc \in [Sheet -> Discs]
    BY <2>1 DEF Init
  <2>3. cache \in [Kind -> SUBSET Hash] /\ \A k \in Kind : IsFiniteSet(cache[k])
    BY FS_EmptySet DEF Init
  <2> QED
    BY <2>2, <2>3, OpticalAssumption DEF Init, MainTypes
<1>3. WorkerInv
  <2>1. Entered
    BY DEF Init, Entered
  <2>2. ASSUME NEW s \in Sheet PROVE Progress(s)
    <3> DEFINE c == Content(s)
    <3>1. c \in Seq(Runs) /\ Len(c) \in Nat
      BY <1>2, ContentIs
    <3>2. disc[s].run = 1 /\ disc[s].piece = 1 /\ disc[s].sent = << >>
      BY DEF Init
    <3>3. Joined(c)[0] = << >>
      BY <3>1, JoinedExists DEF IsJoined
    <3>4. CASE 1 <= Len(c)
      <4>1. c[1].pieces \in Seq(Hash)
        BY <3>1, <3>4, RunOf
      <4>2. << >> \o SubSeq(c[1].pieces, 1, 0) = << >>
        BY <4>1, NoPieceYet
      <4>3. 1 \in 1..(Len(c[1].pieces) + 1) /\ 1 - 1 = 0 /\ 1 \in 1..(Len(c) + 1)
        BY <3>1, <4>1
      <4> HIDE DEF c
      <4> QED
        BY <3>2, <3>3, <3>4, <4>2, <4>3 DEF Progress, Run, c
    <3>5. CASE ~(1 <= Len(c))
      <4>1. Len(c) = 0 /\ 1 \in 1..(Len(c) + 1)
        BY <3>1, <3>5
      <4> HIDE DEF c
      <4> QED
        BY <3>2, <3>3, <3>5, <4>1 DEF Progress, c
    <3> QED
      BY <3>4, <3>5
  <2> QED
    BY <2>1, <2>2 DEF Init, WorkerInv
<1>4. FlowInv
  <2> SUFFICES ASSUME NEW s \in Sheet, NEW r \in 1..Len(Content(s)),
                      NEW k \in 1..Len(Content(s)[r].pieces),
                      r < disc[s].run \/ (r = disc[s].run /\ k < disc[s].piece)
               PROVE  FALSE
    BY DEF FlowInv
  <2>1. disc[s].run = 1 /\ disc[s].piece = 1
    BY DEF Init
  <2>2. Len(Content(s)) \in Nat /\ Content(s)[r].pieces \in Seq(Hash)
    BY <1>2, ContentIs
  <2> QED
    BY <2>1, <2>2
<1>5. PhaseInv
  BY DEF Init, PhaseInv, AllJoined, AudioInit
<1>6. CollectionsNamed /\ OkHasEveryDisc
  BY DEF Init, CollectionsNamed, OkHasEveryDisc
<1> QED
  BY <1>1, <1>2, <1>3, <1>4, <1>5, <1>6 DEF Inv

(* The parts that hold while the main thread has not returned.              *)
While == pc # "returned" => WorkerInv /\ FlowInv /\ PhaseInv

LEMMA DiscKeeps ==
  ASSUME Inv, NEW s \in Sheet, DiscStep(s) \/ WorkerFails(s)
  PROVE  Inv'
<1>0. AudioInv /\ MainTypes /\ While /\ CollectionsNamed /\ OkHasEveryDisc
  BY DEF Inv, While
<1>1. KeptByDiscs
  BY <1>0, DiscMoves
<1>2. AudioInv'
  BY <1>0, <1>1, AudioKept DEF KeptByDiscs
<1>3. MainTypes'
  BY <1>0, DiscTypes
<1>4. CollectionsNamed' /\ OkHasEveryDisc'
  BY <1>0, <1>1, ArchiveKept DEF KeptByDiscs
<1>5. While'
  <2> SUFFICES ASSUME pc' # "returned" PROVE WorkerInv' /\ FlowInv' /\ PhaseInv'
    BY DEF While
  <2>1. pc # "returned" /\ WorkerInv /\ FlowInv /\ PhaseInv
    BY <1>0, <1>1 DEF KeptByDiscs, While
  <2> QED
    BY <1>0, <2>1, WorkerGoesOn, FlowAfterDiscStep, PhaseAfterDiscStep
<1> QED
  BY <1>2, <1>3, <1>4, <1>5 DEF Inv, While

LEMMA CacheKeeps ==
  ASSUME Inv, CacheStep
  PROVE  Inv'
<1>0. AudioInv /\ MainTypes /\ While /\ CollectionsNamed /\ OkHasEveryDisc
  BY DEF Inv, While
<1>1. UNCHANGED <<input, pc, result, disc, manifests, hashes, archive, audioVars>>
  BY DEF CacheStep, InsertBatch, CacherDone, KeptByCacher
<1>2. AudioInv'
  BY <1>0, <1>1, AudioKept
<1>3. MainTypes'
  BY <1>0, CacheTypes
<1>4. CollectionsNamed' /\ OkHasEveryDisc'
  BY <1>0, <1>1, ArchiveKept
<1>5. While'
  <2> SUFFICES ASSUME pc' # "returned" PROVE WorkerInv' /\ FlowInv' /\ PhaseInv'
    BY DEF While
  <2>1. pc # "returned" /\ WorkerInv /\ FlowInv /\ PhaseInv
    BY <1>0, <1>1 DEF While
  <2> QED
    BY <1>0, <1>1, <2>1, WorkerKept, FlowAfterCacheStep, PhaseAfterCacheStep
<1> QED
  BY <1>2, <1>3, <1>4, <1>5 DEF Inv, While

LEMMA MainKeeps ==
  ASSUME Inv, MainStep
  PROVE  Inv'
<1>0. AudioInv /\ MainTypes /\ While /\ CollectionsNamed /\ OkHasEveryDisc
  BY DEF Inv, While
<1>1. /\ UNCHANGED <<running, input, disc, cache, manifests, hashes>>
      /\ pc # "returned"
      /\ result' = "Ok" => WriteArchive /\ pc = "write"
      /\ ~WriteArchive => archive' = archive
  BY <1>0, MainMoves
<1>2. WorkerInv /\ FlowInv /\ PhaseInv
  BY <1>0, <1>1 DEF While
<1>3. AudioInv'
  <2>1. CASE UNCHANGED audioVars
    BY <1>0, <2>1, AudioKept
  <2>2. CASE Start(SetToSeq(cache["audio"]))
    <3> DEFINE S == cache["audio"]
               hs == SetToSeq(S)
    <3>1. IsFiniteSet(S) /\ S \subseteq Hash
      BY <1>0 DEF MainTypes, Kind
    <3>2. hs \in Seq(S)
      <4> HIDE DEF S
      <4> QED
        BY <3>1, SetToSeqIs
    <3>3. hs \in Seq(Hash)
      <4> HIDE DEF hs, S
      <4> QED
        BY <3>1, <3>2
    <3>4. Start(hs)
      BY <2>2
    <3> HIDE DEF hs
    <3> QED
      BY <1>0, <3>3, <3>4, AudioStarts
  <2> QED
    BY <2>1, <2>2 DEF MainStep, Prepare, Collect, SendBatch, AllCollected, Flush, Join,
                      VerifyDisc, BeginBlob, AudioReturned, Build, WriteArchive, KeptCollecting
<1>4. MainTypes'
  BY <1>0, MainStepTypes
<1>5. While'
  <2> SUFFICES ASSUME pc' # "returned" PROVE WorkerInv' /\ FlowInv' /\ PhaseInv'
    BY DEF While
  <2> QED
    BY <1>0, <1>1, <1>2, WorkerKept, FlowAfterMainStep, PhaseAfterMainStep
<1>6. CollectionsNamed' /\ OkHasEveryDisc'
  <2>1. CASE WriteArchive
    BY <1>0, <1>2, <2>1, ArchiveWritten
  <2>2. CASE ~WriteArchive
    BY <1>0, <1>1, <2>2, ArchiveKept
  <2> QED
    BY <2>1, <2>2
<1> QED
  BY <1>3, <1>4, <1>5, <1>6 DEF Inv, While

LEMMA AudioKeeps ==
  ASSUME Inv, Audio
  PROVE  Inv'
<1>0. AudioInv /\ MainTypes /\ While /\ CollectionsNamed /\ OkHasEveryDisc
  BY DEF Inv, While
<1>1. UNCHANGED <<input, pc, result, disc, queue, batch, batches, cacher, cache, manifests,
                  hashes, archive>> /\ AudioStep
  BY DEF Audio, opticalVars
<1>2. AudioInv'
  BY <1>0, <1>1, AudioStepKeeps
<1>3. MainTypes'
  BY <1>0, <1>1 DEF MainTypes, Sheet
<1>4. CollectionsNamed' /\ OkHasEveryDisc'
  BY <1>0, <1>1, ArchiveKept
<1>5. While'
  <2> SUFFICES ASSUME pc' # "returned" PROVE WorkerInv' /\ FlowInv' /\ PhaseInv'
    BY DEF While
  <2>1. pc # "returned" /\ WorkerInv /\ FlowInv /\ PhaseInv
    BY <1>0, <1>1 DEF While
  <2>2. FlowInv'
    <3>1. \A kind \in Kind, piece \in Hash : OnItsWay(kind, piece) => OnItsWay(kind, piece)'
      BY <1>1 DEF OnItsWay
    <3> QED
      BY <1>0, <1>1, <2>1, <3>1, FlowKept
  <2> QED
    BY <1>0, <1>1, <2>1, <2>2, WorkerKept, PhaseAfterAudio
<1> QED
  BY <1>2, <1>3, <1>4, <1>5 DEF Inv, While

(* A cancellation, or no step at all.                                       *)
LEMMA OthersKeep ==
  ASSUME Inv, UNCHANGED <<opticalVars, audioVars>>
  PROVE  Inv'
<1>0. AudioInv /\ MainTypes /\ While /\ CollectionsNamed /\ OkHasEveryDisc
  BY DEF Inv, While
<1>1. UNCHANGED <<input, pc, result, disc, queue, batch, batches, cacher, cache, manifests,
                  hashes, checked, data_index, archive>>
      /\ UNCHANGED audioVars
  BY DEF opticalVars
<1>2. AudioInv'
  BY <1>0, <1>1, AudioKept
<1>3. MainTypes'
  BY <1>0, <1>1 DEF MainTypes, Sheet
<1>4. CollectionsNamed' /\ OkHasEveryDisc'
  BY <1>0, <1>1, ArchiveKept
<1>5. While'
  <2> SUFFICES ASSUME pc' # "returned" PROVE WorkerInv' /\ FlowInv' /\ PhaseInv'
    BY DEF While
  <2>1. pc # "returned" /\ WorkerInv /\ FlowInv /\ PhaseInv
    BY <1>0, <1>1 DEF While
  <2>2. FlowInv'
    <3>1. \A kind \in Kind, piece \in Hash : OnItsWay(kind, piece) => OnItsWay(kind, piece)'
      BY <1>1 DEF OnItsWay
    <3> QED
      BY <1>0, <1>1, <2>1, <3>1, FlowKept
  <2>3. PhaseInv'
    <3>1. Sheet' = Sheet
      BY <1>1 DEF Sheet
    <3> QED
      BY <1>1, <2>1, <3>1 DEF PhaseInv, AllJoined, SenderDropped, WorkersOver, Flushed, audioVars
  <2> QED
    BY <1>1, <2>1, <2>2, <2>3, WorkerKept
<1> QED
  BY <1>2, <1>3, <1>4, <1>5 DEF Inv, While

LEMMA InvStep == Inv /\ [Next]_vars => Inv'
BY DiscKeeps, CacheKeeps, MainKeeps, AudioKeeps, OthersKeep DEF Next, Cancel, Over, vars

LEMMA Invariant == Spec => []Inv
BY InvInit, InvStep, PTL DEF Spec

(* The program counters and queues of compress_optical_mode and of          *)
(* compress_audio_blocks stay in their ranges, whatever fails.              *)
THEOREM OpticalTypes == Spec => []TypeOK
<1>1. Inv => TypeOK
  <2> SUFFICES ASSUME Inv PROVE TypeOK
    OBVIOUS
  <2>1. AudioTypeOK /\ MainTypes
    BY DEF Inv, AudioInv, AudioTypes
  <2>2. \A s \in Sheet : disc[s].at \in Places
    BY <2>1, DiscIs
  <2> QED
    BY <2>1, <2>2 DEF MainTypes, TypeOK, Places
<1> QED
  BY <1>1, Invariant, PTL

(* Of discs with titles of their own no piece is lost or out of order       *)
(* between the workers' channel, the batches and the caches, when           *)
(* compress_optical_mode has joined its threads.                            *)
THEOREM NoPieceLost == Spec => []NothingLost
<1>1. Inv => NothingLost
  BY NothingIsLost DEF Inv
<1> QED
  BY <1>1, Invariant, PTL

(* Playlists keep the discs of the archive in collections of their own,     *)
(* while there are fewer of them than ids.                                  *)
THEOREM CollectionsStayApart == Spec => []CollectionsApart
<1>1. Inv => CollectionsApart
  BY CollectionsAreApart DEF Inv
<1> QED
  BY <1>1, Invariant, PTL

(* Ok from compress_optical_mode means that the archive has every disc:     *)
(* its pieces in order, each of them in the half of the blob it belongs to. *)
THEOREM OkIsComplete == Spec => []OkHasEveryDisc
<1>1. Inv => OkHasEveryDisc
  BY DEF Inv
<1> QED
  BY <1>1, Invariant, PTL

(* Every entry of the audio index says where its block's bytes begin,       *)
(* however the pool of compress_audio_blocks reorders the blocks.           *)
THEOREM AudioIndexTrue == Spec => []AudioIndexLocates
<1>1. Inv => AudioIndexLocates
  BY IndexLocates DEF Inv, AudioInv
<1> QED
  BY <1>1, Invariant, PTL

(* All of these.                                                            *)
THEOREM OpticalSafe == Spec => []Safe
BY OpticalTypes, NoPieceLost, CollectionsStayApart, AudioIndexTrue, PTL DEF Safe

-----------------------------------------------------------------------------
(* The audio pipeline implements its abstract writer.                       *)

(* The call has come back from an I/O thread that goes on only with the     *)
(* error of a block that could not be compressed.                           *)
AnswerInv == caller = "returned" /\ returns # "Flac" => IoEnded

LEMMA AudioSteps ==
  ASSUME Inv, [Next]_vars
  PROVE  \/ UNCHANGED audioVars
         \/ SetToSeq(cache["audio"]) \in Seq(Hash) /\ Start(SetToSeq(cache["audio"]))
         \/ AudioStep
<1> DEFINE S == cache["audio"]
           hs == SetToSeq(S)
<1>1. hs \in Seq(Hash)
  <2>1. IsFiniteSet(S) /\ S \subseteq Hash
    BY DEF Inv, MainTypes, Kind
  <2> HIDE DEF S
  <2>2. hs \in Seq(S)
    BY <2>1, SetToSeqIs
  <2> HIDE DEF hs
  <2> QED
    BY <2>1, <2>2
<1>2. CASE MainStep
  BY <1>1, <1>2 DEF MainStep, Prepare, Collect, SendBatch, AllCollected, Flush, Join, VerifyDisc,
                    BeginBlob, AudioReturned, Build, WriteArchive, KeptCollecting
<1>3. CASE CacheStep \/ \E s \in Sheet : DiscStep(s) \/ WorkerFails(s)
  BY <1>3 DEF CacheStep, InsertBatch, CacherDone, KeptByCacher, DiscStep, WorkerFails, Begin, Skip,
              SendPiece, SendRefused, RunSent, EnterHash, EnterManifest, KeptByWorkers
<1>4. CASE Audio \/ Cancel \/ Over \/ UNCHANGED vars
  BY <1>4 DEF Audio, Cancel, Over, vars
<1> QED
  BY <1>2, <1>3, <1>4 DEF Next

LEMMA AnswerStep ==
  ASSUME Inv, AnswerInv, [Next]_vars
  PROVE  AnswerInv'
<1>1. CASE UNCHANGED audioVars
  BY <1>1 DEF audioVars, AnswerInv, IoEnded
<1>2. CASE Start(SetToSeq(cache["audio"]))
  BY <1>2 DEF Start, AnswerInv
<1>3. CASE IoStep
  <2>1. ~IoEnded /\ UNCHANGED <<caller, returns>>
    BY <1>3 DEF IoStep, Prefetch, NoPrefetch, QueueBlock, AllQueued, PoolDied, Receive, WriteBlock,
                NothingInTurn, IoDone, IoAt, IoEnded, KeptByIo
  <2> QED
    BY <2>1 DEF AnswerInv
<1>4. CASE \E p \in Pool : PoolStep(p)
  BY <1>4 DEF PoolStep, Take, Compressed, CompressFails, NoMoreWork, KeptByWorker, AnswerInv,
              IoEnded
<1>5. CASE CallerStep
  BY <1>5 DEF CallerStep, SeesIoEnd, SeesError, JoinAll, KeptByCaller, AnswerInv, IoEnded, Inv,
              AudioInv
<1> QED
  BY <1>1, <1>2, <1>3, <1>4, <1>5, AudioSteps DEF AudioStep

LEMMA WriterBegins ==
  ASSUME Init
  PROVE  AudioWriter!Init
BY DEF Init, AudioInit, AudioWriter!Init, Answer

(* A block that is written is the next one, behind the last.                *)
LEMMA WriterWrites ==
  ASSUME Inv, AnswerInv, WriteBlock
  PROVE  AudioWriter!WriteNext \/ UNCHANGED AudioWriter!blobVars
<1> DEFINE n == Len(audio_index)
<1>1. /\ Started /\ io = "write" /\ InTurn # 0
      /\ UNCHANGED <<blocks, caller, returns>>
  BY DEF WriteBlock, IoAt, KeptByIo
<1>2. Answer' = Answer
  BY <1>1 DEF Answer
<1>3. Total \in Nat /\ n \in Nat /\ Len(blob) = n
  BY TotalIsNat DEF Inv, AudioInv, AudioTypes, Indexed
<1>4. InTurn = n + 1 /\ n + 1 \in 1..Total
  BY <1>1, <1>3 DEF InTurn, next_needed, Inv, AudioInv, AudioTypes, AudioTypeOK
<1>5. AudioWriter!Writing
  <2>1. ~IoEnded /\ caller \notin {"idle", "join"} /\ caller \in {"idle", "poll", "join", "returned"}
    BY <1>1 DEF Started, IoEnded, Inv, AudioInv, AudioTypes, AudioTypeOK
  <2>2. Answer \in {"working", "Flac"}
    BY <2>1 DEF Answer, AnswerInv
  <2> QED
    BY <2>2 DEF AudioWriter!Writing
<1>6. AudioWriter!Left > 0
  BY <1>3, <1>4 DEF AudioWriter!Left, Total
<1>7. AudioWriter!EndOf(audio_index) = Offset
  BY DEF AudioWriter!EndOf, Offset, Last
<1>8. CASE UNCHANGED <<blob, audio_index>>
  BY <1>1, <1>2, <1>8 DEF AudioWriter!blobVars
<1>9. CASE /\ blob' = Append(blob, blocks[InTurn])
           /\ audio_index' = Append(audio_index,
                [hash |-> blocks[InTurn], offset |-> Offset,
                 compressed_length |-> CompLen(blocks[InTurn])])
  <2>1. InTurn = Len(blob) + 1
    BY <1>3, <1>4
  <2> QED
    BY <1>1, <1>2, <1>5, <1>6, <1>7, <1>9, <2>1 DEF AudioWriter!WriteNext
<1> QED
  BY <1>8, <1>9 DEF WriteBlock

(* What the caller comes back with is the writer's answer.                  *)
LEMMA WriterAnswers ==
  ASSUME Inv, CallerStep
  PROVE  AudioWriter!Answer \/ UNCHANGED AudioWriter!blobVars
<1>1. UNCHANGED <<blocks, blob, audio_index, io>>
  BY DEF CallerStep, SeesIoEnd, SeesError, JoinAll, KeptByCaller
<1>2. Answer = "working"
  BY DEF CallerStep, SeesIoEnd, SeesError, JoinAll, Answer
<1>3. CASE SeesIoEnd
  BY <1>1, <1>2, <1>3 DEF SeesIoEnd, Answer, AudioWriter!blobVars
<1>4. CASE SeesError
  BY <1>1, <1>2, <1>4 DEF SeesError, Answer, AudioWriter!Answer
<1>5. CASE JoinAll
  <2>1. Answer' = io /\ IoEnded
    BY <1>5 DEF JoinAll, IoResult, Answer, Inv, AudioInv
  <2>2. io = "ok" => AudioWriter!Left = 0
    BY TotalIsNat DEF Inv, AudioInv, AudioTypes, Indexed, AudioWriter!Left, Total
  <2> QED
    BY <1>1, <1>2, <2>1, <2>2 DEF IoEnded, AudioWriter!Answer
<1> QED
  BY <1>3, <1>4, <1>5 DEF CallerStep

LEMMA WriterStep ==
  ASSUME Inv, AnswerInv, [Next]_vars
  PROVE  [AudioWriter!Next]_(AudioWriter!blobVars)
<1>1. CASE UNCHANGED audioVars
  BY <1>1 DEF audioVars, AudioWriter!blobVars, Answer
<1>2. CASE SetToSeq(cache["audio"]) \in Seq(Hash) /\ Start(SetToSeq(cache["audio"]))
  BY <1>2 DEF Start, Answer, AudioWriter!Ask, AudioWriter!Next
<1>3. CASE WriteBlock
  BY <1>3, WriterWrites DEF AudioWriter!Next
<1>4. CASE IoStep /\ ~WriteBlock
  BY <1>4 DEF IoStep, Prefetch, NoPrefetch, QueueBlock, AllQueued, PoolDied, Receive,
              NothingInTurn, IoDone, KeptByIo, AudioWriter!blobVars, Answer
<1>5. CASE \E p \in Pool : PoolStep(p)
  BY <1>5 DEF PoolStep, Take, Compressed, CompressFails, NoMoreWork, KeptByWorker,
              AudioWriter!blobVars, Answer
<1>6. CASE CallerStep
  BY <1>6, WriterAnswers DEF AudioWriter!Next
<1> QED
  BY <1>1, <1>2, <1>3, <1>4, <1>5, <1>6, AudioSteps DEF AudioStep

(* The pool, the I/O thread and the caller of compress_audio_blocks are     *)
(* together a writer without threads: however many workers, and whatever    *)
(* fails or is cancelled, the blocks are written in the order asked for,    *)
(* each where its entry says, Ok is the answer only after the last, and     *)
(* only an abandoned writer goes on after the answer.                       *)
THEOREM ImplementsAudioBlob == Spec => AudioWriterSpec
<1>1. Init => AnswerInv /\ AudioWriter!Init
  BY WriterBegins DEF Init, AudioInit, AnswerInv
<1>2. Inv /\ AnswerInv /\ [Next]_vars => AnswerInv'
  BY AnswerStep
<1>3. Inv /\ AnswerInv /\ [Next]_vars => [AudioWriter!Next]_(AudioWriter!blobVars)
  BY WriterStep
<1> QED
  BY <1>1, <1>2, <1>3, Invariant, PTL DEF Spec, AudioWriterSpec, AudioWriter!Spec

-----------------------------------------------------------------------------
(* Somebody can always go on.                                               *)

(* While the I/O thread runs and no block has failed, each block that was   *)
(* read and is not written is at some place, and the thread only waits for  *)
(* blocks that will come.                                                   *)
In(b, s) == \E i \in 1..Len(s) : s[i] = b
Somewhere(b) ==
  \/ b \in reorder
  \/ In(b, fetched) \/ In(b, to_compress) \/ In(b, from_compress)
  \/ \E p \in Pool : worker[p] = b
AllSomewhere == \A b \in 1..read_cursor : b < next_needed \/ Somewhere(b)
InFlight == to_compress # << >> \/ from_compress # << >> \/ \E p \in Pool : Compressing(p)
Flowing ==
  /\ \A p \in Pool : worker[p] # Ended
  /\ AllSomewhere
  /\ io \in {"loop", "receive", "write"} => fetched = << >>
  /\ io \in {"loop", "send", "receive"} => next_needed \notin reorder
  /\ io = "receive" => InFlight
  /\ io = "send" => fetched # << >> \/ InFlight

WaitInv ==
  /\ ~IoEnded /\ ~errors => Flowing
  /\ pc = "audio" => caller # "idle"

LEMMA InAppend ==
  ASSUME NEW S, NEW s \in Seq(S), NEW x \in S
  PROVE  Append(s, x) # << >> /\ \A b : In(b, Append(s, x)) <=> b = x \/ In(b, s)
<1> DEFINE t == Append(s, x)
<1>1. /\ Len(s) \in Nat /\ Len(t) = Len(s) + 1 /\ t[Len(s) + 1] = x
      /\ \A i \in 1..Len(s) : t[i] = s[i]
  BY AppendOf
<1>2. t # << >>
  <2>1. Len(t) # 0
    BY <1>1
  <2> HIDE DEF t
  <2> QED
    BY <2>1
<1> HIDE DEF t
<1>3. ASSUME NEW b PROVE In(b, t) <=> b = x \/ In(b, s)
  <2>1. ASSUME In(b, t) PROVE b = x \/ In(b, s)
    <3>1. PICK i \in 1..Len(t) : t[i] = b
      BY <2>1 DEF In
    <3>2. i = Len(s) + 1 \/ i \in 1..Len(s)
      BY <1>1, <3>1
    <3> QED
      BY <1>1, <3>1, <3>2 DEF In
  <2>2. ASSUME b = x \/ In(b, s) PROVE In(b, t)
    <3>1. CASE b = x
      <4>1. Len(s) + 1 \in 1..Len(t)
        BY <1>1
      <4> QED
        BY <1>1, <3>1, <4>1 DEF In
    <3>2. CASE In(b, s)
      <4>1. PICK i \in 1..Len(s) : s[i] = b
        BY <3>2 DEF In
      <4>2. i \in 1..Len(t)
        BY <1>1, <4>1
      <4> QED
        BY <1>1, <4>1, <4>2 DEF In
    <3> QED
      BY <2>2, <3>1, <3>2
  <2> QED
    BY <2>1, <2>2
<1> QED
  BY <1>2, <1>3 DEF t

LEMMA InTail ==
  ASSUME NEW S, NEW s \in Seq(S), s # << >>
  PROVE  \A b : In(b, s) => b = Head(s) \/ In(b, Tail(s))
<1>1. /\ Head(s) = s[1] /\ Len(s) \in Nat \ {0} /\ Len(Tail(s)) = Len(s) - 1
      /\ \A i \in 1..Len(Tail(s)) : Tail(s)[i] = s[i + 1]
  BY HeadOf
<1> DEFINE t == Tail(s)
<1> HIDE DEF t
<1>2. ASSUME NEW b, In(b, s) PROVE b = Head(s) \/ In(b, t)
  <2>1. PICK i \in 1..Len(s) : s[i] = b
    BY <1>2 DEF In
  <2>2. CASE i = 1
    BY <1>1, <2>1, <2>2
  <2>3. CASE i # 1
    <3>1. i - 1 \in 1..Len(t) /\ (i - 1) + 1 = i
      BY <1>1, <2>1, <2>3 DEF t
    <3>2. t[i - 1] = b
      BY <1>1, <2>1, <3>1 DEF t
    <3> QED
      BY <3>1, <3>2 DEF In
  <2> QED
    BY <2>2, <2>3
<1> QED
  BY <1>2 DEF t

(* Nothing is anywhere but at its place when the call has just begun.       *)
LEMMA FlowBegins ==
  ASSUME worker = [p \in Pool |-> Idle], reorder = {}, fetched = << >>, io = "loop",
         read_cursor = 0
  PROVE  Flowing
BY DEF Flowing, AllSomewhere, Idle, Ended

LEMMA FlowAfterIo ==
  ASSUME AudioInv, ~IoEnded, ~errors, Flowing, IoStep, ~IoEnded'
  PROVE  Flowing'
<1>1. UNCHANGED <<blocks, errors, worker>> /\ Total' = Total /\ Total \in Nat
  BY TotalIsNat DEF IoStep, Prefetch, NoPrefetch, QueueBlock, AllQueued, PoolDied, Receive,
                    WriteBlock, NothingInTurn, IoDone, KeptByIo, Total, AudioInv
<1>2. \A p \in Pool : worker'[p] # Ended
  BY <1>1 DEF Flowing
<1>3. next_needed \in Nat \ {0} /\ read_cursor \in 0..Total
  BY <1>1 DEF next_needed, AudioInv, AudioTypes, AudioTypeOK
<1>4. CASE Prefetch
  <2> DEFINE upto == IF read_cursor + PREFETCH_HIGH_THRESHOLD < Total
                     THEN read_cursor + PREFETCH_HIGH_THRESHOLD ELSE Total
  <2>1. /\ fetched' = [k \in 1..(upto - read_cursor) |-> read_cursor + k]
        /\ read_cursor' = upto /\ io' = "send"
        /\ io = "loop" /\ read_cursor < Total
        /\ UNCHANGED <<to_compress, from_compress, reorder, blob, audio_index>>
    BY <1>4 DEF Prefetch, IoEnded, IoAt, WantsMore
  <2>2. upto \in Nat /\ upto - read_cursor \in Nat \ {0}
    BY <1>1, <1>3, <2>1, AudioBlocksAssumption
  <2> HIDE DEF upto
  <2>3. Len(fetched') = upto - read_cursor
    BY <2>1, <2>2
  <2>4. fetched' # << >>
    BY <2>2, <2>3
  <2>5. next_needed' = next_needed /\ fetched = << >>
    BY <2>1 DEF next_needed, Flowing
  <2>6. ASSUME NEW b \in 1..upto PROVE b < next_needed \/ Somewhere(b)'
    <3>1. CASE b \in 1..read_cursor
      <4>1. b < next_needed \/ Somewhere(b)
        BY <3>1 DEF Flowing, AllSomewhere
      <4>2. ~In(b, fetched)
        BY <2>5 DEF In
      <4> QED
        BY <1>1, <2>1, <4>1, <4>2 DEF Somewhere
    <3>2. CASE b \notin 1..read_cursor
      <4>1. b - read_cursor \in 1..(upto - read_cursor) /\ read_cursor + (b - read_cursor) = b
        BY <1>3, <2>2, <3>2
      <4>2. fetched'[b - read_cursor] = b
        BY <2>1, <4>1
      <4>3. In(b, fetched')
        BY <2>3, <4>1, <4>2 DEF In
      <4> QED
        BY <4>3 DEF Somewhere, In
    <3> QED
      BY <3>1, <3>2
  <2>7. AllSomewhere'
    BY <2>1, <2>5, <2>6 DEF AllSomewhere
  <2> QED
    BY <1>2, <2>1, <2>4, <2>5, <2>7 DEF Flowing
<1>5. CASE NoPrefetch
  <2>1. /\ io = "loop" /\ io' = "receive" /\ next_needed <= Total /\ ~WantsMore
        /\ UNCHANGED <<to_compress, from_compress, fetched, read_cursor, reorder, blob, audio_index>>
    BY <1>5 DEF NoPrefetch, IoAt
  <2>2. UNCHANGED <<next_needed, AllSomewhere, InFlight>>
    BY <1>1, <2>1 DEF next_needed, AllSomewhere, Somewhere, In, InFlight, Compressing
  <2>3. InFlight
    <3>1. CASE ~(read_cursor < Total)
      <4>1. next_needed \in 1..read_cursor /\ ~(next_needed < next_needed)
        BY <1>1, <1>3, <2>1, <3>1
      <4>2. Somewhere(next_needed) /\ next_needed \notin reorder /\ fetched = << >>
        BY <2>1, <4>1 DEF Flowing, AllSomewhere
      <4>3. \/ In(next_needed, to_compress) \/ In(next_needed, from_compress)
            \/ \E p \in Pool : worker[p] = next_needed
        BY <4>2 DEF Somewhere, In
      <4>4. next_needed \in 1..Total
        BY <1>1, <1>3, <2>1
      <4> QED
        BY <4>3, <4>4 DEF In, InFlight, Compressing
    <3>2. CASE read_cursor < Total
      <4>1. ~(Len(to_compress) < PREFETCH_LOW_THRESHOLD)
        BY <2>1, <3>2 DEF WantsMore
      <4>2. to_compress # << >>
        BY <4>1, AudioBlocksAssumption
      <4> QED
        BY <4>2 DEF InFlight
    <3> QED
      BY <3>1, <3>2
  <2> QED
    BY <1>2, <2>1, <2>2, <2>3 DEF Flowing
<1>6. CASE QueueBlock
  <2>1. /\ io = "send" /\ io' = "send" /\ fetched # << >> /\ fetched' = Tail(fetched)
        /\ to_compress' = Append(to_compress, Head(fetched))
        /\ UNCHANGED <<from_compress, read_cursor, reorder, blob, audio_index>>
    BY <1>6 DEF QueueBlock, IoAt
  <2>2. fetched \in Seq(1..Total) /\ to_compress \in Seq(1..Total) /\ Head(fetched) \in 1..Total
    BY <2>1, HeadOf DEF AudioInv, AudioTypes
  <2>3. /\ to_compress' # << >>
        /\ \A b : In(b, to_compress') <=> b = Head(fetched) \/ In(b, to_compress)
        /\ \A b : In(b, fetched) => b = Head(fetched) \/ In(b, fetched')
    BY <2>1, <2>2, InAppend, InTail
  <2>4. next_needed' = next_needed
    BY <2>1 DEF next_needed
  <2>5. ASSUME NEW b, Somewhere(b) PROVE Somewhere(b)'
    <3>1. \/ b \in reorder' \/ In(b, fetched') \/ In(b, to_compress') \/ In(b, from_compress')
          \/ \E p \in Pool : worker'[p] = b
      BY <1>1, <2>1, <2>3, <2>5 DEF Somewhere
    <3> QED
      BY <3>1 DEF Somewhere, In
  <2>6. AllSomewhere'
    BY <2>1, <2>4, <2>5 DEF AllSomewhere, Flowing
  <2> QED
    BY <1>2, <2>1, <2>3, <2>4, <2>6 DEF Flowing, InFlight
<1>7. CASE AllQueued
  <2>1. /\ io = "send" /\ io' = "receive" /\ fetched = << >>
        /\ UNCHANGED <<to_compress, from_compress, fetched, read_cursor, reorder, blob, audio_index>>
    BY <1>7 DEF AllQueued, IoAt
  <2>2. UNCHANGED <<next_needed, AllSomewhere, InFlight>>
    BY <1>1, <2>1 DEF next_needed, AllSomewhere, Somewhere, In, InFlight, Compressing
  <2> QED
    BY <1>2, <2>1, <2>2 DEF Flowing
<1>8. CASE Receive
  <2>1. /\ io = "receive" /\ io' = "write" /\ from_compress # << >>
        /\ from_compress' = Tail(from_compress)
        /\ reorder' = reorder \cup {Head(from_compress)}
        /\ UNCHANGED <<to_compress, fetched, read_cursor, blob, audio_index>>
    BY <1>8 DEF Receive, IoAt
  <2>2. \A b : In(b, from_compress) => b = Head(from_compress) \/ In(b, from_compress')
    BY <2>1, InTail DEF AudioInv, AudioTypes
  <2>3. ASSUME NEW b, Somewhere(b) PROVE Somewhere(b)'
    <3>1. \/ b \in reorder' \/ In(b, fetched') \/ In(b, to_compress') \/ In(b, from_compress')
          \/ \E p \in Pool : worker'[p] = b
      BY <1>1, <2>1, <2>2, <2>3 DEF Somewhere
    <3> QED
      BY <3>1 DEF Somewhere, In
  <2>4. AllSomewhere'
    BY <2>1, <2>3 DEF AllSomewhere, Flowing, next_needed
  <2> QED
    BY <1>2, <2>1, <2>4 DEF Flowing
<1>9. CASE WriteBlock
  <2>1. /\ io = "write" /\ io' = io /\ InTurn # 0
        /\ blob' = Append(blob, blocks[InTurn]) /\ reorder' = reorder \ {InTurn}
        /\ \E entry : audio_index' = Append(audio_index, entry)
        /\ UNCHANGED <<to_compress, from_compress, fetched, read_cursor>>
    BY <1>9 DEF WriteBlock, IoAt, IoEnded
  <2>2. InTurn = next_needed
    BY <2>1 DEF InTurn
  <2>3. next_needed' = next_needed + 1
    BY <2>1 DEF next_needed, AudioInv, AudioTypes
  <2>4. ASSUME NEW b \in 1..read_cursor PROVE b < next_needed' \/ Somewhere(b)'
    <3>1. b < next_needed \/ Somewhere(b)
      BY DEF Flowing, AllSomewhere
    <3>2. CASE b < next_needed \/ b = next_needed
      BY <1>3, <2>3, <3>2
    <3>3. CASE Somewhere(b) /\ b # next_needed
      BY <1>1, <2>1, <2>2, <3>3 DEF Somewhere, In
    <3> QED
      BY <3>1, <3>2, <3>3
  <2>5. AllSomewhere'
    BY <2>1, <2>4 DEF AllSomewhere
  <2> QED
    BY <1>2, <2>1, <2>5 DEF Flowing
<1>10. CASE NothingInTurn
  <2>1. /\ io = "write" /\ io' = "loop" /\ InTurn = 0
        /\ UNCHANGED <<to_compress, from_compress, fetched, read_cursor, reorder, blob, audio_index>>
    BY <1>10 DEF NothingInTurn, IoAt
  <2>2. UNCHANGED <<next_needed, AllSomewhere>>
    BY <1>1, <2>1 DEF next_needed, AllSomewhere, Somewhere, In
  <2>3. next_needed \notin reorder
    BY <1>3, <2>1 DEF InTurn
  <2> QED
    BY <1>2, <2>1, <2>2, <2>3 DEF Flowing
<1> QED
  BY <1>4, <1>5, <1>6, <1>7, <1>8, <1>9, <1>10 DEF IoStep, PoolDied, IoDone, IoEnded

LEMMA FlowAfterPool ==
  ASSUME AudioInv, ~IoEnded, Flowing, NEW p \in Pool, PoolStep(p), ~errors'
  PROVE  Flowing'
<1>1. UNCHANGED <<blocks, io, fetched, read_cursor, reorder, blob, audio_index>>
      /\ Total' = Total /\ Total \in Nat /\ next_needed' = next_needed
  BY TotalIsNat DEF PoolStep, Take, Compressed, CompressFails, NoMoreWork, KeptByWorker, Total,
                    AudioInv, next_needed
<1>2. worker \in [Pool -> 0..Total \cup {Ended}]
  BY DEF AudioInv, AudioTypes, AudioTypeOK
<1>3. /\ InFlight'
      /\ \A q \in Pool : worker'[q] # Ended
      /\ \A b : b # Idle /\ Somewhere(b) => Somewhere(b)'
  <2>1. CASE Take(p)
    <3>1. /\ worker[p] = Idle /\ to_compress # << >> /\ to_compress' = Tail(to_compress)
          /\ worker' = [worker EXCEPT ![p] = Head(to_compress)] /\ from_compress' = from_compress
      BY <2>1 DEF Take
    <3>2. /\ Head(to_compress) \in 1..Total
          /\ \A b : In(b, to_compress) => b = Head(to_compress) \/ In(b, to_compress')
      BY <3>1, HeadOf, InTail DEF AudioInv, AudioTypes
    <3>3. worker'[p] = Head(to_compress) /\ \A q \in Pool : q # p => worker'[q] = worker[q]
      BY <1>2, <3>1
    <3>4. InFlight'
      BY <1>1, <3>2, <3>3 DEF InFlight, Compressing
    <3>5. ASSUME NEW q \in Pool PROVE worker'[q] # Ended
      BY <1>1, <3>2, <3>3 DEF Flowing, Ended
    <3>6. ASSUME NEW b, b # Idle, Somewhere(b) PROVE Somewhere(b)'
      <4>1. \/ b \in reorder' \/ In(b, fetched') \/ In(b, to_compress') \/ In(b, from_compress')
            \/ \E q \in Pool : worker'[q] = b
        BY <1>1, <3>1, <3>2, <3>3, <3>6 DEF Somewhere
      <4> QED
        BY <4>1 DEF Somewhere, In
    <3> QED
      BY <3>4, <3>5, <3>6
  <2>2. CASE Compressed(p)
    <3>1. /\ worker[p] \in 1..Total /\ to_compress' = to_compress
          /\ worker' = [worker EXCEPT ![p] = Idle]
          /\ from_compress' = Append(from_compress, worker[p])
      BY <2>2 DEF Compressed, Compressing
    <3>2. /\ from_compress' # << >>
          /\ \A b : In(b, from_compress') <=> b = worker[p] \/ In(b, from_compress)
      BY <3>1, InAppend DEF AudioInv, AudioTypes
    <3>3. worker'[p] = Idle /\ \A q \in Pool : q # p => worker'[q] = worker[q]
      BY <1>2, <3>1
    <3>4. ASSUME NEW q \in Pool PROVE worker'[q] # Ended
      BY <3>3 DEF Flowing, Ended, Idle
    <3>5. ASSUME NEW b, Somewhere(b) PROVE Somewhere(b)'
      <4>1. \/ b \in reorder' \/ In(b, fetched') \/ In(b, to_compress') \/ In(b, from_compress')
            \/ \E q \in Pool : worker'[q] = b
        BY <1>1, <3>1, <3>2, <3>3, <3>5 DEF Somewhere
      <4> QED
        BY <4>1 DEF Somewhere, In
    <3> QED
      BY <3>2, <3>4, <3>5 DEF InFlight
  <2> QED
    BY <2>1, <2>2 DEF PoolStep, CompressFails, NoMoreWork
<1>4. AllSomewhere'
  <2>1. ASSUME NEW b \in 1..read_cursor PROVE b < next_needed \/ Somewhere(b)'
    <3>1. b # Idle /\ (b < next_needed \/ Somewhere(b))
      BY DEF Idle, Flowing, AllSomewhere
    <3> QED
      BY <1>3, <3>1
  <2> QED
    BY <1>1, <2>1 DEF AllSomewhere
<1> QED
  BY <1>1, <1>3, <1>4 DEF Flowing

LEMMA FlowKeptAside ==
  ASSUME Flowing, UNCHANGED <<blocks, to_compress, from_compress, worker, io, fetched, read_cursor,
                              reorder, blob, audio_index>>
  PROVE  Flowing'
<1>1. UNCHANGED <<next_needed, AllSomewhere, InFlight>>
  BY DEF next_needed, AllSomewhere, Somewhere, In, InFlight, Compressing, Total
<1> QED
  BY <1>1 DEF Flowing

LEMMA WaitStep ==
  ASSUME Inv, WaitInv, [Next]_vars
  PROVE  WaitInv'
<1>0. AudioInv
  BY DEF Inv
<1>1. pc' = "audio" => caller' # "idle"
  <2>1. CASE MainStep
    BY <2>1 DEF MainStep, Prepare, Collect, SendBatch, AllCollected, Flush, Join, VerifyDisc,
                BeginBlob, AudioReturned, Build, WriteArchive, Goto, Return, Start
  <2>2. CASE Audio
    BY <2>2, AudioMoves, <1>0 DEF Audio, AudioStep, opticalVars, CallerStep, SeesIoEnd, SeesError,
       JoinAll, WaitInv, IoStep, Prefetch, NoPrefetch, QueueBlock, AllQueued, PoolDied, Receive,
       WriteBlock, NothingInTurn, IoDone, KeptByIo, PoolStep, Take, Compressed, CompressFails,
       NoMoreWork, KeptByWorker
  <2>3. CASE CacheStep \/ \E s \in Sheet : DiscStep(s) \/ WorkerFails(s)
    BY <2>3 DEF CacheStep, InsertBatch, CacherDone, KeptByCacher, DiscStep, WorkerFails, Begin,
                Skip, SendPiece, SendRefused, RunSent, EnterHash, EnterManifest, KeptByWorkers,
                audioVars, WaitInv
  <2>4. CASE Cancel \/ Over \/ UNCHANGED vars
    BY <2>4 DEF Cancel, Over, vars, opticalVars, audioVars, WaitInv
  <2> QED
    BY <2>1, <2>2, <2>3, <2>4 DEF Next
<1>2. ASSUME ~IoEnded', ~errors' PROVE Flowing'
  <2>1. CASE UNCHANGED audioVars
    BY <1>2, <2>1, FlowKeptAside DEF audioVars, WaitInv, IoEnded
  <2>2. CASE Start(SetToSeq(cache["audio"]))
    <3>1. AudioInit /\ UNCHANGED <<worker, reorder, fetched, io, read_cursor>>
      BY <1>0, <2>2 DEF Start, AudioInv
    <3> QED
      BY <3>1, FlowBegins DEF AudioInit, Flowing, AllSomewhere, Idle, Ended
  <2>3. CASE IoStep
    <3>1. ~IoEnded /\ errors' = errors
      BY <2>3 DEF IoStep, Prefetch, NoPrefetch, QueueBlock, AllQueued, PoolDied, Receive,
                  WriteBlock, NothingInTurn, IoDone, IoAt, IoEnded, KeptByIo
    <3> QED
      BY <1>0, <1>2, <2>3, <3>1, FlowAfterIo DEF WaitInv
  <2>4. CASE \E p \in Pool : PoolStep(p)
    <3>1. PICK p \in Pool : PoolStep(p)
      BY <2>4
    <3>2. io' = io /\ (errors => errors')
      BY <3>1 DEF PoolStep, Take, Compressed, CompressFails, NoMoreWork, KeptByWorker
    <3> QED
      BY <1>0, <1>2, <3>1, <3>2, FlowAfterPool DEF WaitInv, IoEnded
  <2>5. CASE CallerStep
    BY <1>2, <2>5, FlowKeptAside DEF CallerStep, SeesIoEnd, SeesError, JoinAll, KeptByCaller,
                                     WaitInv, IoEnded
  <2> QED
    BY <2>1, <2>2, <2>3, <2>4, <2>5, AudioSteps DEF AudioStep
<1> QED
  BY <1>1, <1>2 DEF WaitInv

(* The audio threads do not all wait.                                       *)
LEMMA AudioGoesOn ==
  ASSUME AudioInv, WaitInv, AudioWaits, pc = "audio"
  PROVE  caller = "returned"
<1> SUFFICES ASSUME caller # "returned" PROVE FALSE
  OBVIOUS
<1>1. IoWaits /\ CallerWaits /\ (\A p \in Pool : PoolWaits(p)) /\ caller \in {"poll", "join"}
  BY DEF WaitInv, AudioWaits, AudioInv, AudioTypes, AudioTypeOK
<1>2. CASE IoEnded
  BY <1>1, <1>2 DEF CallerWaits, PoolWaits, PoolEnded
<1>3. CASE ~IoEnded /\ errors
  BY <1>1, <1>3 DEF CallerWaits, AudioInv
<1>4. CASE ~IoEnded /\ ~errors
  <2>1. Flowing
    BY <1>4 DEF WaitInv
  <2>2. PICK p \in Pool : TRUE
    BY AudioBlocksAssumption
  <2>3. to_compress = << >> /\ \A q \in Pool : worker[q] = Idle
    BY <1>1, <2>1, <2>2 DEF PoolWaits, Flowing
  <2>4. io = "receive" /\ from_compress = << >>
    BY <1>1, <1>4, <2>3, AudioBlocksAssumption DEF IoWaits
  <2>5. ~InFlight
    BY <2>3, <2>4 DEF InFlight, Compressing, Idle
  <2> QED
    BY <2>1, <2>4, <2>5 DEF Flowing
<1> QED
  BY <1>2, <1>3, <1>4

LEMMA SomebodyGoesOn ==
  ASSUME Inv, WaitInv
  PROVE  NeverAllWait
<1> SUFFICES ASSUME pc # "returned", MainWaits, CacherWaits, \A s \in Sheet : WorkerWaits(s),
                    AudioWaits
             PROVE  FALSE
  BY DEF NeverAllWait
<1>1. AudioInv /\ MainTypes /\ PhaseInv
  BY DEF Inv
<1>2. CHANNEL > 0 /\ BATCHES > 0 /\ CHANNEL \in Nat /\ BATCHES \in Nat
  BY OpticalAssumption
<1>3. CASE pc = "audio"
  BY <1>1, <1>3, AudioGoesOn DEF MainWaits
<1>4. CASE pc = "join"
  BY <1>4 DEF MainWaits, CacherWaits, SenderDropped
<1>5. CASE pc \in {"collect", "flush"} /\ ~BatchGoes
  <2>1. cacher = "open"
    BY <1>1, <1>5 DEF PhaseInv, MainTypes, BatchGoes, SenderDropped
  <2>2. batches # << >>
    BY <1>2, <1>5, <2>1 DEF BatchGoes
  <2> QED
    BY <2>1, <2>2 DEF CacherWaits
<1>6. CASE pc = "collect" /\ queue = << >> /\ ~WorkersOver
  <2>1. PICK s \in Sheet : disc[s].at \notin {"done", "failed", "skipped"}
    BY <1>6 DEF WorkersOver
  <2>2. cacher # "none"
    BY <1>1, <1>6 DEF PhaseInv
  <2>3. Len(queue) < CHANNEL
    BY <1>2, <1>6
  <2> QED
    BY <1>2, <2>1, <2>2, <2>3 DEF WorkerWaits
<1> QED
  BY <1>3, <1>4, <1>5, <1>6 DEF MainWaits

(* Until compress_optical_mode has returned some thread of it can go on,    *)
(* however small the channels between the workers, the main thread, the     *)
(* caches, the audio pool and its I/O thread are, and however large the     *)
(* discs: the pipeline cannot deadlock.                                     *)
THEOREM PipelineGoesOn == Spec => []NeverAllWait
<1>1. Init => WaitInv
  BY FlowBegins DEF Init, AudioInit, WaitInv
<1>2. Inv /\ WaitInv /\ [Next]_vars => WaitInv'
  BY WaitStep
<1>3. Inv /\ WaitInv => NeverAllWait
  BY SomebodyGoesOn
<1> QED
  BY <1>1, <1>2, <1>3, Invariant, PTL DEF Spec
=============================================================================

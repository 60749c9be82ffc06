---------------------------- MODULE Verification ----------------------------
(***************************************************************************)
(* The check of what was chunked before it replaces the original.           *)
(* verify_single_file hashes the chunks of one file again, and              *)
(* verify_disc_integrity rebuilds the sectors of one disc from its data     *)
(* chunks and its audio blocks.  Either is a thread that receives batches   *)
(* over a bounded channel from a thread that fetches them, one for each     *)
(* kind of content.  The host's callback may answer with other bytes or     *)
(* fewer than it was asked for, fail, or notice a cancellation.             *)
(***************************************************************************)
EXTENDS Naturals, Sequences, FiniteSets, SequencesExt

CONSTANTS
  FileSizes,   \* how many chunks a file may have
  Discs,       \* the discs: for each sector the lane its content comes from
  BATCH_SIZE,  \* chunks asked for at a time
  CHANNEL      \* capacity of a channel

Lane == {"data", "audio"}

ASSUME VerificationAssumption ==
  /\ FileSizes \subseteq Nat
  /\ Discs \subseteq Seq(Lane)
  /\ BATCH_SIZE \in Nat \ {0}
  /\ CHANNEL \in Nat \ {0}

VARIABLES
  kind,      \* "file" or "disc"
  plan,      \* the chunks of the file, or the sectors of the disc, as lanes
  fetcher,   \* the fetching threads: "fetch", "send" or "ended"
  asked,     \* how many chunks each has asked for
  holds,     \* the message it is about to send
  channel,   \* the messages in flight
  buffer,    \* content the verifying thread received and did not use yet
  digest,    \* the content hashed so far
  pc,        \* the verifying thread: "verify", "join" or "returned"
  verdict,   \* what it returned
  answers    \* history: what the callbacks have answered

vars == <<kind, plan, fetcher, asked, holds, channel, buffer, digest, pc, verdict, answers>>

(* How much of a lane the first i entries of the plan take, and all do.     *)
CountOf(l, i) == Cardinality({j \in 1..i : plan[j] = l})
Wanted(l) == CountOf(l, Len(plan))

Unit(l, k, as) == <<l, k, as>>
(* The content as it was chunked: the k-th unit of a lane where the plan    *)
(* names the lane for the k-th time.                                        *)
Original == [i \in DOMAIN plan |-> Unit(plan[i], CountOf(plan[i], i), "good")]

Nothing == [as |-> "none"]
Data(units) == [as |-> "ok", units |-> units]
Failed(err) == [as |-> err]

Init ==
  /\ \/ kind = "file" /\ plan \in {[i \in 1..n |-> "data"] : n \in FileSizes}
     \/ kind = "disc" /\ plan \in Discs
  /\ fetcher = [l \in Lane |-> IF kind = "file" /\ l = "audio" THEN "ended" ELSE "fetch"]
  /\ asked = [l \in Lane |-> 0]
  /\ holds = [l \in Lane |-> Nothing]
  /\ channel = [l \in Lane |-> << >>]
  /\ buffer = [l \in Lane |-> << >>]
  /\ digest = << >>
  /\ pc = "verify"
  /\ verdict = "none"
  /\ answers = {}

-----------------------------------------------------------------------------
(* The fetching threads.                                                    *)

(* The chunks of the next batch, and what the callback makes of them.       *)
BatchLength(l) ==
  IF Wanted(l) - asked[l] < BATCH_SIZE THEN Wanted(l) - asked[l] ELSE BATCH_SIZE
Batch(l) == [i \in 1..BatchLength(l) |-> Unit(l, asked[l] + i, "good")]

Answered(l, as) ==
  CASE as = "good" -> Data(Batch(l))
    [] as = "bad" -> Data([Batch(l) EXCEPT ![1] = Unit(l, asked[l] + 1, "bad")])
    [] as = "short" -> Data(Front(Batch(l)))
    (* spawn_data_fetcher makes every error an External one.                *)
    [] as = "cancelled" -> Failed(IF kind = "file" THEN "Cancelled" ELSE "External")
    [] as = "error" -> Failed("External")

Answers == {"good", "bad", "short", "cancelled", "error"}

Fetch(l) ==
  /\ fetcher[l] = "fetch"
  /\ asked[l] < Wanted(l)
  /\ \E as \in Answers :
       /\ holds' = [holds EXCEPT ![l] = Answered(l, as)]
       /\ answers' = answers \cup {as}
  /\ asked' = [asked EXCEPT ![l] = @ + BatchLength(l)]
  /\ fetcher' = [fetcher EXCEPT ![l] = "send"]
  /\ UNCHANGED <<kind, plan, channel, buffer, digest, pc, verdict>>

(* Mutant of AfterSend: an error is sent and the next batch is asked for.   *)
AfterSendGoesOn(l) == "fetch"

(* The thread ends after an error.                                          *)
AfterSend(l) == IF holds[l].as = "ok" THEN "fetch" ELSE "ended"

Send(l) ==
  /\ fetcher[l] = "send"
  /\ pc # "returned"
  /\ Len(channel[l]) < CHANNEL
  /\ channel' = [channel EXCEPT ![l] = Append(@, holds[l])]
  /\ holds' = [holds EXCEPT ![l] = Nothing]
  /\ fetcher' = [fetcher EXCEPT ![l] = AfterSend(l)]
  /\ UNCHANGED <<kind, plan, asked, buffer, digest, pc, verdict, answers>>

(* Mutant of HungUp: the receiver outlives the call, and the sender waits.  *)
HungUpUnseen(l) == fetcher[l] = "send" /\ pc = "returned" /\ UNCHANGED vars

(* Nobody receives any more.                                                *)
HungUp(l) ==
  /\ fetcher[l] = "send"
  /\ pc = "returned"
  /\ holds' = [holds EXCEPT ![l] = Nothing]
  /\ fetcher' = [fetcher EXCEPT ![l] = "ended"]
  /\ UNCHANGED <<kind, plan, asked, channel, buffer, digest, pc, verdict, answers>>

AllSent(l) ==
  /\ fetcher[l] = "fetch"
  /\ asked[l] = Wanted(l)
  /\ fetcher' = [fetcher EXCEPT ![l] = "ended"]
  /\ UNCHANGED <<kind, plan, asked, holds, channel, buffer, digest, pc, verdict, answers>>

-----------------------------------------------------------------------------
(* The verifying thread.                                                    *)

Return(v) == pc' = "returned" /\ verdict' = v
Verifying == pc = "verify" /\ UNCHANGED <<kind, plan, fetcher, asked, holds, answers>>

Waiting(l) == channel[l] # << >>
(* The sender is gone and nothing is left.                                  *)
Closed(l) == channel[l] = << >> /\ fetcher[l] = "ended"
Received(l) == channel' = [channel EXCEPT ![l] = Tail(@)]

HashBatch ==
  /\ Verifying
  /\ kind = "file"
  /\ Waiting("data")
  /\ Received("data")
  /\ LET result == Head(channel["data"])
     IN \/ /\ result.as = "ok"
           /\ digest' = digest \o result.units
           /\ UNCHANGED <<pc, verdict>>
        \/ /\ result.as # "ok"
           /\ Return(result.as)
           /\ UNCHANGED digest
  /\ UNCHANGED buffer

(* The channel is closed: what was hashed is all there is.                  *)
HashEnds ==
  /\ Verifying
  /\ kind = "file"
  /\ Closed("data")
  /\ pc' = "join"
  /\ UNCHANGED <<channel, buffer, digest, verdict>>

(* The table of addresses has an entry only for a disc with data: of any    *)
(* other the first entry is read all the same, and the thread panics.       *)
HasAddresses == Wanted("data") > 0

NoAddresses ==
  /\ Verifying
  /\ kind = "disc"
  /\ ~HasAddresses
  /\ Return("panic")
  /\ UNCHANGED <<channel, buffer, digest>>

Sector == Len(digest) + 1
Rebuilding(l) ==
  /\ Verifying
  /\ kind = "disc" /\ HasAddresses
  /\ Sector <= Len(plan) /\ plan[Sector] = l

ReceiveFor(l) ==
  /\ Rebuilding(l)
  /\ buffer[l] = << >>
  /\ Waiting(l)
  /\ Received(l)
  /\ LET result == Head(channel[l])
     IN \/ /\ result.as = "ok"
           /\ buffer' = [buffer EXCEPT ![l] = @ \o result.units]
           /\ UNCHANGED <<pc, verdict>>
        \/ /\ result.as # "ok"
           /\ Return(result.as)
           /\ UNCHANGED buffer
  /\ UNCHANGED digest

FetcherFailed(l) ==
  /\ Rebuilding(l)
  /\ buffer[l] = << >>
  /\ Closed(l)
  /\ Return("InternalError")
  /\ UNCHANGED <<channel, buffer, digest>>

RebuildSector(l) ==
  /\ Rebuilding(l)
  /\ buffer[l] # << >>
  /\ buffer' = [buffer EXCEPT ![l] = Tail(@)]
  /\ digest' = Append(digest, Head(buffer[l]))
  /\ UNCHANGED <<channel, pc, verdict>>

(* A sector without its subheader, exception data or a type that can be     *)
(* rebuilt.                                                                 *)
RebuildFails ==
  /\ Rebuilding("data")
  /\ buffer["data"] # << >>
  /\ Return("Reconstruction")
  /\ UNCHANGED <<channel, buffer, digest>>

RebuildEnds ==
  /\ Verifying
  /\ kind = "disc" /\ HasAddresses
  /\ Sector > Len(plan)
  /\ pc' = "join"
  /\ UNCHANGED <<channel, buffer, digest, verdict>>

(* Mutant of Compare: only the length is compared.                          *)
CompareLength == Len(digest) = Len(Original)

Compare == digest = Original

Join ==
  /\ pc = "join"
  /\ \A l \in Lane : fetcher[l] = "ended"
  /\ Return(IF Compare THEN "ok" ELSE "HashMismatch")
  /\ UNCHANGED <<kind, plan, fetcher, asked, holds, channel, buffer, digest, answers>>

-----------------------------------------------------------------------------
FetcherStep(l) == Fetch(l) \/ Send(l) \/ HungUp(l) \/ AllSent(l)

VerifierStep ==
  \/ HashBatch \/ HashEnds
  \/ \E l \in Lane : ReceiveFor(l) \/ FetcherFailed(l) \/ RebuildSector(l)
  \/ NoAddresses \/ RebuildFails \/ RebuildEnds
  \/ Join

Done == pc = "returned" /\ (\A l \in Lane : fetcher[l] = "ended") /\ UNCHANGED vars

Next == (\E l \in Lane : FetcherStep(l)) \/ VerifierStep \/ Done

Spec == Init /\ [][Next]_vars

(* The threads are scheduled by the operating system, and the callbacks     *)
(* return.                                                                  *)
FairSpec == Spec /\ WF_vars(VerifierStep) /\ \A l \in Lane : WF_vars(FetcherStep(l))

-----------------------------------------------------------------------------
Units == Lane \X Nat \X {"good", "bad"}
Messages == [as : {"none", "Cancelled", "External"}] \cup [as : {"ok"}, units : Seq(Units)]

TypeOK ==
  /\ kind \in {"file", "disc"}
  /\ plan \in Seq(Lane)
  /\ fetcher \in [Lane -> {"fetch", "send", "ended"}]
  /\ asked \in [Lane -> Nat] /\ \A l \in Lane : asked[l] <= Wanted(l)
  /\ holds \in [Lane -> Messages]
  /\ channel \in [Lane -> Seq(Messages)] /\ \A l \in Lane : Len(channel[l]) <= CHANNEL
  /\ buffer \in [Lane -> Seq(Units)]
  /\ digest \in Seq(Units)
  /\ pc \in {"verify", "join", "returned"}
  /\ verdict \in {"none", "ok", "HashMismatch", "Cancelled", "External", "InternalError",
                  "Reconstruction", "panic"}
  /\ answers \subseteq Answers

Returned == pc = "returned"

(* The verdict is true of the content: Ok exactly when every chunk was      *)
(* asked for and the callbacks answered all of it; no batch is lost,        *)
(* doubled or overtaken between the threads, and a wrong or missing one is  *)
(* never passed.  Only a sector that cannot be rebuilt fails otherwise, and *)
(* a disc without data is not verified at all.                              *)
VerdictIsTrue ==
  Returned =>
    /\ verdict = "ok" => answers \subseteq {"good"} /\ \A l \in Lane : asked[l] = Wanted(l)
    /\ answers \subseteq {"good"} =>
         verdict \in {"ok", "Reconstruction"} \cup IF HasAddresses THEN {} ELSE {"panic"}

(* A cancelled file verification ends in no other error than Cancelled, by  *)
(* which the program tells the user's wish from a failure.  The disc        *)
(* verification does not keep it: its fetchers report an External error.    *)
CancelIsReported ==
  Returned /\ kind = "file" /\ "cancelled" \in answers => verdict = "Cancelled"

(* When a thread waits: a fetcher for room in its channel, the verifier for *)
(* the content of the next chunk or sector, or to join its fetchers.  One   *)
(* that has ended waits for ever.                                           *)
FetcherWaits(l) ==
  \/ fetcher[l] = "send" /\ ~Returned /\ Len(channel[l]) >= CHANNEL
  \/ fetcher[l] = "ended"

NextLane == IF kind = "file" THEN "data" ELSE plan[Sector]
MoreToCome ==
  \/ kind = "file"
  \/ HasAddresses /\ Sector <= Len(plan) /\ buffer[NextLane] = << >>

VerifierWaits ==
  \/ pc = "verify" /\ MoreToCome /\ ~Waiting(NextLane) /\ ~Closed(NextLane)
  \/ pc = "join" /\ \E l \in Lane : fetcher[l] # "ended"
  \/ Returned

(* Until all have ended one of the threads can go on: the verifier may wait *)
(* for one lane while the other's channel is full, and joins the fetchers   *)
(* with their channels still open, but no message is left in them then.     *)
NeverAllWait ==
  VerifierWaits /\ (\A l \in Lane : FetcherWaits(l)) =>
    Returned /\ \A l \in Lane : fetcher[l] = "ended"

(* All of these.                                                            *)
Safe == TypeOK /\ VerdictIsTrue /\ CancelIsReported /\ NeverAllWait

(* When the verification of a file returns, no callback runs any more; a    *)
(* disc's may still be asking for a batch.                                  *)
QuietAfterReturn ==
  Returned /\ kind = "file" => fetcher["data"] = "ended"

(* The verification returns and its fetching threads end: none waits for a  *)
(* channel nobody empties, nor the verifier for a thread that waits for it. *)
ThreadsEnd == <>[](Returned /\ \A l \in Lane : fetcher[l] = "ended")
=============================================================================

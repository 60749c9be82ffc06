------------------------- MODULE VerificationProofs -------------------------
(***************************************************************************)
(* What a verification promises its caller, for files and discs of any      *)
(* length, batches of any size and channels of any capacity: its verdict is *)
(* true of the content, a cancellation stays one, and when the verification *)
(* of a file returns, its fetching thread has ended.                        *)
(*                                                                          *)
(* The content of a lane is spread over the digest, the buffer, the         *)
(* messages in flight and the one about to be sent.  The invariant speaks   *)
(* of the place in the lane where each message begins: how much comes       *)
(* before it.                                                               *)
(***************************************************************************)
EXTENDS Verification, TLAPS, FiniteSetTheorems, SequenceTheorems

(* An error is the last message of its thread.                              *)
ErrorIsLast ==
  \A i \in 1..Len(channel["data"]) :
    channel["data"][i].as # "ok" =>
      fetcher["data"] = "ended" /\ i = Len(channel["data"])

(* From the callback that notices it to the verdict, a cancellation is      *)
(* about to be sent, the last message in flight, or returned.               *)
CancelOnItsWay ==
  "cancelled" \in answers =>
    \/ /\ fetcher["data"] = "send" /\ pc = "verify"
       /\ holds["data"].as = "Cancelled"
    \/ /\ fetcher["data"] = "ended" /\ pc = "verify"
       /\ channel["data"] # << >>
       /\ channel["data"][Len(channel["data"])].as = "Cancelled"
    \/ pc = "returned" /\ verdict = "Cancelled"

FileInv ==
  kind = "file" =>
    /\ pc # "verify" => fetcher["data"] = "ended"
    /\ pc = "join" => "cancelled" \notin answers
    /\ ErrorIsLast
    /\ CancelOnItsWay

-----------------------------------------------------------------------------
(* What of a lane has been hashed.                                          *)
Used(l) == CountOf(l, Len(digest))

Size(message) == IF message.as = "ok" THEN Len(message.units) ELSE 0

(* The place behind the messages in flight.                                 *)
Behind(l) == Len(channel[l]) + 1

(* Something that was asked for did not come.                               *)
Short(l, at) == at[Behind(l)] + Size(holds[l]) < asked[l]

(* A message without content is one that something is missing from.         *)
NoneEmpty(l, at) ==
  \/ Short(l, at)
  \/ /\ \A k \in 1..Len(channel[l]) : Size(channel[l][k]) # 0
     /\ fetcher[l] = "send" => Size(holds[l]) # 0

(* A place for each message in flight and for the one about to be sent: how *)
(* much of the lane comes before it.                                        *)
Flows(l, at) ==
  /\ at \in [1..Behind(l) -> Nat]
  /\ at[1] = Used(l) + Len(buffer[l])
  /\ \A k \in 1..Len(channel[l]) : at[k + 1] = at[k] + Size(channel[l][k])
  /\ \A j, k \in 1..Behind(l) : j <= k => at[j] <= at[k]
  /\ at[Behind(l)] + Size(holds[l]) <= asked[l]
  /\ NoneEmpty(l, at)

GoodFrom(message, l, n) ==
  message.as = "ok" /\ \A i \in 1..Len(message.units) : message.units[i] = Unit(l, n + i, "good")

(* Everything that was asked for is there, as it was chunked.               *)
Good(l, at) ==
  /\ at[Behind(l)] + Size(holds[l]) = asked[l]
  /\ \A i \in 1..Len(buffer[l]) : buffer[l][i] = Unit(l, Used(l) + i, "good")
  /\ \A k \in 1..Len(channel[l]) : GoodFrom(channel[l][k], l, at[k])
  /\ fetcher[l] = "send" => GoodFrom(holds[l], l, at[Behind(l)])

(* Both lanes, with their places.                                           *)
Lanes(places) ==
  /\ \A l \in Lane : Flows(l, places[l])
  /\ answers \subseteq {"good", "bad"} \/ \E l \in Lane : Short(l, places[l])
  /\ answers \subseteq {"good"} => \A l \in Lane : Good(l, places[l])

HasBad(units) == \E i \in 1..Len(units) : units[i][3] = "bad"
BadIn(message) == message.as = "ok" /\ HasBad(message.units)

(* A wrong chunk is not lost on its way.                                    *)
BadInLane(l) ==
  \/ HasBad(buffer[l])
  \/ \E k \in 1..Len(channel[l]) : BadIn(channel[l][k])
  \/ BadIn(holds[l])
BadSomewhere == HasBad(digest) \/ \E l \in Lane : BadInLane(l)

FlowInv ==
  pc # "returned" =>
    /\ \E places : Lanes(places)
    /\ "bad" \in answers => BadSomewhere
    /\ answers \subseteq {"good"} => \A i \in 1..Len(digest) : digest[i] = Original[i]

(* What the places of the threads say.                                      *)
PhaseInv ==
  /\ kind = "file" => /\ \A i \in 1..Len(plan) : plan[i] = "data"
                      /\ fetcher["audio"] = "ended"
                      /\ buffer["data"] = << >>
  /\ \A l \in Lane : fetcher[l] # "send" => holds[l] = Nothing
  /\ Len(digest) <= Len(plan)
  /\ pc # "returned" /\ answers \subseteq {"good"} =>
       \A l \in Lane : fetcher[l] = "ended" => asked[l] = Wanted(l)
  /\ pc = "join" =>
       \/ kind = "file" /\ channel["data"] = << >> /\ fetcher["data"] = "ended"
       \/ kind = "disc" /\ Len(digest) = Len(plan)

VerdictInv ==
  /\ VerdictIsTrue
  /\ pc = "returned" /\ verdict = "ok" => \A l \in Lane : fetcher[l] = "ended"

Inv == TypeOK /\ FileInv /\ FlowInv /\ PhaseInv /\ VerdictInv

-----------------------------------------------------------------------------
(* What a lane's entries in the plan count up to.                           *)
LEMMA EntriesFinite ==
  ASSUME NEW l, NEW n \in Nat
  PROVE  IsFiniteSet({j \in 1..n : plan[j] = l})
<1>1. IsFiniteSet(1..n)
  BY FS_Interval
<1>2. {j \in 1..n : plan[j] = l} \subseteq 1..n
  OBVIOUS
<1> QED
  BY <1>1, <1>2, FS_Subset

LEMMA CountIsNat ==
  ASSUME NEW l, NEW n \in Nat
  PROVE  CountOf(l, n) \in Nat
BY EntriesFinite, FS_CardinalityType DEF CountOf

LEMMA CountNext ==
  ASSUME NEW l, NEW n \in Nat
  PROVE  CountOf(l, n + 1) = IF plan[n + 1] = l THEN CountOf(l, n) + 1 ELSE CountOf(l, n)
<1> DEFINE S == {j \in 1..n : plan[j] = l}
           T == {j \in 1..(n + 1) : plan[j] = l}
<1>1. IsFiniteSet(S)
  BY EntriesFinite
<1>2. CASE plan[n + 1] = l
  <2>1. T = S \cup {n + 1} /\ n + 1 \notin S
    BY <1>2
  <2> QED
    BY <1>1, <1>2, <2>1, FS_AddElement DEF CountOf
<1>3. CASE plan[n + 1] # l
  <2>1. T = S
    BY <1>3
  <2> QED
    BY <1>3, <2>1 DEF CountOf
<1> QED
  BY <1>2, <1>3

LEMMA CountGrows ==
  ASSUME NEW l, NEW m \in Nat, NEW n \in Nat, m <= n
  PROVE  CountOf(l, m) <= CountOf(l, n)
<1>1. IsFiniteSet({j \in 1..n : plan[j] = l})
  BY EntriesFinite
<1>2. {j \in 1..m : plan[j] = l} \subseteq {j \in 1..n : plan[j] = l}
  OBVIOUS
<1> QED
  BY <1>1, <1>2, FS_Subset DEF CountOf

(* The plan of a file has nothing but data.                                 *)
LEMMA CountInFile ==
  ASSUME NEW n \in Nat, \A i \in 1..n : plan[i] = "data"
  PROVE  CountOf("data", n) = n /\ CountOf("audio", n) = 0
<1>1. {j \in 1..n : plan[j] = "data"} = 1..n /\ {j \in 1..n : plan[j] = "audio"} = {}
  OBVIOUS
<1>2. Cardinality(1..n) = n
  BY FS_Interval
<1>3. Cardinality({}) = 0
  BY FS_EmptySet
<1> QED
  BY <1>1, <1>2, <1>3 DEF CountOf

LEMMA CountsKept ==
  ASSUME plan' = plan
  PROVE  /\ \A l, n : CountOf(l, n)' = CountOf(l, n)
         /\ \A l : Wanted(l)' = Wanted(l)
         /\ Original' = Original
BY DEF CountOf, Wanted, Original

-----------------------------------------------------------------------------
(* The types.                                                               *)
LEMMA PlanType ==
  ASSUME Init
  PROVE  plan \in Seq(Lane) /\ kind \in {"file", "disc"}
<1>1. ASSUME NEW n \in FileSizes PROVE [i \in 1..n |-> "data"] \in Seq(Lane)
  <2>1. n \in Nat
    BY VerificationAssumption
  <2> QED
    BY <2>1 DEF Lane
<1> QED
  BY <1>1, VerificationAssumption DEF Init

LEMMA TypeInit == Init => TypeOK
<1> SUFFICES ASSUME Init PROVE TypeOK
  OBVIOUS
<1>1. plan \in Seq(Lane) /\ kind \in {"file", "disc"}
  BY PlanType
<1>2. \A l \in Lane : Wanted(l) \in Nat
  BY <1>1, CountIsNat DEF Wanted
<1>3. Nothing \in Messages
  BY DEF Nothing, Messages
<1> QED
  BY <1>1, <1>2, <1>3, VerificationAssumption DEF Init, TypeOK, Answers

LEMMA BatchType ==
  ASSUME TypeOK, NEW l \in Lane, asked[l] < Wanted(l)
  PROVE  /\ BatchLength(l) \in Nat \ {0}
         /\ asked[l] + BatchLength(l) <= Wanted(l)
         /\ Batch(l) \in Seq(Units)
         /\ Len(Batch(l)) = BatchLength(l)
<1>1. asked[l] \in Nat /\ Wanted(l) \in Nat
  BY CountIsNat DEF TypeOK, Wanted
<1>2. BatchLength(l) \in Nat \ {0} /\ asked[l] + BatchLength(l) <= Wanted(l)
  BY <1>1, VerificationAssumption DEF BatchLength
<1>3. \A i \in 1..BatchLength(l) : Unit(l, asked[l] + i, "good") \in Units
  BY <1>1, <1>2 DEF Unit, Units
<1> QED
  BY <1>2, <1>3 DEF Batch

(* What a callback's answer becomes, by cases.                              *)
LEMMA AnswerIs ==
  ASSUME TypeOK, NEW l \in Lane, asked[l] < Wanted(l), NEW as \in Answers
  PROVE  /\ Answered(l, as) \in Messages
         /\ Size(Answered(l, as)) \in Nat
         /\ Size(Answered(l, as)) <= BatchLength(l)
         /\ as \in {"good", "bad"} => Size(Answered(l, as)) = BatchLength(l)
         /\ as \notin {"good", "bad"} => Size(Answered(l, as)) < BatchLength(l)
         /\ as = "good" => GoodFrom(Answered(l, as), l, asked[l])
         /\ as = "bad" => BadIn(Answered(l, as))
<1> DEFINE b == Batch(l)
           n == BatchLength(l)
<1>1. n \in Nat \ {0} /\ b \in Seq(Units) /\ Len(b) = n
  BY BatchType
<1>2. CASE as = "good"
  BY <1>1, <1>2 DEF Answered, Data, Messages, Size, GoodFrom, Batch
<1>3. CASE as = "bad"
  <2> DEFINE u == Unit(l, asked[l] + 1, "bad")
             c == [b EXCEPT ![1] = u]
  <2>1. u \in Units
    BY DEF Unit, Units, TypeOK
  <2>2. c \in Seq(Units) /\ Len(c) = n /\ c[1] = u
    BY <1>1, <2>1
  <2>3. u[3] = "bad"
    BY DEF Unit
  <2>4. Answered(l, as) = [as |-> "ok", units |-> c]
    BY <1>3 DEF Answered, Data
  <2> HIDE DEF c, u
  <2> QED
    BY <1>1, <1>3, <2>2, <2>3, <2>4 DEF Messages, Size, BadIn, HasBad
<1>4. CASE as = "short"
  <2>1. Front(b) \in Seq(Units) /\ Len(Front(b)) = n - 1
    BY <1>1 DEF Front
  <2> QED
    BY <1>1, <1>4, <2>1 DEF Answered, Data, Messages, Size
<1>5. CASE as = "cancelled" \/ as = "error"
  <2> DEFINE err == IF as = "cancelled" /\ kind = "file" THEN "Cancelled" ELSE "External"
  <2>1. Answered(l, as) = [as |-> err]
    BY <1>5 DEF Answered, Failed
  <2>2. Answered(l, as) \in Messages /\ Size(Answered(l, as)) = 0
    BY <2>1 DEF Messages, Size
  <2>3. Size(Answered(l, as)) < BatchLength(l) /\ 0 <= BatchLength(l)
    BY <1>1, <2>2
  <2>4. as # "good"
    BY <1>5
  <2>5. as # "bad"
    BY <1>5
  <2>6. Size(Answered(l, as)) \in Nat
    BY <2>2
  <2>7. Size(Answered(l, as)) <= BatchLength(l)
    BY <2>2, <2>3
  <2> QED
    BY <2>2, <2>3, <2>4, <2>5, <2>6, <2>7
<1> QED
  BY <1>2, <1>3, <1>4, <1>5 DEF Answers

(* A message that is taken from a channel.                                  *)
LEMMA Taken ==
  ASSUME TypeOK, NEW l \in Lane, Waiting(l)
  PROVE  /\ channel[l] \in Seq(Messages) /\ Len(channel[l]) \in Nat \ {0}
         /\ Head(channel[l]) = channel[l][1]
         /\ Head(channel[l]) \in Messages
         /\ Tail(channel[l]) \in Seq(Messages)
         /\ Len(Tail(channel[l])) = Len(channel[l]) - 1
         /\ \A k \in 1..Len(Tail(channel[l])) : Tail(channel[l])[k] = channel[l][k + 1]
         /\ Head(channel[l]).as = "ok" => Head(channel[l]).units \in Seq(Units)
         /\ Head(channel[l]).as # "ok" => Head(channel[l]).as \in {"none", "Cancelled", "External"}
<1>1. channel[l] \in Seq(Messages) /\ channel[l] # << >>
  BY DEF TypeOK, Waiting
<1>2. Head(channel[l]) \in Messages
  BY <1>1
<1> QED
  BY <1>1, <1>2 DEF Messages

LEMMA TypeFetch ==
  ASSUME TypeOK, NEW l \in Lane, Fetch(l)
  PROVE  TypeOK'
<1>1. PICK as \in Answers : /\ holds' = [holds EXCEPT ![l] = Answered(l, as)]
                            /\ answers' = answers \cup {as}
  BY DEF Fetch
<1>2. asked[l] < Wanted(l)
  BY DEF Fetch
<1>3. Answered(l, as) \in Messages
  BY <1>2, AnswerIs
<1>4. BatchLength(l) \in Nat /\ asked[l] + BatchLength(l) <= Wanted(l)
  BY <1>2, BatchType
<1>5. asked' \in [Lane -> Nat]
  BY <1>4 DEF Fetch, TypeOK
<1>6. ASSUME NEW k \in Lane PROVE asked'[k] <= Wanted(k)
  BY <1>4 DEF Fetch, TypeOK
<1>7. \A k \in Lane : asked'[k] <= Wanted(k)'
  BY <1>6, CountsKept DEF Fetch
<1> QED
  BY <1>1, <1>3, <1>5, <1>7 DEF Fetch, TypeOK

LEMMA TypeSend ==
  ASSUME TypeOK, NEW l \in Lane, Send(l) \/ HungUp(l) \/ AllSent(l)
  PROVE  TypeOK'
<1>1. \A k \in Lane : Wanted(k)' = Wanted(k)
  BY CountsKept DEF Send, HungUp, AllSent
<1>2. Nothing \in Messages
  BY DEF Nothing, Messages
<1>3. CASE Send(l)
  <2>1. channel[l] \in Seq(Messages) /\ holds[l] \in Messages
    BY DEF TypeOK
  <2>2. Append(channel[l], holds[l]) \in Seq(Messages)
        /\ Len(Append(channel[l], holds[l])) = Len(channel[l]) + 1
    BY <2>1
  <2>3. channel' \in [Lane -> Seq(Messages)]
    BY <1>3, <2>2 DEF Send, TypeOK
  <2>4. \A k \in Lane : Len(channel'[k]) <= CHANNEL
    <3>1. Len(channel[l]) + 1 <= CHANNEL
      BY <1>3, <2>1, VerificationAssumption DEF Send
    <3> QED
      BY <1>3, <2>2, <3>1 DEF Send, TypeOK
  <2> QED
    BY <1>1, <1>2, <1>3, <2>3, <2>4 DEF Send, AfterSend, TypeOK
<1>4. CASE HungUp(l) \/ AllSent(l)
  BY <1>1, <1>2, <1>4 DEF HungUp, AllSent, TypeOK
<1> QED
  BY <1>3, <1>4

(* What receiving does to the channels' types.                              *)
LEMMA TypeReceived ==
  ASSUME TypeOK, NEW l \in Lane, Waiting(l), Received(l)
  PROVE  channel' \in [Lane -> Seq(Messages)] /\ \A k \in Lane : Len(channel'[k]) <= CHANNEL
<1>1. Tail(channel[l]) \in Seq(Messages) /\ Len(Tail(channel[l])) = Len(channel[l]) - 1
      /\ Len(channel[l]) \in Nat
  BY Taken
<1>2. Len(Tail(channel[l])) <= CHANNEL
  BY <1>1, VerificationAssumption DEF TypeOK
<1> QED
  BY <1>1, <1>2 DEF Received, TypeOK

LEMMA TypeVerifier ==
  ASSUME TypeOK, VerifierStep
  PROVE  TypeOK'
<1>1. \A k \in Lane : Wanted(k)' = Wanted(k)
  <2>1. plan' = plan
    BY DEF VerifierStep, HashBatch, HashEnds, ReceiveFor, FetcherFailed, RebuildSector,
           NoAddresses, RebuildFails, RebuildEnds, Rebuilding, Join, Verifying
  <2> QED
    BY <2>1, CountsKept
<1>2. CASE HashBatch
  <2>1. "data" \in Lane /\ Waiting("data") /\ Received("data")
    BY <1>2 DEF HashBatch, Lane
  <2>2. channel' \in [Lane -> Seq(Messages)] /\ \A k \in Lane : Len(channel'[k]) <= CHANNEL
    BY <2>1, TypeReceived
  <2> UNCHANGED <<kind, plan, fetcher, asked, holds, answers, buffer>>
    BY <1>2 DEF HashBatch, Verifying
  <2>3. CASE Head(channel["data"]).as = "ok"
    <3>1. Head(channel["data"]).units \in Seq(Units)
      BY <2>1, <2>3, Taken
    <3>2. digest' = digest \o Head(channel["data"]).units /\ pc' = pc /\ verdict' = verdict
      BY <1>2, <2>3 DEF HashBatch
    <3>3. digest \in Seq(Units)
      BY DEF TypeOK
    <3>4. digest' \in Seq(Units)
      BY <3>1, <3>2, <3>3
    <3> QED
      BY <1>1, <2>2, <3>2, <3>4 DEF TypeOK
  <2>4. CASE Head(channel["data"]).as # "ok"
    <3>1. Head(channel["data"]).as \in {"none", "Cancelled", "External"}
      BY <2>1, <2>4, Taken
    <3>2. digest' = digest /\ pc' = "returned" /\ verdict' \in {"none", "Cancelled", "External"}
      BY <1>2, <2>4, <3>1 DEF HashBatch, Return
    <3> QED
      BY <1>1, <2>2, <3>2 DEF TypeOK
  <2> QED
    BY <2>3, <2>4
<1>3. ASSUME NEW l \in Lane, ReceiveFor(l) PROVE TypeOK'
  <2>1. Waiting(l) /\ Received(l)
    BY <1>3 DEF ReceiveFor
  <2>2. channel' \in [Lane -> Seq(Messages)] /\ \A k \in Lane : Len(channel'[k]) <= CHANNEL
    BY <2>1, TypeReceived
  <2>3. CASE Head(channel[l]).as = "ok"
    <3>1. Head(channel[l]).units \in Seq(Units)
      BY <2>1, <2>3, Taken
    <3>2. buffer[l] \o Head(channel[l]).units \in Seq(Units)
      BY <3>1 DEF TypeOK
    <3>3. buffer' \in [Lane -> Seq(Units)] /\ pc' = pc /\ verdict' = verdict
      BY <1>3, <2>3, <3>2 DEF ReceiveFor, TypeOK
    <3> QED
      BY <1>1, <1>3, <2>2, <3>3 DEF ReceiveFor, Rebuilding, Verifying, TypeOK
  <2>4. CASE Head(channel[l]).as # "ok"
    <3>1. Head(channel[l]).as \in {"none", "Cancelled", "External"}
      BY <2>1, <2>4, Taken
    <3>2. buffer' = buffer /\ pc' = "returned" /\ verdict' \in {"none", "Cancelled", "External"}
      BY <1>3, <2>4, <3>1 DEF ReceiveFor, Return
    <3> QED
      BY <1>1, <1>3, <2>2, <3>2 DEF ReceiveFor, Rebuilding, Verifying, TypeOK
  <2> QED
    BY <2>3, <2>4
<1>4. ASSUME NEW l \in Lane, RebuildSector(l) PROVE TypeOK'
  <2>1. buffer[l] \in Seq(Units) /\ buffer[l] # << >> /\ digest \in Seq(Units)
    BY <1>4 DEF RebuildSector, TypeOK
  <2>2. Head(buffer[l]) \in Units /\ Tail(buffer[l]) \in Seq(Units)
    BY <2>1
  <2>3. buffer' \in [Lane -> Seq(Units)] /\ digest' \in Seq(Units)
    BY <1>4, <2>1, <2>2 DEF RebuildSector, TypeOK
  <2> QED
    BY <1>1, <1>4, <2>3 DEF RebuildSector, Rebuilding, Verifying, TypeOK
<1>5. ASSUME NEW l \in Lane, FetcherFailed(l) PROVE TypeOK'
  BY <1>1, <1>5 DEF FetcherFailed, Rebuilding, Verifying, Return, TypeOK
<1>6. CASE HashEnds \/ NoAddresses \/ RebuildFails \/ RebuildEnds \/ Join
  BY <1>1, <1>6 DEF HashEnds, NoAddresses, RebuildFails, RebuildEnds, Join, Rebuilding, Verifying,
                    Return, TypeOK
<1> QED
  BY <1>2, <1>3, <1>4, <1>5, <1>6 DEF VerifierStep

LEMMA TypeStep ==
  ASSUME TypeOK, [Next]_vars
  PROVE  TypeOK'
<1>1. CASE \E l \in Lane : FetcherStep(l)
  BY <1>1, TypeFetch, TypeSend DEF FetcherStep
<1>2. CASE VerifierStep
  BY <1>2, TypeVerifier
<1>3. CASE Done \/ UNCHANGED vars
  <2>1. \A k \in Lane : Wanted(k)' = Wanted(k)
    BY <1>3, CountsKept DEF Done, vars
  <2> QED
    BY <1>3, <2>1 DEF Done, vars, TypeOK
<1> QED
  BY <1>1, <1>2, <1>3 DEF Next

(* Every variable keeps its type; no fetching thread asks for more than     *)
(* there is, and no channel holds more than its capacity.                   *)
THEOREM TypeCorrect == Spec => []TypeOK
BY TypeInit, TypeStep, PTL DEF Spec

-----------------------------------------------------------------------------
(* The file's invariant.                                                    *)
LEMMA FileInit == Init => FileInv
BY DEF Init, FileInv, ErrorIsLast, CancelOnItsWay, Lane

LEMMA FileFetch ==
  ASSUME TypeOK, PhaseInv, FileInv, NEW l \in Lane, Fetch(l)
  PROVE  FileInv'
<1> SUFFICES ASSUME kind = "file" PROVE FileInv'
  BY DEF FileInv, Fetch
<1>1. PICK as \in Answers : /\ holds' = [holds EXCEPT ![l] = Answered(l, as)]
                            /\ answers' = answers \cup {as}
  BY DEF Fetch
<1>2. l = "data" /\ fetcher["data"] = "fetch"
  BY DEF PhaseInv, Fetch, Lane
<1>3. ASSUME as = "cancelled" PROVE holds'["data"].as = "Cancelled"
  BY <1>1, <1>2, <1>3 DEF Answered, Failed, TypeOK
<1> QED
  BY <1>1, <1>2, <1>3 DEF FileInv, ErrorIsLast, CancelOnItsWay, Fetch, TypeOK, Lane, Answers

LEMMA FileSend ==
  ASSUME TypeOK, PhaseInv, FileInv, NEW l \in Lane, Send(l)
  PROVE  FileInv'
<1> SUFFICES ASSUME kind = "file" PROVE FileInv'
  BY DEF FileInv, Send
<1>1. l = "data" /\ pc = "verify"
  BY DEF PhaseInv, FileInv, Send, TypeOK, Lane
<1>2. /\ channel["data"] \in Seq(Messages) /\ holds["data"] \in Messages
      /\ channel'["data"] = Append(channel["data"], holds["data"])
      /\ fetcher'["data"] = IF holds["data"].as = "ok" THEN "fetch" ELSE "ended"
      /\ fetcher["data"] = "send"
  BY <1>1 DEF TypeOK, Send, AfterSend, Lane
<1>3. /\ Len(channel["data"]) \in Nat
      /\ Len(channel'["data"]) = Len(channel["data"]) + 1
      /\ channel'["data"][Len(channel["data"]) + 1] = holds["data"]
      /\ \A i \in 1..Len(channel["data"]) : channel'["data"][i] = channel["data"][i]
      /\ channel'["data"] # << >>
  BY <1>2
<1>4. \A i \in 1..Len(channel["data"]) : channel["data"][i].as = "ok"
  BY <1>2 DEF FileInv, ErrorIsLast
<1>5. ErrorIsLast'
  BY <1>2, <1>3, <1>4 DEF ErrorIsLast
<1>6. CancelOnItsWay'
  BY <1>1, <1>2, <1>3 DEF FileInv, CancelOnItsWay, Send
<1> QED
  BY <1>1, <1>5, <1>6 DEF FileInv, Send

LEMMA FileEnd ==
  ASSUME TypeOK, PhaseInv, FileInv, NEW l \in Lane, HungUp(l) \/ AllSent(l)
  PROVE  FileInv'
BY DEF TypeOK, PhaseInv, FileInv, ErrorIsLast, CancelOnItsWay, HungUp, AllSent, Lane

LEMMA FileHashBatch ==
  ASSUME TypeOK, FileInv, HashBatch
  PROVE  FileInv'
<1>1. Waiting("data") /\ kind = "file" /\ pc = "verify" /\ "data" \in Lane
  BY DEF HashBatch, Verifying, Lane
<1>2. channel'["data"] = Tail(channel["data"])
  BY <1>1 DEF HashBatch, Received, TypeOK
<1>3. /\ Len(channel["data"]) \in Nat \ {0}
      /\ Len(channel'["data"]) = Len(channel["data"]) - 1
      /\ \A i \in 1..Len(channel'["data"]) : channel'["data"][i] = channel["data"][i + 1]
      /\ Head(channel["data"]) = channel["data"][1]
  BY <1>1, <1>2, Taken
<1> UNCHANGED <<kind, fetcher, holds, answers>>
  BY DEF HashBatch, Verifying
<1>4. ErrorIsLast'
  BY <1>1, <1>3 DEF FileInv, ErrorIsLast
<1>5. CASE Head(channel["data"]).as = "ok"
  <2>1. pc' = "verify"
    BY <1>1, <1>5 DEF HashBatch
  <2>2. CancelOnItsWay'
    <3> SUFFICES ASSUME "cancelled" \in answers PROVE CancelOnItsWay'
      BY DEF CancelOnItsWay
    <3>1. CASE fetcher["data"] = "send" /\ holds["data"].as = "Cancelled"
      BY <2>1, <3>1 DEF CancelOnItsWay
    <3>2. CASE /\ fetcher["data"] = "ended"
               /\ channel["data"][Len(channel["data"])].as = "Cancelled"
      <4>1. Len(channel["data"]) > 1
        BY <1>3, <1>5, <3>2
      <4>2. channel'["data"] # << >>
        BY <1>3, <4>1
      <4>3. channel'["data"][Len(channel'["data"])] = channel["data"][Len(channel["data"])]
        BY <1>3, <4>1
      <4> QED
        BY <2>1, <3>2, <4>2, <4>3 DEF CancelOnItsWay
    <3> QED
      BY <1>1, <3>1, <3>2 DEF FileInv, CancelOnItsWay
  <2> QED
    BY <1>4, <2>1, <2>2 DEF FileInv
<1>6. CASE Head(channel["data"]).as # "ok"
  <2>1. pc' = "returned" /\ verdict' = Head(channel["data"]).as
    BY <1>6 DEF HashBatch, Return
  <2>2. fetcher["data"] = "ended" /\ Len(channel["data"]) = 1
    <3>1. 1 \in 1..Len(channel["data"]) /\ channel["data"][1].as # "ok"
      BY <1>3, <1>6
    <3> QED
      BY <1>1, <3>1 DEF FileInv, ErrorIsLast
  <2>3. CancelOnItsWay'
    BY <1>1, <1>3, <2>1, <2>2 DEF FileInv, CancelOnItsWay
  <2> QED
    BY <1>4, <2>1, <2>2, <2>3 DEF FileInv
<1> QED
  BY <1>5, <1>6

LEMMA FileVerifier ==
  ASSUME TypeOK, PhaseInv, FileInv, VerifierStep
  PROVE  FileInv'
<1>1. CASE HashBatch
  BY <1>1, FileHashBatch
<1>2. CASE HashEnds
  <2>1. kind = "file" => "cancelled" \notin answers
    BY <1>2 DEF FileInv, CancelOnItsWay, HashEnds, Verifying, Closed
  <2> QED
    BY <1>2, <2>1 DEF FileInv, ErrorIsLast, CancelOnItsWay, HashEnds, Verifying, Closed
<1>3. CASE Join
  BY <1>3 DEF TypeOK, PhaseInv, FileInv, ErrorIsLast, CancelOnItsWay, Join, Return, Lane
<1>4. CASE \/ NoAddresses \/ RebuildFails \/ RebuildEnds
           \/ \E l \in Lane : ReceiveFor(l) \/ FetcherFailed(l) \/ RebuildSector(l)
  <2>1. kind = "disc" /\ kind' = kind
    BY <1>4 DEF NoAddresses, RebuildFails, RebuildEnds, ReceiveFor, FetcherFailed, RebuildSector,
                Rebuilding, Verifying
  <2> QED
    BY <2>1 DEF FileInv
<1> QED
  BY <1>1, <1>2, <1>3, <1>4 DEF VerifierStep

LEMMA FileStep ==
  ASSUME TypeOK, PhaseInv, FileInv, [Next]_vars
  PROVE  FileInv'
<1>1. CASE \E l \in Lane : FetcherStep(l)
  BY <1>1, FileFetch, FileSend, FileEnd DEF FetcherStep
<1>2. CASE VerifierStep
  BY <1>2, FileVerifier
<1>3. CASE Done \/ UNCHANGED vars
  BY <1>3 DEF Done, vars, FileInv, ErrorIsLast, CancelOnItsWay
<1> QED
  BY <1>1, <1>2, <1>3 DEF Next

-----------------------------------------------------------------------------
(* The flow.                                                                *)
LEMMA SizeIsNat ==
  ASSUME NEW m \in Messages
  PROVE  /\ Size(m) \in Nat
         /\ m.as = "ok" => m.units \in Seq(Units) /\ Size(m) = Len(m.units)
         /\ m.as # "ok" => Size(m) = 0
BY DEF Messages, Size

LEMMA BehindIsNat ==
  ASSUME TypeOK, NEW l \in Lane, NEW at, Flows(l, at)
  PROVE  Behind(l) \in Nat \ {0} /\ Behind(l) \in 1..Behind(l) /\ at[Behind(l)] \in Nat
<1>1. Len(channel[l]) \in Nat
  BY DEF TypeOK
<1>2. Behind(l) \in Nat \ {0} /\ Behind(l) \in 1..Behind(l)
  BY <1>1 DEF Behind
<1> QED
  BY <1>2 DEF Flows

(* A step that changes one lane, and answers no callback.                   *)
LEMMA OneLane ==
  ASSUME NEW places, Lanes(places), NEW l \in Lane, NEW at,
         answers' = answers,
         Flows(l, at)',
         Short(l, places[l]) => Short(l, at)',
         answers \subseteq {"good"} => Good(l, at)',
         \A k \in Lane \ {l} :
           /\ channel'[k] = channel[k] /\ buffer'[k] = buffer[k] /\ holds'[k] = holds[k]
           /\ asked'[k] = asked[k] /\ fetcher'[k] = fetcher[k] /\ Used(k)' = Used(k)
  PROVE  \E others : Lanes(others)'
<1> DEFINE others == [k \in Lane |-> IF k = l THEN at ELSE places[k]]
<1>1. others[l] = at /\ \A k \in Lane \ {l} : others[k] = places[k]
  OBVIOUS
<1> HIDE DEF others
<1>2. ASSUME NEW k \in Lane \ {l}
      PROVE  /\ Flows(k, places[k])'
             /\ Short(k, places[k]) => Short(k, places[k])'
             /\ Good(k, places[k]) => Good(k, places[k])'
  <2>1. Behind(k)' = Behind(k) /\ Flows(k, places[k])
    BY <1>2 DEF Behind, Lanes
  <2>2. /\ channel'[k] = channel[k] /\ buffer'[k] = buffer[k] /\ holds'[k] = holds[k]
        /\ asked'[k] = asked[k] /\ fetcher'[k] = fetcher[k] /\ Used(k)' = Used(k)
    BY <1>2
  <2>3. Flows(k, places[k])'
    BY <2>1, <2>2 DEF Flows, Size, NoneEmpty, Short
  <2>4. Short(k, places[k]) => Short(k, places[k])'
    BY <2>1, <2>2 DEF Short, Size
  <2>5. Good(k, places[k]) => Good(k, places[k])'
    BY <2>1, <2>2 DEF Good, Size, GoodFrom, Unit
  <2> QED
    BY <2>3, <2>4, <2>5
<1>3. \A k \in Lane : Flows(k, others[k])'
  BY <1>1, <1>2
<1>4. (\E k \in Lane : Short(k, places[k])) => \E k \in Lane : Short(k, others[k])'
  BY <1>1, <1>2
<1>5. answers \subseteq {"good"} => \A k \in Lane : Good(k, others[k])'
  BY <1>1, <1>2 DEF Lanes
<1>6. Lanes(others)'
  BY <1>3, <1>4, <1>5 DEF Lanes
<1> QED
  BY <1>6

(* A message is taken from its channel: the places move up.                 *)
LEMMA MoveUp ==
  ASSUME TypeOK, NEW l \in Lane, Waiting(l), Received(l), NEW at, Flows(l, at),
         holds'[l] = holds[l], asked'[l] = asked[l], fetcher'[l] = fetcher[l],
         Used(l)' + Len(buffer'[l]) = Used(l) + Len(buffer[l]) + Size(Head(channel[l]))
  PROVE  \E up :
           /\ Flows(l, up)'
           /\ Short(l, at) => Short(l, up)'
           /\ Good(l, at)
                /\ (\A i \in 1..Len(buffer'[l]) : buffer'[l][i] = Unit(l, Used(l)' + i, "good"))
              => Good(l, up)'
<1> DEFINE n == Len(channel[l])
<1>0. PICK up : up = [k \in 1..n |-> at[k + 1]]
  OBVIOUS
<1>1. /\ n \in Nat \ {0} /\ channel'[l] = Tail(channel[l]) /\ Len(channel'[l]) = n - 1
      /\ \A k \in 1..(n - 1) : channel'[l][k] = channel[l][k + 1]
      /\ Head(channel[l]) = channel[l][1]
  BY Taken DEF Received, TypeOK
<1>2. Behind(l) = n + 1 /\ Behind(l)' = n
  BY <1>1 DEF Behind
<1>3. /\ \A k \in 1..n : at[k + 1] = at[k] + Size(channel[l][k])
      /\ at \in [1..(n + 1) -> Nat]
      /\ at[1] = Used(l) + Len(buffer[l])
      /\ \A j, k \in 1..(n + 1) : j <= k => at[j] <= at[k]
      /\ at[n + 1] + Size(holds[l]) <= asked[l]
  BY <1>2 DEF Flows
<1>4. /\ up \in [1..n -> Nat]
      /\ \A k \in 1..n : up[k] = at[k + 1]
  BY <1>0, <1>1, <1>3
<1>5. up[1] = Used(l)' + Len(buffer'[l])
  BY <1>1, <1>3, <1>4
<1>6. \A k \in 1..(n - 1) : up[k + 1] = up[k] + Size(channel'[l][k])
  BY <1>1, <1>3, <1>4
<1>7. ASSUME NEW j \in 1..n, NEW k \in 1..n, j <= k PROVE up[j] <= up[k]
  <2>1. j + 1 \in 1..(n + 1) /\ k + 1 \in 1..(n + 1) /\ j + 1 <= k + 1
    BY <1>1, <1>7
  <2>2. at[j + 1] <= at[k + 1]
    BY <1>3, <2>1
  <2> QED
    BY <1>4, <2>2
<1>8. up[n] = at[n + 1]
  BY <1>1, <1>4
<1>9. Short(l, at) => Short(l, up)'
  BY <1>2, <1>8 DEF Short, Size
<1>10. NoneEmpty(l, up)'
  <2>1. NoneEmpty(l, at)
    BY DEF Flows
  <2>2. (\A k \in 1..n : Size(channel[l][k]) # 0)
          => \A k \in 1..(n - 1) : Size(channel'[l][k]) # 0
    <3>1. \A k \in 1..(n - 1) : k + 1 \in 1..n
      BY <1>1
    <3>2. \A k \in 1..(n - 1) : Size(channel'[l][k]) = Size(channel[l][k + 1])
      BY <1>1
    <3> HIDE DEF n
    <3> QED
      BY <3>1, <3>2
  <2>3. Size(holds[l])' = Size(holds[l])
    BY DEF Size
  <2>4. CASE Short(l, at)
    BY <1>9, <2>4 DEF NoneEmpty
  <2>5. CASE ~Short(l, at)
    <3>1. /\ \A k \in 1..(n - 1) : Size(channel'[l][k]) # 0
          /\ fetcher[l] = "send" => Size(holds[l]) # 0
      BY <2>1, <2>2, <2>5 DEF NoneEmpty
    <3> QED
      BY <1>1, <2>3, <3>1 DEF NoneEmpty, Size
  <2> QED
    BY <2>4, <2>5
<1>11. Flows(l, up)'
  BY <1>1, <1>2, <1>3, <1>4, <1>5, <1>6, <1>7, <1>8, <1>10 DEF Flows, Size
<1>12. ASSUME Good(l, at),
              \A i \in 1..Len(buffer'[l]) : buffer'[l][i] = Unit(l, Used(l)' + i, "good")
       PROVE  Good(l, up)'
  <2>1. up[n] + Size(holds[l]) = asked[l]
    BY <1>2, <1>8, <1>12 DEF Good
  <2>2. \A k \in 1..(n - 1) : GoodFrom(channel'[l][k], l, up[k])
    BY <1>1, <1>4, <1>12 DEF Good
  <2>3. fetcher[l] = "send" => GoodFrom(holds[l], l, up[n])
    BY <1>2, <1>8, <1>12 DEF Good
  <2> QED
    BY <1>1, <1>2, <1>12, <2>1, <2>2, <2>3 DEF Good, GoodFrom, Size, Unit
<1> QED
  BY <1>11, <1>9, <1>12

LEMMA FlowInit ==
  ASSUME Init
  PROVE  FlowInv /\ PhaseInv /\ VerdictInv
<1>1. plan \in Seq(Lane)
  BY PlanType
<1>2. \A l \in Lane : Used(l) = 0
  <2>1. \A l : {j \in 1..0 : plan[j] = l} = {}
    OBVIOUS
  <2> QED
    BY <2>1, FS_EmptySet DEF Init, Used, CountOf
<1> DEFINE places == [l \in Lane |-> [k \in {1} |-> 0]]
<1>3. ASSUME NEW l \in Lane PROVE Flows(l, places[l]) /\ Good(l, places[l])
  BY <1>2 DEF Init, Flows, Good, Behind, Size, Nothing, NoneEmpty
<1>4. Lanes(places)
  BY <1>3 DEF Lanes, Init
<1>5. FlowInv
  BY <1>4 DEF FlowInv, Init
<1>6. kind = "file" => Wanted("audio") = 0 /\ \A i \in 1..Len(plan) : plan[i] = "data"
  <2> SUFFICES ASSUME kind = "file"
               PROVE  Wanted("audio") = 0 /\ \A i \in 1..Len(plan) : plan[i] = "data"
    OBVIOUS
  <2>1. PICK n \in FileSizes : plan = [i \in 1..n |-> "data"]
    BY DEF Init
  <2>2. n \in Nat
    BY VerificationAssumption
  <2>3. Len(plan) = n /\ \A i \in 1..n : plan[i] = "data"
    BY <2>1, <2>2
  <2> QED
    BY <2>2, <2>3, CountInFile DEF Wanted
<1>7. \A l \in Lane : fetcher[l] = "ended" => asked[l] = Wanted(l)
  BY <1>6 DEF Init, Lane
<1>8. PhaseInv
  BY <1>1, <1>6, <1>7 DEF Init, PhaseInv, Lane
<1>9. VerdictInv
  BY DEF Init, VerdictInv, VerdictIsTrue, Returned
<1> QED
  BY <1>5, <1>8, <1>9

LEMMA FlowFetch ==
  ASSUME TypeOK, PhaseInv, FlowInv, VerdictInv, NEW l \in Lane, Fetch(l)
  PROVE  FlowInv' /\ PhaseInv' /\ VerdictInv'
<1>1. PICK as \in Answers : /\ holds' = [holds EXCEPT ![l] = Answered(l, as)]
                            /\ answers' = answers \cup {as}
  BY DEF Fetch
<1>2. asked[l] < Wanted(l) /\ fetcher[l] = "fetch" /\ holds[l] = Nothing
  BY DEF Fetch, PhaseInv
<1> DEFINE m == Answered(l, as)
           n == BatchLength(l)
<1>3. n \in Nat \ {0} /\ asked[l] \in Nat /\ asked' = [asked EXCEPT ![l] = @ + n]
  BY <1>2, BatchType DEF Fetch, TypeOK
<1>4. /\ m \in Messages /\ Size(m) \in Nat /\ Size(m) <= n
      /\ as \in {"good", "bad"} => Size(m) = n
      /\ as \notin {"good", "bad"} => Size(m) < n
      /\ as = "good" => GoodFrom(m, l, asked[l])
      /\ as = "bad" => BadIn(m)
  BY <1>2, AnswerIs
<1>5. /\ holds'[l] = m /\ asked'[l] = asked[l] + n /\ fetcher'[l] = "send"
      /\ \A k \in Lane \ {l} : /\ holds'[k] = holds[k] /\ asked'[k] = asked[k]
                               /\ fetcher'[k] = fetcher[k]
      /\ UNCHANGED <<kind, plan, channel, buffer, digest, pc, verdict>>
  BY <1>1, <1>3 DEF Fetch, TypeOK
<1>6. Size(holds[l]) = 0
  BY <1>2 DEF Size, Nothing
<1>7. /\ \A k \in Lane : Used(k)' = Used(k) /\ Behind(k)' = Behind(k)
      /\ \A k \in Lane : Wanted(k)' = Wanted(k)
      /\ Original' = Original
  BY <1>5, CountsKept DEF Used, Behind
<1> HIDE DEF m, n
<1>8. ASSUME pc # "returned" PROVE FlowInv'
  <2>1. PICK places : Lanes(places)
    BY <1>8 DEF FlowInv
  <2>2. \A k \in Lane : /\ Flows(k, places[k]) /\ Behind(k) \in 1..Behind(k)
                       /\ places[k][Behind(k)] \in Nat
    BY <2>1, BehindIsNat DEF Lanes
  <2>3. ASSUME NEW k \in Lane, Short(k, places[k]) PROVE Short(k, places[k])'
    <3>1. CASE k = l
      <4>1. places[l][Behind(l)] + 0 < asked[l]
        BY <1>6, <2>3, <3>1 DEF Short
      <4>2. places[l][Behind(l)] + Size(m) < asked[l] + n
        BY <1>3, <1>4, <2>2, <4>1
      <4> QED
        BY <1>5, <1>7, <3>1, <4>2 DEF Short, Size
    <3>2. CASE k # l
      BY <1>5, <1>7, <2>3, <3>2 DEF Short, Size
    <3> QED
      BY <3>1, <3>2
  <2>4. as \notin {"good", "bad"} => Short(l, places[l])'
    <3>1. ASSUME as \notin {"good", "bad"}
          PROVE  places[l][Behind(l)] + Size(m) < asked[l] + n
      BY <1>3, <1>4, <1>6, <2>2, <3>1 DEF Flows
    <3> QED
      BY <1>5, <1>7, <3>1 DEF Short, Size
  <2>5. ASSUME NEW k \in Lane PROVE Flows(k, places[k])'
    <3>1. places[k][Behind(k)] + Size(holds'[k]) <= asked'[k]
      <4>1. CASE k = l
        BY <1>3, <1>4, <1>5, <1>6, <2>2, <4>1 DEF Flows
      <4>2. CASE k # l
        BY <1>5, <2>2, <4>2 DEF Flows
      <4> QED
        BY <4>1, <4>2
    <3>2. NoneEmpty(k, places[k])'
      <4>1. NoneEmpty(k, places[k])
        BY <2>2 DEF Flows
      <4>2. CASE k # l
        BY <1>5, <1>7, <4>1, <4>2 DEF NoneEmpty, Short, Size
      <4>3. CASE k = l /\ Short(l, places[l])
        BY <2>3, <4>3 DEF NoneEmpty
      <4>4. CASE k = l /\ ~Short(l, places[l])
        <5>1. \A i \in 1..Len(channel[l]) : Size(channel[l][i]) # 0
          BY <4>1, <4>4 DEF NoneEmpty
        <5>2. CASE as \in {"good", "bad"}
          <6>1. Size(m) # 0
            BY <1>3, <1>4, <5>2
          <6> QED
            BY <1>5, <4>4, <5>1, <6>1 DEF NoneEmpty, Size
        <5>3. CASE as \notin {"good", "bad"}
          BY <2>4, <4>4, <5>3 DEF NoneEmpty
        <5> QED
          BY <5>2, <5>3
      <4> QED
        BY <4>2, <4>3, <4>4
    <3> QED
      BY <1>5, <1>7, <2>2, <3>1, <3>2 DEF Flows, Size
  <2>6. answers' \subseteq {"good"} => answers \subseteq {"good"} /\ as = "good"
    BY <1>1
  <2>7. ASSUME answers' \subseteq {"good"}, NEW k \in Lane PROVE Good(k, places[k])'
    <3>1. Good(k, places[k])
      BY <2>1, <2>6, <2>7 DEF Lanes
    <3>2. CASE k # l
      BY <1>5, <1>7, <3>1, <3>2 DEF Good, Size, GoodFrom, Unit
    <3>3. CASE k = l
      <4>1. places[l][Behind(l)] = asked[l]
        BY <1>6, <2>2, <3>1, <3>3 DEF Good, TypeOK
      <4>2. Size(m) = n /\ GoodFrom(m, l, asked[l])
        BY <1>4, <2>6, <2>7
      <4> QED
        BY <1>5, <1>7, <3>1, <3>3, <4>1, <4>2 DEF Good, Size, GoodFrom, Unit
    <3> QED
      BY <3>2, <3>3
  <2>8. Lanes(places)'
    <3>1. answers' \subseteq {"good", "bad"} \/ \E k \in Lane : Short(k, places[k])'
      <4>1. CASE as \notin {"good", "bad"}
        BY <2>4, <4>1
      <4>2. CASE as \in {"good", "bad"}
        BY <1>1, <2>1, <2>3, <4>2 DEF Lanes
      <4> QED
        BY <4>1, <4>2
    <3> QED
      BY <2>5, <2>7, <3>1 DEF Lanes
  <2>9. "bad" \in answers' => BadSomewhere'
    <3>1. CASE as = "bad"
      <4>1. BadIn(m)
        BY <1>4, <3>1
      <4> QED
        BY <1>5, <4>1 DEF BadSomewhere, BadInLane, BadIn, HasBad
    <3>2. CASE as # "bad"
      <4> SUFFICES ASSUME "bad" \in answers PROVE BadSomewhere'
        BY <1>1, <3>2
      <4>1. ~BadIn(holds[l])
        BY <1>2 DEF BadIn, Nothing
      <4>2. BadSomewhere
        BY <1>8 DEF FlowInv
      <4>3. ASSUME NEW k \in Lane, BadInLane(k) PROVE BadInLane(k)'
        <5>1. k = l => ~BadIn(holds[k])
          BY <4>1
        <5>2. HasBad(buffer[k]) \/ (\E i \in 1..Len(channel[k]) : BadIn(channel[k][i]))
              \/ (k # l /\ BadIn(holds[k]))
          BY <4>3, <5>1 DEF BadInLane
        <5> QED
          BY <1>5, <5>2 DEF BadInLane, BadIn, HasBad
      <4> QED
        BY <1>5, <4>2, <4>3 DEF BadSomewhere, HasBad
    <3> QED
      BY <3>1, <3>2
  <2> QED
    BY <1>5, <1>7, <1>8, <2>6, <2>8, <2>9 DEF FlowInv
<1>9. FlowInv'
  BY <1>5, <1>8 DEF FlowInv
<1>10. PhaseInv'
  <2>1. answers' \subseteq {"good"} => answers \subseteq {"good"}
    BY <1>1
  <2>2. pc = "join" /\ kind = "file" => l # "data"
    BY <1>2 DEF PhaseInv
  <2>3. kind = "file" => l # "audio"
    BY <1>2 DEF PhaseInv
  <2> QED
    BY <1>2, <1>5, <1>7, <2>1, <2>2, <2>3 DEF PhaseInv, Lane
<1>11. VerdictInv'
  <2>1. answers' \subseteq {"good"} => answers \subseteq {"good"}
    BY <1>1
  <2>2. ~(pc = "returned" /\ verdict = "ok")
    BY <1>2 DEF VerdictInv
  <2>3. HasAddresses' = HasAddresses
    BY <1>7 DEF HasAddresses, Lane
  <2> QED
    BY <1>5, <2>1, <2>2, <2>3 DEF VerdictInv, VerdictIsTrue, Returned
<1> QED
  BY <1>9, <1>10, <1>11

LEMMA FlowSend ==
  ASSUME TypeOK, PhaseInv, FlowInv, VerdictInv, NEW l \in Lane, Send(l)
  PROVE  FlowInv' /\ PhaseInv' /\ VerdictInv'
<1> DEFINE m == holds[l]
           n == Len(channel[l])
<1>1. /\ channel[l] \in Seq(Messages) /\ m \in Messages /\ n \in Nat
      /\ channel' = [channel EXCEPT ![l] = Append(@, m)]
      /\ holds' = [holds EXCEPT ![l] = Nothing]
      /\ fetcher' = [fetcher EXCEPT ![l] = AfterSend(l)]
      /\ fetcher[l] = "send" /\ pc # "returned"
      /\ UNCHANGED <<kind, plan, asked, buffer, digest, pc, verdict, answers>>
  BY DEF Send, TypeOK
<1>2. /\ channel'[l] = Append(channel[l], m)
      /\ Len(channel'[l]) = n + 1 /\ channel'[l][n + 1] = m
      /\ \A k \in 1..n : channel'[l][k] = channel[l][k]
      /\ holds'[l] = Nothing /\ fetcher'[l] = AfterSend(l)
      /\ \A k \in Lane \ {l} : /\ channel'[k] = channel[k] /\ holds'[k] = holds[k]
                               /\ fetcher'[k] = fetcher[k]
  BY <1>1 DEF TypeOK
<1>3. Size(m) \in Nat /\ Size(holds[l])' = 0 /\ fetcher'[l] # "send"
  BY <1>1, <1>2, SizeIsNat DEF Size, Nothing, AfterSend
<1>4. /\ \A k \in Lane : Used(k)' = Used(k)
      /\ \A k \in Lane : Wanted(k)' = Wanted(k)
      /\ Original' = Original
      /\ Behind(l) = n + 1 /\ Behind(l)' = n + 2
  BY <1>1, <1>2, CountsKept DEF Used, Behind
<1> HIDE DEF m, n
<1>5. \E places : Lanes(places)'
  <2>1. PICK places : Lanes(places)
    BY <1>1 DEF FlowInv
  <2> DEFINE at == places[l]
  <2>2. PICK more : more = [k \in 1..(n + 2) |-> IF k = n + 2 THEN at[n + 1] + Size(m) ELSE at[k]]
    OBVIOUS
  <2>3. /\ at \in [1..(n + 1) -> Nat]
        /\ at[1] = Used(l) + Len(buffer[l])
        /\ \A k \in 1..n : at[k + 1] = at[k] + Size(channel[l][k])
        /\ \A j, k \in 1..(n + 1) : j <= k => at[j] <= at[k]
        /\ at[n + 1] + Size(m) <= asked[l]
    BY <1>4, <2>1 DEF Lanes, Flows, n, m
  <2> HIDE DEF at
  <2>4. /\ more \in [1..(n + 2) -> Nat]
        /\ \A k \in 1..(n + 1) : more[k] = at[k]
        /\ more[n + 2] = at[n + 1] + Size(m)
    BY <1>1, <1>3, <2>2, <2>3
  <2>5. ASSUME NEW k \in 1..(n + 1) PROVE more[k + 1] = more[k] + Size(channel'[l][k])
    <3>1. CASE k = n + 1
      BY <1>1, <1>2, <2>4, <3>1
    <3>2. CASE k # n + 1
      <4>1. k \in 1..n /\ k + 1 \in 1..(n + 1) /\ k \in 1..(n + 1)
        BY <1>1, <3>2
      <4>2. more[k + 1] = at[k + 1] /\ more[k] = at[k] /\ channel'[l][k] = channel[l][k]
        BY <1>2, <2>4, <4>1
      <4> QED
        BY <2>3, <4>1, <4>2
    <3> QED
      BY <3>1, <3>2
  <2>6. ASSUME NEW j \in 1..(n + 2), NEW k \in 1..(n + 2), j <= k PROVE more[j] <= more[k]
    <3>1. CASE k = n + 2
      <4>1. n + 1 \in 1..(n + 1) /\ at[n + 1] \in Nat /\ at[n + 1] <= at[n + 1] + Size(m)
        BY <1>1, <1>3, <2>3
      <4>2. CASE j = k
        BY <1>3, <2>4, <3>1, <4>1, <4>2
      <4>3. CASE j # k
        <5>1. j \in 1..(n + 1) /\ j <= n + 1
          BY <1>1, <2>6, <3>1, <4>3
        <5>2. at[j] <= at[n + 1] /\ at[j] \in Nat /\ more[j] = at[j]
          BY <2>3, <2>4, <4>1, <5>1
        <5> QED
          BY <1>3, <2>4, <3>1, <4>1, <5>2
      <4> QED
        BY <4>2, <4>3
    <3>2. CASE k # n + 2
      <4>1. j \in 1..(n + 1) /\ k \in 1..(n + 1)
        BY <1>1, <2>6, <3>2
      <4> QED
        BY <2>3, <2>4, <2>6, <4>1
    <3> QED
      BY <3>1, <3>2
  <2>7. Short(l, at) => Short(l, more)'
    BY <1>1, <1>2, <1>3, <1>4, <2>3, <2>4 DEF Short, Size, m
  <2>8. Flows(l, more)'
    <3>1. more[1] = Used(l) + Len(buffer[l])
      BY <1>1, <2>3, <2>4
    <3>2. more[n + 2] + 0 <= asked[l]
      BY <1>1, <1>3, <2>3, <2>4
    <3>3. NoneEmpty(l, more)'
      <4>1. NoneEmpty(l, at)
        BY <2>1 DEF Lanes, Flows, at
      <4>2. CASE Short(l, at)
        BY <2>7, <4>2 DEF NoneEmpty
      <4>3. CASE ~Short(l, at)
        <5>1. (\A k \in 1..n : Size(channel[l][k]) # 0) /\ Size(m) # 0
          BY <1>1, <4>1, <4>3 DEF NoneEmpty, n, m
        <5>2. ASSUME NEW k \in 1..(n + 1) PROVE Size(channel'[l][k]) # 0
          <6>1. CASE k = n + 1
            BY <1>2, <5>1, <6>1
          <6>2. CASE k # n + 1
            BY <1>1, <1>2, <5>1, <6>2
          <6> QED
            BY <6>1, <6>2
        <5> QED
          BY <1>2, <1>3, <5>2 DEF NoneEmpty, Size
      <4> QED
        BY <4>2, <4>3
    <3> QED
      BY <1>1, <1>2, <1>3, <1>4, <2>4, <2>5, <2>6, <3>1, <3>2, <3>3 DEF Flows, Size
  <2>9. answers \subseteq {"good"} => Good(l, more)'
    <3> SUFFICES ASSUME answers \subseteq {"good"} PROVE Good(l, more)'
      OBVIOUS
    <3>1. Good(l, at)
      BY <2>1 DEF Lanes, at
    <3>2. GoodFrom(m, l, at[n + 1]) /\ at[n + 1] + Size(m) = asked[l]
      BY <1>1, <1>4, <3>1 DEF Good, m
    <3>3. ASSUME NEW k \in 1..(n + 1) PROVE GoodFrom(channel'[l][k], l, more[k])
      BY <1>1, <1>2, <1>4, <2>4, <3>1, <3>2 DEF Good, n
    <3>4. more[n + 2] + 0 = asked[l]
      BY <1>1, <1>3, <2>3, <2>4, <3>2
    <3> QED
      BY <1>1, <1>2, <1>3, <1>4, <3>1, <3>3, <3>4 DEF Good, Size, GoodFrom, Unit
  <2>10. /\ Short(l, places[l]) => Short(l, more)'
         /\ answers' = answers
    BY <1>1, <2>7 DEF at
  <2> QED
    BY <1>1, <1>2, <1>4, <2>1, <2>8, <2>9, <2>10, OneLane
<1>6. "bad" \in answers' => BadSomewhere'
  <2> SUFFICES ASSUME "bad" \in answers PROVE BadSomewhere'
    BY <1>1
  <2>1. BadSomewhere
    BY <1>1 DEF FlowInv
  <2>2. ASSUME NEW k \in Lane, BadInLane(k) PROVE BadInLane(k)'
    <3>1. CASE k # l
      BY <1>1, <1>2, <2>2, <3>1 DEF BadInLane, BadIn, HasBad
    <3>2. CASE k = l
      <4>1. CASE BadIn(m)
        <5>1. n + 1 \in 1..Len(channel'[l])
          BY <1>1, <1>2
        <5> QED
          BY <1>2, <3>2, <4>1, <5>1 DEF BadInLane, BadIn, HasBad
      <4>2. CASE ~BadIn(m)
        <5>1. HasBad(buffer[l]) \/ \E i \in 1..n : BadIn(channel[l][i])
          BY <2>2, <3>2, <4>2 DEF BadInLane, m, n
        <5>2. \A i \in 1..n : i \in 1..Len(channel'[l]) /\ channel'[l][i] = channel[l][i]
          BY <1>1, <1>2
        <5> QED
          BY <1>1, <3>2, <5>1, <5>2 DEF BadInLane, BadIn, HasBad
      <4> QED
        BY <4>1, <4>2
    <3> QED
      BY <3>1, <3>2
  <2> QED
    BY <1>1, <2>1, <2>2 DEF BadSomewhere, HasBad
<1>7. FlowInv'
  BY <1>1, <1>4, <1>5, <1>6 DEF FlowInv
<1>8. PhaseInv'
  <2>1. answers \subseteq {"good"} => fetcher'[l] # "ended"
    <3> SUFFICES ASSUME answers \subseteq {"good"} PROVE m.as = "ok"
      BY <1>2 DEF AfterSend, m
    <3>1. PICK places : Lanes(places)
      BY <1>1 DEF FlowInv
    <3> QED
      BY <1>1, <3>1 DEF Lanes, Good, GoodFrom, m
  <2>2. kind = "file" => l = "data" /\ pc # "join"
    BY <1>1 DEF PhaseInv, Lane
  <2>3. kind = "file" => fetcher'["audio"] = "ended"
    BY <1>2, <2>2 DEF PhaseInv, Lane
  <2>4. \A k \in Lane : fetcher'[k] # "send" => holds'[k] = Nothing
    BY <1>2 DEF PhaseInv
  <2>5. answers \subseteq {"good"} => \A k \in Lane : fetcher'[k] = "ended" => asked[k] = Wanted(k)
    BY <1>1, <1>2, <2>1 DEF PhaseInv
  <2> QED
    BY <1>1, <1>4, <2>2, <2>3, <2>4, <2>5 DEF PhaseInv
<1>9. VerdictInv'
  BY <1>1 DEF VerdictInv, VerdictIsTrue, Returned
<1> QED
  BY <1>7, <1>8, <1>9

LEMMA FlowEnd ==
  ASSUME TypeOK, PhaseInv, FlowInv, VerdictInv, NEW l \in Lane, HungUp(l) \/ AllSent(l)
  PROVE  FlowInv' /\ PhaseInv' /\ VerdictInv'
<1>1. /\ UNCHANGED <<kind, plan, asked, channel, buffer, digest, pc, verdict, answers>>
      /\ fetcher' = [fetcher EXCEPT ![l] = "ended"] /\ fetcher[l] # "ended"
      /\ \A k \in Lane \ {l} : holds'[k] = holds[k]
      /\ holds'[l] = Nothing
      /\ pc # "returned" => holds' = holds /\ asked[l] = Wanted(l)
  BY DEF HungUp, AllSent, PhaseInv, TypeOK
<1>2. /\ \A k \in Lane : Used(k)' = Used(k)
      /\ \A k \in Lane : Wanted(k)' = Wanted(k)
      /\ \A k \in Lane : Behind(k)' = Behind(k)
      /\ Original' = Original
  BY <1>1, CountsKept DEF Used, Behind
<1>3. \A k \in Lane : fetcher'[k] = IF k = l THEN "ended" ELSE fetcher[k]
  BY <1>1 DEF TypeOK
<1>4. ASSUME pc # "returned" PROVE FlowInv'
  <2>1. PICK places : Lanes(places)
    BY <1>4 DEF FlowInv
  <2>2. ASSUME NEW k \in Lane
        PROVE  /\ Flows(k, places[k])'
               /\ Short(k, places[k]) => Short(k, places[k])'
               /\ Good(k, places[k]) => Good(k, places[k])'
    <3>1. Short(k, places[k]) => Short(k, places[k])'
      BY <1>1, <1>2, <1>4 DEF Short, Size
    <3>2. NoneEmpty(k, places[k])'
      BY <1>1, <1>3, <1>4, <2>1, <3>1 DEF Lanes, Flows, NoneEmpty, Size
    <3>3. Flows(k, places[k])'
      BY <1>1, <1>2, <1>4, <2>1, <3>2 DEF Lanes, Flows, Size
    <3>4. Good(k, places[k]) => Good(k, places[k])'
      BY <1>1, <1>2, <1>3, <1>4 DEF Good, Size, GoodFrom, Unit
    <3> QED
      BY <3>3, <3>1, <3>4
  <2>3. Lanes(places)'
    BY <1>1, <2>1, <2>2 DEF Lanes
  <2>4. "bad" \in answers => BadSomewhere'
    BY <1>1, <1>4 DEF FlowInv, BadSomewhere, BadInLane, BadIn, HasBad
  <2> QED
    BY <1>1, <1>2, <1>4, <2>3, <2>4 DEF FlowInv
<1>5. FlowInv'
  BY <1>1, <1>4 DEF FlowInv
<1>6. PhaseInv'
  BY <1>1, <1>2, <1>3 DEF PhaseInv, Lane
<1>7. VerdictInv'
  <2>1. HasAddresses' = HasAddresses
    BY <1>2 DEF HasAddresses, Lane
  <2> QED
    BY <1>1, <1>2, <1>3, <2>1 DEF VerdictInv, VerdictIsTrue, Returned
<1> QED
  BY <1>5, <1>6, <1>7

-----------------------------------------------------------------------------
(* The verifying thread.                                                    *)
LEMMA FileUsed ==
  ASSUME TypeOK, PhaseInv, kind = "file"
  PROVE  /\ Used("data") = Len(digest) /\ Used("audio") = 0
         /\ Wanted("data") = Len(plan)
<1>1. Len(digest) \in Nat /\ Len(plan) \in Nat /\ Len(digest) <= Len(plan)
  BY DEF TypeOK, PhaseInv
<1>2. \A i \in 1..Len(plan) : plan[i] = "data"
  BY DEF PhaseInv
<1>3. \A i \in 1..Len(digest) : plan[i] = "data"
  BY <1>1, <1>2
<1> QED
  BY <1>1, <1>2, <1>3, CountInFile DEF Used, Wanted

(* A wrong chunk in a message that stays in the channel.                    *)
LEMMA BadStays ==
  ASSUME TypeOK, NEW l \in Lane, Waiting(l), Received(l),
         NEW k \in 1..Len(channel[l]), BadIn(channel[l][k])
  PROVE  BadIn(Head(channel[l])) \/ \E i \in 1..Len(channel'[l]) : BadIn(channel'[l][i])
<1>1. /\ Len(channel[l]) \in Nat \ {0} /\ channel'[l] = Tail(channel[l])
      /\ Len(channel'[l]) = Len(channel[l]) - 1
      /\ \A i \in 1..Len(channel'[l]) : channel'[l][i] = channel[l][i + 1]
      /\ Head(channel[l]) = channel[l][1]
  BY Taken DEF Received, TypeOK
<1>2. CASE k = 1
  BY <1>1, <1>2
<1>3. CASE k # 1
  <2>1. k - 1 \in 1..Len(channel'[l]) /\ channel'[l][k - 1] = channel[l][k]
    BY <1>1, <1>3
  <2> QED
    BY <2>1
<1> QED
  BY <1>2, <1>3

(* The first message in flight begins where the buffer ends, and what it    *)
(* brings was asked for.                                                    *)
LEMMA FirstMessage ==
  ASSUME TypeOK, NEW l \in Lane, Waiting(l), NEW at, Flows(l, at)
  PROVE  /\ Used(l) + Len(buffer[l]) + Size(Head(channel[l])) <= Wanted(l)
         /\ Good(l, at) => GoodFrom(Head(channel[l]), l, Used(l) + Len(buffer[l]))
<1> DEFINE n == Len(channel[l])
<1>1. n \in Nat \ {0} /\ Head(channel[l]) = channel[l][1] /\ Head(channel[l]) \in Messages
  BY Taken
<1>2. Behind(l) = n + 1
  BY DEF Behind
<1>3. /\ at \in [1..(n + 1) -> Nat] /\ at[1] = Used(l) + Len(buffer[l])
      /\ at[2] = at[1] + Size(Head(channel[l]))
      /\ at[n + 1] + Size(holds[l]) <= asked[l]
  BY <1>1, <1>2 DEF Flows
<1>4. at[2] <= at[n + 1] /\ at[2] \in Nat /\ at[n + 1] \in Nat
  <2>1. 2 \in 1..(n + 1) /\ n + 1 \in 1..(n + 1) /\ 2 <= n + 1
    BY <1>1
  <2> QED
    BY <1>2, <1>3, <2>1 DEF Flows
<1>5. asked[l] \in Nat /\ asked[l] <= Wanted(l) /\ Wanted(l) \in Nat /\ Size(holds[l]) \in Nat
  BY SizeIsNat, CountIsNat DEF TypeOK, Wanted
<1>6. Good(l, at) => GoodFrom(Head(channel[l]), l, Used(l) + Len(buffer[l]))
  BY <1>1, <1>3 DEF Good
<1> HIDE DEF n
<1> QED
  BY <1>3, <1>4, <1>5, <1>6

LEMMA FlowHashBatch ==
  ASSUME TypeOK, PhaseInv, FlowInv, VerdictInv, HashBatch
  PROVE  FlowInv' /\ PhaseInv' /\ VerdictInv'
<1> DEFINE m == Head(channel["data"])
           d == Len(digest)
<1>1. /\ kind = "file" /\ pc = "verify" /\ Waiting("data") /\ Received("data")
      /\ "data" \in Lane /\ Lane \ {"data"} = {"audio"}
      /\ UNCHANGED <<kind, plan, fetcher, asked, holds, answers, buffer>>
  BY DEF HashBatch, Verifying, Lane
<1>2. /\ m \in Messages /\ Size(m) \in Nat /\ d \in Nat /\ Len(plan) \in Nat
      /\ m.as = "ok" => m.units \in Seq(Units) /\ Size(m) = Len(m.units)
      /\ channel'["audio"] = channel["audio"]
      /\ digest \in Seq(Units) /\ buffer["data"] = << >>
  <2>1. m \in Messages
    BY <1>1, Taken
  <2>2. /\ Size(m) \in Nat
        /\ m.as = "ok" => m.units \in Seq(Units) /\ Size(m) = Len(m.units)
    BY <2>1, SizeIsNat
  <2>3. d \in Nat /\ Len(plan) \in Nat /\ digest \in Seq(Units)
    BY DEF TypeOK
  <2>4. channel'["audio"] = channel["audio"] /\ buffer["data"] = << >>
    BY <1>1 DEF Received, TypeOK, PhaseInv
  <2> QED
    BY <2>1, <2>2, <2>3, <2>4
<1>3. PICK places : Lanes(places)
  BY <1>1 DEF FlowInv
<1>4. /\ Used("data") = d /\ Used("audio") = 0 /\ Wanted("data") = Len(plan)
      /\ \A i \in 1..Len(plan) : plan[i] = "data"
  BY <1>1, FileUsed DEF PhaseInv
<1>5. /\ d + Size(m) <= Len(plan)
      /\ answers \subseteq {"good"} => GoodFrom(m, "data", d)
  <2>1. Flows("data", places["data"])
        /\ (answers \subseteq {"good"} => Good("data", places["data"]))
    BY <1>1, <1>3 DEF Lanes
  <2>2. Used("data") + Len(buffer["data"]) = d
    BY <1>2, <1>4
  <2> QED
    BY <1>1, <1>4, <2>1, <2>2, FirstMessage
<1>6. CASE m.as = "ok"
  <2>1. digest' = digest \o m.units /\ pc' = pc /\ verdict' = verdict
    BY <1>6 DEF HashBatch
  <2>2. /\ Len(digest') = d + Size(m)
        /\ \A i \in 1..d : digest'[i] = digest[i]
        /\ \A i \in 1..Size(m) : digest'[d + i] = m.units[i]
    BY <1>2, <1>6, <2>1
  <2> HIDE DEF m
  <2>3. Used("data")' = d + Size(m) /\ Used("audio")' = 0
    <3>1. \A l : Used(l)' = CountOf(l, d + Size(m))
      BY <1>1, <2>2, CountsKept DEF Used
    <3>2. d + Size(m) \in Nat /\ \A i \in 1..(d + Size(m)) : plan[i] = "data"
      BY <1>2, <1>4, <1>5
    <3> QED
      BY <3>1, <3>2, CountInFile
  <2>4. \E others : Lanes(others)'
    <3>1. Flows("data", places["data"])
          /\ (answers \subseteq {"good"} => Good("data", places["data"]))
      BY <1>1, <1>3 DEF Lanes
    <3>2. Used("data")' + Len(buffer'["data"])
            = Used("data") + Len(buffer["data"]) + Size(Head(channel["data"]))
      BY <1>1, <1>2, <1>4, <2>3 DEF m
    <3>3. PICK up : /\ Flows("data", up)'
                    /\ Short("data", places["data"]) => Short("data", up)'
                    /\ Good("data", places["data"])
                         /\ (\A i \in 1..Len(buffer'["data"]) :
                               buffer'["data"][i] = Unit("data", Used("data")' + i, "good"))
                       => Good("data", up)'
      BY <1>1, <3>1, <3>2, MoveUp
    <3>4. \A i \in 1..Len(buffer'["data"]) :
            buffer'["data"][i] = Unit("data", Used("data")' + i, "good")
      BY <1>1, <1>2
    <3>5. answers \subseteq {"good"} => Good("data", up)'
      BY <3>1, <3>3, <3>4
    <3>6. answers' = answers
      BY <1>1
    <3>7. \A k \in Lane \ {"data"} :
            /\ channel'[k] = channel[k] /\ buffer'[k] = buffer[k] /\ holds'[k] = holds[k]
            /\ asked'[k] = asked[k] /\ fetcher'[k] = fetcher[k] /\ Used(k)' = Used(k)
      BY <1>1, <1>2, <1>4, <2>3
    <3> QED
      BY <1>1, <1>3, <3>3, <3>5, <3>6, <3>7, OneLane
  <2>5. "bad" \in answers => BadSomewhere'
    <3> SUFFICES ASSUME "bad" \in answers PROVE BadSomewhere'
      OBVIOUS
    <3>1. BadSomewhere
      BY <1>1 DEF FlowInv
    <3>2. HasBad(digest) \/ BadIn(m) => HasBad(digest)'
      <4>1. CASE HasBad(digest)
        BY <1>2, <2>2, <4>1 DEF HasBad
      <4>2. CASE BadIn(m)
        <5>1. PICK i \in 1..Size(m) : m.units[i][3] = "bad"
          BY <1>2, <4>2 DEF BadIn, HasBad
        <5>2. d + i \in 1..Len(digest') /\ digest'[d + i][3] = "bad"
          BY <1>2, <2>2, <5>1
        <5> QED
          BY <5>2 DEF HasBad
      <4> QED
        BY <4>1, <4>2
    <3>3. ASSUME NEW l \in Lane, BadInLane(l) PROVE BadInLane(l)' \/ BadIn(m)
      <4>1. CASE HasBad(buffer[l]) \/ BadIn(holds[l])
        BY <1>1, <4>1 DEF BadInLane, HasBad, BadIn
      <4>2. CASE \E k \in 1..Len(channel[l]) : BadIn(channel[l][k])
        <5>1. CASE l = "data"
          BY <1>1, <4>2, <5>1, BadStays DEF BadInLane, HasBad, BadIn, m
        <5>2. CASE l = "audio"
          BY <1>2, <4>2, <5>2 DEF BadInLane, HasBad, BadIn
        <5> QED
          BY <5>1, <5>2 DEF Lane
      <4> QED
        BY <3>3, <4>1, <4>2 DEF BadInLane
    <3> QED
      BY <3>1, <3>2, <3>3 DEF BadSomewhere
  <2>6. ASSUME answers \subseteq {"good"}, NEW i \in 1..Len(digest') PROVE digest'[i] = Original[i]
    <3>1. i \in Nat /\ 1 <= i /\ i <= Len(plan) /\ i \in 1..Len(plan)
      BY <1>2, <1>5, <2>2
    <3>2. Original[i] = Unit("data", i, "good")
      <4>1. \A j \in 1..i : plan[j] = "data"
        BY <1>2, <1>4, <3>1
      <4>2. CountOf("data", i) = i
        BY <3>1, <4>1, CountInFile
      <4>3. DOMAIN plan = 1..Len(plan) /\ plan[i] = "data"
        BY <1>4, <3>1 DEF TypeOK
      <4> QED
        BY <3>1, <4>2, <4>3 DEF Original
    <3>3. CASE i <= d
      <4>1. i \in 1..d /\ digest[i] = Original[i]
        BY <1>1, <1>2, <2>6, <3>1, <3>3 DEF FlowInv
      <4> QED
        BY <2>2, <4>1
    <3>4. CASE d < i
      <4>1. i - d \in 1..Size(m) /\ i = d + (i - d)
        BY <1>2, <2>2, <3>1, <3>4
      <4>2. digest'[i] = m.units[i - d]
        BY <2>2, <4>1
      <4>3. m.units[i - d] = Unit("data", d + (i - d), "good")
        BY <1>2, <1>5, <1>6, <2>6, <4>1 DEF GoodFrom, m
      <4> QED
        BY <3>2, <4>1, <4>2, <4>3
    <3> QED
      BY <1>2, <3>1, <3>3, <3>4
  <2>7. FlowInv'
    BY <1>1, <2>4, <2>5, <2>6, CountsKept DEF FlowInv
  <2>8. PhaseInv'
    BY <1>1, <1>2, <1>5, <2>1, <2>2, CountsKept DEF PhaseInv
  <2>9. VerdictInv'
    BY <1>1, <2>1 DEF VerdictInv, VerdictIsTrue, Returned
  <2> QED
    BY <2>7, <2>8, <2>9
<1>7. CASE m.as # "ok"
  <2>1. pc' = "returned" /\ verdict' = m.as /\ digest' = digest
    BY <1>7 DEF HashBatch, Return
  <2>2. verdict' # "ok" /\ ~(answers \subseteq {"good"})
    BY <1>5, <1>7, <2>1 DEF GoodFrom
  <2>3. FlowInv' /\ VerdictInv'
    BY <1>1, <2>1, <2>2 DEF FlowInv, VerdictInv, VerdictIsTrue, Returned
  <2>4. PhaseInv'
    BY <1>1, <2>1, CountsKept DEF PhaseInv
  <2> QED
    BY <2>3, <2>4
<1> QED
  BY <1>6, <1>7

LEMMA FlowReceive ==
  ASSUME TypeOK, PhaseInv, FlowInv, VerdictInv, NEW l \in Lane, ReceiveFor(l)
  PROVE  FlowInv' /\ PhaseInv' /\ VerdictInv'
<1> DEFINE m == Head(channel[l])
<1>1. /\ pc = "verify" /\ Waiting(l) /\ Received(l) /\ buffer[l] = << >>
      /\ UNCHANGED <<kind, plan, fetcher, asked, holds, answers, digest>>
      /\ kind = "disc"
  BY DEF ReceiveFor, Rebuilding, Verifying
<1>2. m \in Messages
  BY <1>1, Taken
<1>3. /\ Size(m) \in Nat /\ Used(l) \in Nat
      /\ m.as = "ok" => m.units \in Seq(Units) /\ Size(m) = Len(m.units)
  BY <1>2, SizeIsNat, CountIsNat DEF TypeOK, Used
<1>4. PICK places : Lanes(places)
  BY <1>1 DEF FlowInv
<1>5. /\ Flows(l, places[l])
      /\ answers \subseteq {"good"} => Good(l, places[l])
  BY <1>4 DEF Lanes
<1>6. answers \subseteq {"good"} => GoodFrom(m, l, Used(l))
  <2>1. Used(l) + Len(buffer[l]) = Used(l)
    BY <1>1, <1>3
  <2> QED
    BY <1>1, <1>5, <2>1, FirstMessage
<1>7. \A k \in Lane \ {l} : channel'[k] = channel[k]
  BY <1>1 DEF Received, TypeOK
<1>8. \A k : Used(k)' = Used(k)
  BY <1>1, CountsKept DEF Used
<1>9. CASE m.as = "ok"
  <2>1. /\ buffer'[l] = m.units /\ pc' = pc /\ verdict' = verdict
        /\ \A k \in Lane \ {l} : buffer'[k] = buffer[k]
    <3>1. buffer' = [buffer EXCEPT ![l] = @ \o m.units] /\ pc' = pc /\ verdict' = verdict
      BY <1>9 DEF ReceiveFor
    <3>2. buffer[l] \o m.units = m.units
      BY <1>1, <1>3, <1>9
    <3> QED
      BY <3>1, <3>2 DEF TypeOK
  <2> HIDE DEF m
  <2>2. Used(l)' + Len(buffer'[l]) = Used(l) + Len(buffer[l]) + Size(Head(channel[l]))
    BY <1>1, <1>3, <1>8, <1>9, <2>1 DEF m
  <2>3. PICK up : /\ Flows(l, up)'
                  /\ Short(l, places[l]) => Short(l, up)'
                  /\ Good(l, places[l])
                       /\ (\A i \in 1..Len(buffer'[l]) :
                             buffer'[l][i] = Unit(l, Used(l)' + i, "good"))
                     => Good(l, up)'
    BY <1>1, <1>5, <2>2, MoveUp
  <2>4. answers \subseteq {"good"} => Good(l, up)'
    BY <1>5, <1>6, <1>8, <2>1, <2>3 DEF GoodFrom
  <2>5. \E others : Lanes(others)'
    BY <1>1, <1>4, <1>7, <1>8, <2>1, <2>3, <2>4, OneLane
  <2>6. "bad" \in answers => BadSomewhere'
    <3> SUFFICES ASSUME "bad" \in answers PROVE BadSomewhere'
      OBVIOUS
    <3>1. BadSomewhere
      BY <1>1 DEF FlowInv
    <3>2. ASSUME NEW k \in Lane, BadInLane(k) PROVE BadInLane(k)'
      <4>1. CASE k # l
        BY <1>1, <1>7, <2>1, <3>2, <4>1 DEF BadInLane, BadIn, HasBad
      <4>2. CASE k = l
        <5>1. ~HasBad(buffer[l])
          BY <1>1 DEF HasBad
        <5>2. CASE BadIn(holds[l])
          BY <1>1, <4>2, <5>2 DEF BadInLane, BadIn, HasBad
        <5>3. CASE \E i \in 1..Len(channel[l]) : BadIn(channel[l][i])
          <6>1. BadIn(m) \/ \E i \in 1..Len(channel'[l]) : BadIn(channel'[l][i])
            BY <1>1, <5>3, BadStays DEF m
          <6> QED
            BY <1>1, <2>1, <4>2, <6>1 DEF BadInLane, BadIn, HasBad
        <5> QED
          BY <3>2, <4>2, <5>1, <5>2, <5>3 DEF BadInLane
      <4> QED
        BY <4>1, <4>2
    <3> QED
      BY <1>1, <3>1, <3>2 DEF BadSomewhere, HasBad
  <2>7. FlowInv'
    BY <1>1, <2>5, <2>6, CountsKept DEF FlowInv
  <2>8. PhaseInv'
    BY <1>1, <2>1, CountsKept DEF PhaseInv
  <2>9. VerdictInv'
    BY <1>1, <2>1 DEF VerdictInv, VerdictIsTrue, Returned
  <2> QED
    BY <2>7, <2>8, <2>9
<1>10. CASE m.as # "ok"
  <2>1. pc' = "returned" /\ verdict' = m.as
    BY <1>10 DEF ReceiveFor, Return
  <2>2. verdict' # "ok" /\ ~(answers \subseteq {"good"})
    BY <1>6, <1>10, <2>1 DEF GoodFrom
  <2>3. FlowInv' /\ VerdictInv'
    BY <1>1, <2>1, <2>2 DEF FlowInv, VerdictInv, VerdictIsTrue, Returned
  <2>4. PhaseInv'
    BY <1>1, <2>1, CountsKept DEF PhaseInv
  <2> QED
    BY <2>3, <2>4
<1> QED
  BY <1>9, <1>10

LEMMA FlowRebuild ==
  ASSUME TypeOK, PhaseInv, FlowInv, VerdictInv, NEW l \in Lane, RebuildSector(l)
  PROVE  FlowInv' /\ PhaseInv' /\ VerdictInv'
<1> DEFINE d == Len(digest)
           b == buffer[l]
<1>1. /\ pc = "verify" /\ kind = "disc" /\ b # << >>
      /\ d + 1 <= Len(plan) /\ plan[d + 1] = l
      /\ UNCHANGED <<kind, plan, fetcher, asked, holds, answers, channel, pc, verdict>>
      /\ buffer' = [buffer EXCEPT ![l] = Tail(@)]
      /\ digest' = Append(digest, Head(b))
  BY DEF RebuildSector, Rebuilding, Verifying, Sector
<1>2. /\ d \in Nat /\ Len(plan) \in Nat /\ digest \in Seq(Units) /\ b \in Seq(Units)
      /\ buffer'[l] = Tail(b) /\ \A k \in Lane \ {l} : buffer'[k] = buffer[k]
  BY <1>1 DEF TypeOK
<1>3. /\ Len(b) \in Nat \ {0} /\ Head(b) = b[1] /\ Head(b) \in Units
      /\ Len(buffer'[l]) = Len(b) - 1
      /\ \A i \in 1..(Len(b) - 1) : buffer'[l][i] = b[i + 1]
  <2> HIDE DEF b
  <2>1. b \in Seq(Units) /\ b # << >> /\ buffer'[l] = Tail(b)
    BY <1>1, <1>2
  <2> QED
    BY <2>1
<1>4. /\ Len(digest') = d + 1 /\ digest'[d + 1] = b[1]
      /\ \A i \in 1..d : digest'[i] = digest[i]
  BY <1>1, <1>2, <1>3
<1>5. Used(l) \in Nat /\ Used(l)' = Used(l) + 1 /\ \A k \in Lane \ {l} : Used(k)' = Used(k)
  <2>1. \A k : Used(k)' = CountOf(k, d + 1) /\ Used(k) = CountOf(k, d)
    BY <1>1, <1>4, CountsKept DEF Used
  <2> QED
    BY <1>1, <1>2, <2>1, CountIsNat, CountNext
<1> HIDE DEF b, d
<1>6. PICK places : Lanes(places)
  BY <1>1 DEF FlowInv
<1>7. /\ Flows(l, places[l])
      /\ answers \subseteq {"good"} => Good(l, places[l])
  BY <1>6 DEF Lanes
<1>8. Behind(l)' = Behind(l)
  BY <1>1 DEF Behind
<1>9. Used(l)' + Len(buffer'[l]) = Used(l) + Len(b)
  BY <1>3, <1>5
<1>10. Short(l, places[l]) => Short(l, places[l])'
  BY <1>1, <1>8 DEF Short, Size
<1>11. Flows(l, places[l])'
  <2>1. NoneEmpty(l, places[l])'
    BY <1>1, <1>7, <1>10 DEF Flows, NoneEmpty, Size
  <2> QED
    BY <1>1, <1>7, <1>8, <1>9, <2>1 DEF Flows, Size, b
<1>12. ASSUME answers \subseteq {"good"}
       PROVE  Good(l, places[l])' /\ b[1] = Unit(l, Used(l) + 1, "good")
  <2>1. \A i \in 1..Len(b) : b[i] = Unit(l, Used(l) + i, "good")
    BY <1>7, <1>12 DEF Good, b
  <2>2. ASSUME NEW i \in 1..Len(buffer'[l])
        PROVE  buffer'[l][i] = Unit(l, Used(l)' + i, "good")
    <3>1. i + 1 \in 1..Len(b) /\ i \in 1..(Len(b) - 1) /\ Used(l) + (i + 1) = Used(l)' + i
      BY <1>3, <1>5
    <3>2. buffer'[l][i] = b[i + 1] /\ b[i + 1] = Unit(l, Used(l) + (i + 1), "good")
      BY <1>3, <2>1, <3>1
    <3> QED
      BY <3>1, <3>2
  <2>3. Good(l, places[l])'
    BY <1>1, <1>7, <1>8, <1>12, <2>2 DEF Good, GoodFrom, Size, Unit
  <2> QED
    BY <1>3, <2>1, <2>3
<1>13. \E others : Lanes(others)'
  BY <1>1, <1>2, <1>5, <1>6, <1>10, <1>11, <1>12, OneLane
<1>14. ASSUME "bad" \in answers PROVE BadSomewhere'
  <2>1. BadSomewhere
    BY <1>1, <1>14 DEF FlowInv
  <2>2. CASE HasBad(digest)
    <3>1. PICK i \in 1..d : digest[i][3] = "bad"
      BY <2>2 DEF HasBad, d
    <3>2. i \in 1..Len(digest') /\ digest'[i][3] = "bad"
      BY <1>2, <1>4, <3>1
    <3> QED
      BY <3>2 DEF BadSomewhere, HasBad
  <2>3. ASSUME NEW k \in Lane, BadInLane(k) PROVE BadSomewhere'
    <3>1. CASE k # l \/ ~HasBad(b)
      <4>1. BadInLane(k)'
        BY <1>1, <1>2, <2>3, <3>1 DEF BadInLane, BadIn, HasBad, b
      <4> QED
        BY <4>1 DEF BadSomewhere
    <3>2. CASE k = l /\ HasBad(b)
      <4>1. PICK i \in 1..Len(b) : b[i][3] = "bad"
        BY <3>2 DEF HasBad
      <4>2. CASE i = 1
        <5>1. d + 1 \in 1..Len(digest') /\ digest'[d + 1][3] = "bad"
          BY <1>2, <1>4, <4>1, <4>2
        <5> QED
          BY <5>1 DEF BadSomewhere, HasBad
      <4>3. CASE i # 1
        <5>1. i - 1 \in 1..Len(buffer'[l]) /\ i - 1 \in 1..(Len(b) - 1) /\ (i - 1) + 1 = i
          BY <1>3, <4>1, <4>3
        <5>2. buffer'[l][i - 1][3] = "bad"
          BY <1>3, <4>1, <5>1
        <5>3. BadInLane(l)'
          BY <5>1, <5>2 DEF BadInLane, HasBad
        <5> QED
          BY <5>3 DEF BadSomewhere
      <4> QED
        BY <4>2, <4>3
    <3> QED
      BY <3>1, <3>2
  <2> QED
    BY <2>1, <2>2, <2>3 DEF BadSomewhere
<1>15. ASSUME answers \subseteq {"good"}, NEW i \in 1..Len(digest')
       PROVE  digest'[i] = Original[i]
  <2>1. CASE i = d + 1
    <3>1. Original[i] = Unit(l, CountOf(l, d + 1), "good")
      <4>1. d + 1 \in DOMAIN plan
        BY <1>1, <1>2 DEF TypeOK
      <4> QED
        BY <1>1, <2>1, <4>1 DEF Original
    <3>2. CountOf(l, d + 1) = Used(l) + 1
      BY <1>1, <1>2, CountNext DEF Used, d
    <3> QED
      BY <1>4, <1>12, <1>15, <2>1, <3>1, <3>2
  <2>2. CASE i # d + 1
    <3>1. i \in 1..d
      BY <1>2, <1>4, <2>2
    <3>2. digest[i] = Original[i]
      BY <1>1, <1>15, <3>1 DEF FlowInv, d
    <3> QED
      BY <1>4, <3>1, <3>2
  <2> QED
    BY <2>1, <2>2
<1>16. FlowInv'
  BY <1>1, <1>13, <1>14, <1>15, CountsKept DEF FlowInv
<1>17. PhaseInv'
  BY <1>1, <1>2, <1>4, CountsKept DEF PhaseInv
<1>18. VerdictInv'
  BY <1>1 DEF VerdictInv, VerdictIsTrue, Returned
<1> QED
  BY <1>16, <1>17, <1>18

(* Where nothing is in flight and the fetching thread has ended, everything *)
(* that was answered has been used.                                         *)
LEMMA NothingLeft ==
  ASSUME TypeOK, PhaseInv, NEW l \in Lane, NEW at, Flows(l, at), Good(l, at),
         channel[l] = << >>, fetcher[l] = "ended", buffer[l] = << >>
  PROVE  Used(l) = asked[l]
<1>1. Used(l) \in Nat /\ holds[l] = Nothing
  BY CountIsNat DEF TypeOK, Used, PhaseInv
<1>2. Behind(l) = 1 /\ Size(holds[l]) = 0
  BY <1>1 DEF Behind, Size, Nothing
<1>3. at[1] = Used(l) + 0 /\ at[1] + 0 = asked[l]
  BY <1>2 DEF Flows, Good
<1> QED
  BY <1>1, <1>3

(* The steps that only move the verifying thread on.                        *)
LEMMA FlowGoesOn ==
  ASSUME FlowInv, pc # "returned", pc' # "returned",
         UNCHANGED <<kind, plan, fetcher, asked, holds, channel, buffer, digest, answers>>
  PROVE  FlowInv' /\ VerdictInv'
<1>1. /\ \A l : Used(l)' = Used(l)
      /\ \A l : Behind(l)' = Behind(l)
      /\ Original' = Original
  BY CountsKept DEF Used, Behind
<1>2. ASSUME NEW places, Lanes(places) PROVE Lanes(places)'
  <2>1. ASSUME NEW l \in Lane
        PROVE  /\ Flows(l, places[l])' <=> Flows(l, places[l])
               /\ Short(l, places[l])' <=> Short(l, places[l])
               /\ Good(l, places[l])' <=> Good(l, places[l])
    <3>1. Short(l, places[l])' <=> Short(l, places[l])
      BY <1>1 DEF Short, Size
    <3>2. NoneEmpty(l, places[l])' <=> NoneEmpty(l, places[l])
      BY <3>1 DEF NoneEmpty, Size
    <3>3. Flows(l, places[l])' <=> Flows(l, places[l])
      BY <1>1, <3>2 DEF Flows, Size
    <3>4. Good(l, places[l])' <=> Good(l, places[l])
      BY <1>1 DEF Good, GoodFrom, Size, Unit
    <3> QED
      BY <3>3, <3>1, <3>4
  <2> QED
    BY <1>2, <2>1 DEF Lanes
<1>3. BadSomewhere => BadSomewhere'
  BY DEF BadSomewhere, BadInLane, BadIn, HasBad
<1>4. FlowInv'
  <2>1. PICK places : Lanes(places)
    BY DEF FlowInv
  <2>2. Lanes(places)'
    BY <1>2, <2>1
  <2>3. \E others : Lanes(others)'
    BY <2>2
  <2> QED
    BY <1>1, <1>3, <2>3 DEF FlowInv
<1>5. VerdictInv'
  BY DEF VerdictInv, VerdictIsTrue, Returned
<1> QED
  BY <1>4, <1>5

LEMMA FlowEnds ==
  ASSUME TypeOK, PhaseInv, FlowInv, VerdictInv, HashEnds \/ RebuildEnds
  PROVE  FlowInv' /\ PhaseInv' /\ VerdictInv'
<1>1. /\ pc = "verify" /\ pc' = "join"
      /\ UNCHANGED <<kind, plan, fetcher, asked, holds, channel, buffer, digest, answers>>
  BY DEF HashEnds, RebuildEnds, Verifying
<1>2. FlowInv' /\ VerdictInv'
  BY <1>1, FlowGoesOn
<1>3. \/ kind = "file" /\ channel["data"] = << >> /\ fetcher["data"] = "ended"
      \/ kind = "disc" /\ Len(digest) = Len(plan)
  <2>1. CASE HashEnds
    BY <2>1 DEF HashEnds, Closed
  <2>2. CASE RebuildEnds
    BY <2>2 DEF RebuildEnds, Sector, PhaseInv, TypeOK
  <2> QED
    BY <2>1, <2>2
<1>4. PhaseInv'
  BY <1>1, <1>3, CountsKept DEF PhaseInv
<1> QED
  BY <1>2, <1>4

LEMMA FlowFails ==
  ASSUME TypeOK, PhaseInv, FlowInv, VerdictInv,
         NoAddresses \/ RebuildFails \/ \E l \in Lane : FetcherFailed(l)
  PROVE  FlowInv' /\ PhaseInv' /\ VerdictInv'
<1>1. /\ pc = "verify" /\ pc' = "returned" /\ kind = "disc"
      /\ verdict' \in {"panic", "Reconstruction", "InternalError"}
      /\ UNCHANGED <<kind, plan, fetcher, asked, holds, channel, buffer, digest, answers>>
  BY DEF NoAddresses, RebuildFails, FetcherFailed, Rebuilding, Verifying, Return
<1>2. FlowInv'
  BY <1>1 DEF FlowInv
<1>3. PhaseInv'
  BY <1>1, CountsKept DEF PhaseInv
<1>4. HasAddresses' = HasAddresses
  BY <1>1, CountsKept DEF HasAddresses
<1>5. ASSUME answers \subseteq {"good"}
      PROVE  verdict' \in {"Reconstruction"} \cup IF HasAddresses THEN {} ELSE {"panic"}
  <2>1. CASE NoAddresses
    BY <2>1 DEF NoAddresses, Return
  <2>2. CASE RebuildFails
    BY <2>2 DEF RebuildFails, Return
  <2>3. ASSUME NEW l \in Lane, FetcherFailed(l) PROVE FALSE
    <3>1. /\ channel[l] = << >> /\ fetcher[l] = "ended" /\ buffer[l] = << >>
          /\ Len(digest) + 1 <= Len(plan) /\ plan[Len(digest) + 1] = l
      BY <2>3 DEF FetcherFailed, Rebuilding, Closed, Sector
    <3>2. PICK places : Lanes(places)
      BY <1>1 DEF FlowInv
    <3>3. Used(l) = asked[l]
      BY <1>5, <3>1, <3>2, NothingLeft DEF Lanes
    <3>4. asked[l] = Wanted(l)
      BY <1>1, <1>5, <3>1 DEF PhaseInv
    <3>5. Len(digest) \in Nat /\ Len(plan) \in Nat
      BY DEF TypeOK
    <3>6. CountOf(l, Len(digest) + 1) = Used(l) + 1 /\ Used(l) \in Nat
      BY <3>1, <3>5, CountNext, CountIsNat DEF Used
    <3>7. CountOf(l, Len(digest) + 1) <= Wanted(l)
      BY <3>1, <3>5, CountGrows DEF Wanted
    <3> QED
      BY <3>3, <3>4, <3>6, <3>7
  <2> QED
    BY <2>1, <2>2, <2>3
<1>6. VerdictInv'
  BY <1>1, <1>4, <1>5 DEF VerdictInv, VerdictIsTrue, Returned
<1> QED
  BY <1>2, <1>3, <1>6

(* Where all of a lane is in the digest, nothing of it is anywhere else.    *)
LEMMA AllUsed ==
  ASSUME TypeOK, NEW l \in Lane, NEW at, Flows(l, at), Used(l) = Wanted(l)
  PROVE  asked[l] = Wanted(l) /\ ~Short(l, at) /\ ~BadInLane(l) /\ channel[l] = << >>
<1> DEFINE n == Len(channel[l])
           w == Wanted(l)
<1>1. /\ w \in Nat /\ asked[l] \in Nat /\ asked[l] <= w
      /\ n \in Nat /\ Len(buffer[l]) \in Nat
      /\ holds[l] \in Messages /\ Size(holds[l]) \in Nat
      /\ \A k \in 1..n : channel[l][k] \in Messages
  BY CountIsNat, SizeIsNat DEF TypeOK, Wanted
<1>2. Behind(l) = n + 1
  BY DEF Behind
<1> HIDE DEF n, w
<1>3. /\ \A k \in 1..(n + 1) : at[k] \in Nat
      /\ \A j, k \in 1..(n + 1) : j <= k => at[j] <= at[k]
      /\ at[1] = w + Len(buffer[l])
      /\ \A k \in 1..n : at[k + 1] = at[k] + Size(channel[l][k])
      /\ at[n + 1] + Size(holds[l]) <= asked[l]
  BY <1>2 DEF Flows, n, w
<1>4. ASSUME NEW k \in 1..(n + 1) PROVE at[1] <= at[k] /\ at[k] <= at[n + 1]
  <2>1. 1 \in 1..(n + 1) /\ n + 1 \in 1..(n + 1) /\ 1 <= k /\ k <= n + 1
    BY <1>1
  <2> QED
    BY <1>3, <2>1
<1>5. at[1] \in Nat /\ at[n + 1] \in Nat /\ at[1] <= at[n + 1]
  <2>1. 1 \in 1..(n + 1) /\ n + 1 \in 1..(n + 1)
    BY <1>1
  <2> QED
    BY <1>3, <1>4, <2>1
<1>6. /\ Len(buffer[l]) = 0 /\ Size(holds[l]) = 0
      /\ at[1] = w /\ at[n + 1] = w /\ asked[l] = w
  BY <1>1, <1>3, <1>5
<1>7. \A k \in 1..(n + 1) : at[k] = w
  BY <1>1, <1>3, <1>4, <1>6
<1>8. ASSUME NEW k \in 1..n PROVE Size(channel[l][k]) = 0
  <2>1. k \in 1..(n + 1) /\ k + 1 \in 1..(n + 1)
    BY <1>1
  <2>2. Size(channel[l][k]) \in Nat
    BY <1>1, SizeIsNat
  <2> QED
    BY <1>1, <1>3, <1>7, <2>1, <2>2
<1>9. ASSUME NEW message \in Messages, Size(message) = 0 PROVE ~BadIn(message)
  BY <1>9, SizeIsNat DEF BadIn, HasBad
<1>10. ~BadInLane(l)
  BY <1>1, <1>6, <1>8, <1>9 DEF BadInLane, HasBad, n
<1>11. ~Short(l, at)
  BY <1>1, <1>2, <1>6 DEF Short
<1>12. channel[l] = << >>
  <2>1. \A k \in 1..n : Size(channel[l][k]) # 0
    BY <1>11 DEF Flows, NoneEmpty, n
  <2>2. n = 0
    <3>1. 1 \notin 1..n
      BY <1>8, <2>1
    <3> QED
      BY <1>1, <3>1
  <2> QED
    BY <2>2 DEF TypeOK, n
<1> QED
  BY <1>6, <1>10, <1>11, <1>12 DEF w

LEMMA FlowJoin ==
  ASSUME TypeOK, PhaseInv, FlowInv, VerdictInv, Join
  PROVE  FlowInv' /\ PhaseInv' /\ VerdictInv'
<1>1. /\ pc = "join" /\ pc' = "returned"
      /\ \A l \in Lane : fetcher[l] = "ended"
      /\ verdict' = IF Compare THEN "ok" ELSE "HashMismatch"
      /\ UNCHANGED <<kind, plan, fetcher, asked, holds, channel, buffer, digest, answers>>
  BY DEF Join, Return
<1>2. /\ digest \in Seq(Units) /\ Len(digest) \in Nat
      /\ plan \in Seq(Lane) /\ Len(plan) \in Nat
      /\ DOMAIN Original = 1..Len(plan)
      /\ \A i \in 1..Len(plan) : Original[i] = Unit(plan[i], CountOf(plan[i], i), "good")
  BY DEF TypeOK, Original
<1>3. PICK places : Lanes(places)
  BY <1>1 DEF FlowInv
<1>4. ASSUME answers \subseteq {"good"} PROVE Compare
  <2>1. Len(digest) = Len(plan)
    <3>1. CASE kind = "disc"
      BY <1>1, <3>1 DEF PhaseInv
    <3>2. CASE kind = "file"
      <4>1. "data" \in Lane /\ channel["data"] = << >> /\ buffer["data"] = << >>
        BY <1>1, <3>2 DEF PhaseInv, Lane
      <4>2. Used("data") = asked["data"]
        BY <1>1, <1>3, <1>4, <4>1, NothingLeft DEF Lanes
      <4>3. asked["data"] = Wanted("data")
        BY <1>1, <1>4, <4>1 DEF PhaseInv
      <4> QED
        BY <3>2, <4>2, <4>3, FileUsed
    <3> QED
      BY <3>1, <3>2 DEF TypeOK
  <2>2. \A i \in 1..Len(plan) : digest[i] = Original[i]
    BY <1>1, <1>4, <2>1 DEF FlowInv
  <2>3. digest = [i \in 1..Len(plan) |-> digest[i]]
    BY <1>2, <2>1
  <2>4. Original = [i \in 1..Len(plan) |-> Original[i]]
    BY <1>2 DEF Original
  <2> QED
    BY <2>2, <2>3, <2>4 DEF Compare
<1>5. ASSUME Compare PROVE answers \subseteq {"good"} /\ \A l \in Lane : asked[l] = Wanted(l)
  <2>1. digest = Original
    BY <1>5 DEF Compare
  <2>2. Len(digest) = Len(plan)
    <3>1. DOMAIN digest = 1..Len(digest) /\ DOMAIN digest = 1..Len(plan)
      BY <1>2, <2>1
    <3> QED
      BY <1>2, <3>1
  <2>3. \A l \in Lane : asked[l] = Wanted(l) /\ ~Short(l, places[l]) /\ ~BadInLane(l)
    <3>1. \A l \in Lane : Used(l) = Wanted(l) /\ Flows(l, places[l])
      BY <1>3, <2>2 DEF Used, Wanted, Lanes
    <3> QED
      BY <3>1, AllUsed
  <2>4. ~HasBad(digest)
    <3>1. \A i \in 1..Len(digest) : digest[i] = Unit(plan[i], CountOf(plan[i], i), "good")
      BY <1>2, <2>1, <2>2
    <3> QED
      BY <3>1 DEF HasBad, Unit
  <2>5. "bad" \notin answers
    BY <1>1, <2>3, <2>4 DEF FlowInv, BadSomewhere
  <2>6. answers \subseteq {"good", "bad"}
    BY <1>3, <2>3 DEF Lanes
  <2> QED
    BY <2>3, <2>5, <2>6
<1>6. FlowInv'
  BY <1>1 DEF FlowInv
<1>7. PhaseInv'
  BY <1>1, CountsKept DEF PhaseInv
<1>8. VerdictInv'
  <2>1. \A l \in Lane : Wanted(l)' = Wanted(l)
    BY <1>1, CountsKept
  <2>2. verdict' = "ok" => answers' \subseteq {"good"} /\ \A l \in Lane : asked'[l] = Wanted(l)'
    BY <1>1, <1>5, <2>1
  <2>3. answers' \subseteq {"good"} => verdict' = "ok"
    BY <1>1, <1>4
  <2> QED
    BY <1>1, <2>1, <2>2, <2>3 DEF VerdictInv, VerdictIsTrue, Returned
<1> QED
  BY <1>6, <1>7, <1>8

-----------------------------------------------------------------------------
(* The invariant.                                                           *)
LEMMA InvInit == Init => Inv
BY TypeInit, FileInit, FlowInit DEF Inv

LEMMA FlowKept ==
  ASSUME TypeOK, FlowInv, PhaseInv, VerdictInv, UNCHANGED vars
  PROVE  FlowInv' /\ PhaseInv' /\ VerdictInv'
<1>1. /\ UNCHANGED <<kind, plan, fetcher, asked, holds, channel, buffer, digest, answers>>
      /\ pc' = pc /\ verdict' = verdict
  BY DEF vars
<1>2. FlowInv' /\ VerdictInv'
  <2>1. CASE pc = "returned"
    <3>1. HasAddresses' = HasAddresses /\ \A l : Wanted(l)' = Wanted(l)
      BY <1>1, CountsKept DEF HasAddresses
    <3> QED
      BY <1>1, <2>1, <3>1 DEF FlowInv, VerdictInv, VerdictIsTrue, Returned
  <2>2. CASE pc # "returned"
    BY <1>1, <2>2, FlowGoesOn
  <2> QED
    BY <2>1, <2>2
<1>3. PhaseInv'
  BY <1>1, CountsKept DEF PhaseInv
<1> QED
  BY <1>2, <1>3

LEMMA FlowStep ==
  ASSUME TypeOK, FlowInv, PhaseInv, VerdictInv, [Next]_vars
  PROVE  FlowInv' /\ PhaseInv' /\ VerdictInv'
<1>1. ASSUME NEW l \in Lane, FetcherStep(l) PROVE FlowInv' /\ PhaseInv' /\ VerdictInv'
  <2>1. CASE Fetch(l)
    BY <2>1, FlowFetch
  <2>2. CASE Send(l)
    BY <2>2, FlowSend
  <2>3. CASE HungUp(l) \/ AllSent(l)
    BY <2>3, FlowEnd
  <2> QED
    BY <1>1, <2>1, <2>2, <2>3 DEF FetcherStep
<1>2. CASE HashBatch
  BY <1>2, FlowHashBatch
<1>3. ASSUME NEW l \in Lane, ReceiveFor(l) PROVE FlowInv' /\ PhaseInv' /\ VerdictInv'
  BY <1>3, FlowReceive
<1>4. ASSUME NEW l \in Lane, RebuildSector(l) PROVE FlowInv' /\ PhaseInv' /\ VerdictInv'
  BY <1>4, FlowRebuild
<1>5. CASE HashEnds \/ RebuildEnds
  BY <1>5, FlowEnds
<1>6. CASE NoAddresses \/ RebuildFails \/ \E l \in Lane : FetcherFailed(l)
  BY <1>6, FlowFails
<1>7. CASE Join
  BY <1>7, FlowJoin
<1>8. CASE UNCHANGED vars
  BY <1>8, FlowKept
<1> QED
  BY <1>1, <1>2, <1>3, <1>4, <1>5, <1>6, <1>7, <1>8 DEF Next, VerifierStep, Done

LEMMA InvStep == Inv /\ [Next]_vars => Inv'
BY TypeStep, FileStep, FlowStep DEF Inv

LEMMA Invariant == Spec => []Inv
BY InvInit, InvStep, PTL DEF Spec

(* The verdict is true of the content: Ok exactly when every chunk was      *)
(* asked for and answered as it was chunked, whatever the threads'          *)
(* interleaving (verify_single_file, verify_disc_integrity).                *)
THEOREM VerdictTrue == Spec => []VerdictIsTrue
<1>1. Inv => VerdictIsTrue
  BY DEF Inv, VerdictInv
<1> QED
  BY <1>1, Invariant, PTL

(* A cancellation that a callback of verify_single_file noticed is what the *)
(* call returns, never another error and never a verdict on the file.       *)
THEOREM CancelStaysCancel == Spec => []CancelIsReported
<1>1. Inv => CancelIsReported
  BY DEF Inv, FileInv, CancelOnItsWay, CancelIsReported, Returned
<1> QED
  BY <1>1, Invariant, PTL

(* When verify_single_file returns, its fetching thread has ended, and the  *)
(* callback and user_data of the caller are no longer used: after an error  *)
(* too, where the code joins nothing.                                       *)
THEOREM QuietReturn == Spec => []QuietAfterReturn
<1>1. Inv => QuietAfterReturn
  BY DEF Inv, FileInv, QuietAfterReturn, Returned
<1> QED
  BY <1>1, Invariant, PTL

LEMMA SomeoneGoesOn ==
  ASSUME Inv, VerifierWaits, \A l \in Lane : FetcherWaits(l)
  PROVE  Returned /\ \A l \in Lane : fetcher[l] = "ended"
<1>1. CASE Returned
  BY <1>1 DEF FetcherWaits
<1>2. CASE pc = "verify" /\ MoreToCome /\ ~Waiting(NextLane) /\ ~Closed(NextLane)
  <2>1. NextLane \in Lane
    <3>1. CASE kind = "file"
      BY <3>1 DEF NextLane, Lane
    <3>2. CASE kind # "file"
      <4>1. plan \in Seq(Lane) /\ Sector \in 1..Len(plan)
        BY <1>2, <3>2 DEF Inv, TypeOK, MoreToCome, Sector
      <4> QED
        BY <3>2, <4>1 DEF NextLane
    <3> QED
      BY <3>1, <3>2
  <2>2. channel[NextLane] = << >> /\ fetcher[NextLane] # "ended"
    BY <1>2 DEF Waiting, Closed
  <2>3. Len(channel[NextLane]) = 0
    BY <2>2
  <2> QED
    BY <2>1, <2>2, <2>3, VerificationAssumption DEF FetcherWaits
<1>3. CASE pc = "join" /\ \E l \in Lane : fetcher[l] # "ended"
  <2>1. PICK l \in Lane : fetcher[l] # "ended"
    BY <1>3
  <2>2. kind = "disc" /\ Len(digest) = Len(plan)
    BY <1>3, <2>1 DEF Inv, PhaseInv, Lane
  <2>3. PICK places : Lanes(places)
    BY <1>3 DEF Inv, FlowInv
  <2>4. channel[l] = << >>
    <3>1. Used(l) = Wanted(l) /\ Flows(l, places[l])
      BY <2>2, <2>3 DEF Used, Wanted, Lanes
    <3> QED
      BY <3>1, AllUsed DEF Inv
  <2>5. Len(channel[l]) = 0
    BY <2>4
  <2> QED
    BY <2>1, <2>5, VerificationAssumption DEF FetcherWaits
<1> QED
  BY <1>1, <1>2, <1>3 DEF VerifierWaits

(* The threads of a verification never all wait for each other, however     *)
(* long the plan, large the batches and small the channels: a verifier that *)
(* waits for its fetchers to end has left nothing in their channels.        *)
THEOREM VerificationGoesOn == Spec => []NeverAllWait
<1>1. Inv => NeverAllWait
  BY SomeoneGoesOn DEF NeverAllWait
<1> QED
  BY <1>1, Invariant, PTL

(* All that the run checks of the verdict, and that the threads go on.      *)
THEOREM VerificationSafe == Spec => []Safe
BY TypeCorrect, VerdictTrue, CancelStaysCancel, VerificationGoesOn, PTL DEF Safe
=============================================================================

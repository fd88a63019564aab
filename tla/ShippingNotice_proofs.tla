------------------------- MODULE ShippingNotice_proofs -------------------------
(***************************************************************************)
(* Theorems about ShippingNotice, for all products, known or not, every    *)
(* notice, every batch size, negative ones included, and whatever the      *)
(* product data service answers.                                           *)
(***************************************************************************)
EXTENDS ShippingNotice, TLAPS

------------------------------------------------------------------------------
\* The variables have their types, whatever is read into the notice.
THEOREM TypeCorrect == Spec => []TypeOK
<1>1. Init => TypeOK
  <2> SUFFICES ASSUME Init PROVE TypeOK
    OBVIOUS
  <2>1. notice \in Seq(ProductIds)
    <3>1. PICK m \in 0 .. MaxItems : notice \in [1 .. m -> ProductIds]
      BY DEF Init, BoundedSeq, SeqOf
    <3> QED  BY <3>1, NoticeAssumption
  <2>2. DOMAIN posted = {"alert_number", "optional"}
    BY DEF Init, NoAlert
  <2>3. /\ batchSizeMax \in BatchSizes /\ pc \in Points /\ start \in Int
        /\ outage \in BOOLEAN
    <3>1. batchSizeMax \in BatchSizes /\ pc = "received" /\ start = 0 /\ outage = FALSE
      BY Zenon DEF Init
    <3>2. start \in Int
      BY <3>1
    <3> QED  BY <3>1, <3>2, Zenon DEF Points
  <2>4. stringBytes = {} /\ whitelistedProductIDs = {} /\ notWhitelisted = {}
    BY DEF Init
  <2> QED  BY <2>1, <2>2, <2>3, <2>4 DEF TypeOK
<1>2. TypeOK /\ [Next]_vars => TypeOK'
  <2> SUFFICES ASSUME TypeOK, [Next]_vars PROVE TypeOK'
    OBVIOUS
  <2> USE DEF TypeOK, Points, Returned, inputVars
  <2>1. CASE Receive
    <3>0. DOMAIN notice = 1 .. Len(notice) /\ Len(notice) \in Nat
      OBVIOUS
    <3>d. DOMAIN notice \in SUBSET Int
      BY <3>0
    <3>1. stringBytes' \subseteq SUBSET Int
      <4>1. stringBytes' = stringBytes \/ stringBytes' = {DOMAIN notice}
        BY <2>1 DEF Receive
      <4> QED  BY <4>1, <3>d
    <3>2. pc' \in {"done", "batch", "query"}
      BY <2>1 DEF Receive
    <3>3. UNCHANGED <<inputVars, start, whitelistedProductIDs, notWhitelisted, posted, outage>>
      BY <2>1 DEF Receive
    <3> QED  BY <3>1, <3>2, <3>3
  <2>2. CASE Batch
    <3>0. start \in Int /\ batchSizeMax \in Int
      BY NoticeAssumption
    <3>d. Slice \in SUBSET Int
      BY <3>0 DEF Slice
    <3>1. stringBytes' \subseteq SUBSET Int
      <4>1. stringBytes' = stringBytes \/ stringBytes' = stringBytes \cup {Slice}
        BY <2>2 DEF Batch
      <4> QED  BY <4>1, <3>d
    <3>2. pc' \in {"filter", "panicked", "query"}
      BY <2>2 DEF Batch
    <3>3. UNCHANGED <<inputVars, start, whitelistedProductIDs, notWhitelisted, posted, outage>>
      BY <2>2 DEF Batch
    <3> QED  BY <3>1, <3>2, <3>3
  <2>3. CASE QueryAnswered
    <3>1. start' \in Int
      BY <2>3, NoticeAssumption DEF QueryAnswered
    <3>2. whitelistedProductIDs' \subseteq ProductIds
      BY <2>3, NoticeAssumption DEF QueryAnswered, Answers
    <3>3. pc' \in {"batch", "filter"}
      BY <2>3 DEF QueryAnswered
    <3> QED  BY <2>3, <3>1, <3>2, <3>3 DEF QueryAnswered
  <2>4. CASE QueryFailed
    <3>1. outage' \in BOOLEAN
      BY <2>4 DEF QueryFailed, WellFormed
    <3> QED  BY <2>4, <3>1 DEF QueryFailed
  <2>5. CASE Filter
    <3>1. notWhitelisted' \subseteq ProductIds
      BY <2>5 DEF Filter, NotIncluded, ToSet
    <3>2. pc' \in {"done", "alert"}
      BY <2>5 DEF Filter
    <3> QED  BY <2>5, <3>1, <3>2 DEF Filter
  <2>6. CASE SendAlert
    <3>1. DOMAIN posted' = {"alert_number", "optional"}
      BY <2>6 DEF SendAlert, ProcessAlert, Alert
    <3> QED  BY <2>6, <3>1 DEF SendAlert
  <2>7. CASE UNCHANGED vars
    BY <2>7 DEF vars
  <2> QED  BY <2>1, <2>2, <2>3, <2>4, <2>5, <2>6, <2>7 DEF Next
<1> QED  BY <1>1, <1>2, PTL DEF Spec

------------------------------------------------------------------------------
(* The inductive invariant.                                                        *)

\* Up to which position of the notice the queries have been written to the filter.
Written == IF pc = "query" THEN start + batchSizeMax ELSE start

\* The loop over the batches has written every query before its start, and it never
\* gets past the first one without a positive batch size.
LoopInv ==
  /\ pc = "received" => start = 0
  /\ pc \in {"batch", "query"} => notice # <<>>
  /\ pc = "batch" => Batching
  /\ pc = "query" => start < Len(notice)
  /\ pc = "query" /\ Batching => 0 <= batchSizeMax
  /\ pc = "query" /\ ~Batching => stringBytes = {DOMAIN notice}
  /\ pc \in {"batch", "query"} /\ Batching =>
       \A i \in DOMAIN notice : i <= Written => i \in UNION stringBytes
  /\ batchSizeMax <= 0 => start <= 0
  /\ EveryProductAsked
  /\ UncheckedWithoutBatches

\* The products that the service has named are known; without batches they are all the
\* known ones of the notice.  The others are what the filter keeps.
FilterInv ==
  /\ whitelistedProductIDs \subseteq Known
  /\ pc \in {"filter", "alert", "done"} /\ ~Batching =>
       ToSet(notice) \cap Known \subseteq whitelistedProductIDs
  /\ pc = "received" => notWhitelisted = {}
  /\ pc \in {"alert", "done"} => notWhitelisted = ToSet(notice) \ whitelistedProductIDs

IInv == TypeOK /\ LoopInv /\ FilterInv

------------------------------------------------------------------------------
LEMMA LoopInit == Init => LoopInv
<1> SUFFICES ASSUME Init PROVE LoopInv
  OBVIOUS
<1> QED  BY DEF Init, LoopInv, EveryProductAsked, UncheckedWithoutBatches

\* A notice that is not empty has a first position, and needs batches of a size that is
\* not positive.
LEMMA NoticeFacts ==
  ASSUME TypeOK
  PROVE  /\ Len(notice) \in Nat
         /\ DOMAIN notice = 1 .. Len(notice)
         /\ notice # <<>> => Len(notice) >= 1
         /\ notice # <<>> /\ batchSizeMax <= 0 => Batching
         /\ batchSizeMax \in Int
<1>1. batchSizeMax \in Int
  BY NoticeAssumption DEF TypeOK
<1>2. notice \in Seq(ProductIds)
  BY DEF TypeOK
<1>3. /\ Len(notice) \in Nat
      /\ DOMAIN notice = 1 .. Len(notice)
      /\ notice # <<>> => Len(notice) >= 1
  BY <1>2
<1> QED  BY <1>1, <1>3 DEF Batching

LEMMA LoopStep == IInv /\ [Next]_vars => LoopInv'
<1> SUFFICES ASSUME IInv, [Next]_vars PROVE LoopInv'
  OBVIOUS
<1> USE DEF inputVars
<1>0. TypeOK /\ LoopInv
  BY DEF IInv
<1>n. /\ Len(notice) \in Nat
      /\ DOMAIN notice = 1 .. Len(notice)
      /\ notice # <<>> => Len(notice) >= 1
      /\ notice # <<>> /\ batchSizeMax <= 0 => Batching
      /\ batchSizeMax \in Int
      /\ start \in Int
  BY <1>0, NoticeFacts DEF TypeOK
<1>1. CASE Receive
  <2>1. /\ start' = 0 /\ start = 0
        /\ notice' = notice /\ batchSizeMax' = batchSizeMax /\ Batching' = Batching
        /\ pc' \in {"done", "batch", "query"}
        /\ pc' = "done" => notice = <<>>
        /\ pc' \in {"batch", "query"} => notice # <<>>
        /\ pc' = "batch" => Batching
        /\ pc' = "query" => ~Batching /\ stringBytes' = {DOMAIN notice}
    BY <1>0, <1>1 DEF Receive, LoopInv, Batching
  <2> QED  BY <2>1, <1>n DEF LoopInv, Written, EveryProductAsked, UncheckedWithoutBatches
<1>2. CASE Batch
  <2>1. /\ start' = start
        /\ notice' = notice /\ batchSizeMax' = batchSizeMax /\ Batching' = Batching
        /\ notice # <<>> /\ Batching
        /\ \A i \in DOMAIN notice : i <= start => i \in UNION stringBytes
    BY <1>0, <1>2 DEF Batch, LoopInv, Written, Batching
  <2>2. CASE pc' = "filter"
    <3>1. start >= Len(notice) /\ stringBytes' = stringBytes
      BY <1>2, <2>2 DEF Batch
    <3>2. DOMAIN notice \subseteq UNION stringBytes
      BY <2>1, <3>1, <1>n
    <3>3. batchSizeMax > 0
      BY <1>0, <1>n, <2>1, <3>1 DEF LoopInv
    <3> QED  BY <2>1, <2>2, <3>1, <3>2, <3>3, <1>0, <1>n
             DEF LoopInv, Written, EveryProductAsked, UncheckedWithoutBatches
  <2>3. CASE pc' = "panicked"
    BY <2>1, <2>3, <1>0 DEF LoopInv, EveryProductAsked, UncheckedWithoutBatches
  <2>4. CASE pc' = "query"
    <3>1. /\ 0 <= batchSizeMax /\ stringBytes' = stringBytes \cup {Slice}
          /\ start < Len(notice)
      BY <1>2, <2>4 DEF Batch, SliceInBounds
    <3>2. ASSUME NEW i \in DOMAIN notice, i <= start + batchSizeMax
          PROVE  i \in UNION stringBytes'
      <4>1. CASE i <= start
        BY <2>1, <3>1, <4>1
      <4>2. CASE i > start
        <5>1. i \in Slice
          BY <3>2, <4>2, <1>n DEF Slice
        <5> QED  BY <3>1, <5>1
      <4> QED  BY <4>1, <4>2, <1>n
    <3>3. Written' = start + batchSizeMax
      BY <2>1, <2>4 DEF Written
    <3>4. \A i \in DOMAIN notice' : i <= Written' => i \in UNION stringBytes'
      BY <2>1, <3>2, <3>3
    <3>5. batchSizeMax <= 0 => start <= 0
      BY <1>0 DEF LoopInv
    <3>6. /\ pc' = "query" /\ notice' # <<>> /\ Batching' /\ 0 <= batchSizeMax'
          /\ batchSizeMax' <= 0 => start' <= 0
          /\ start' < Len(notice')
      BY <2>1, <2>4, <3>1, <3>5
    <3> QED  BY <3>4, <3>6 DEF LoopInv, EveryProductAsked, UncheckedWithoutBatches
  <2> QED  BY <1>2, <2>2, <2>3, <2>4 DEF Batch
<1>3. CASE QueryAnswered
  <2>1. /\ stringBytes' = stringBytes /\ pc = "query" /\ notice # <<>>
        /\ notice' = notice /\ batchSizeMax' = batchSizeMax /\ Batching' = Batching
    BY <1>0, <1>3 DEF QueryAnswered, LoopInv, Batching
  <2>2. CASE Batching
    <3>1. pc' = "batch" /\ start' = start + batchSizeMax
      BY <1>3, <2>2 DEF QueryAnswered
    <3>2. batchSizeMax >= 0 /\ (batchSizeMax <= 0 => start <= 0)
      BY <1>0, <2>1, <2>2 DEF LoopInv
    <3>3. batchSizeMax <= 0 => start' <= 0
      BY <3>1, <3>2, <1>n
    <3>4. \A i \in DOMAIN notice : i <= start + batchSizeMax => i \in UNION stringBytes
      BY <1>0, <2>1, <2>2 DEF LoopInv, Written
    <3> QED  BY <2>1, <2>2, <3>1, <3>3, <3>4
             DEF LoopInv, Written, EveryProductAsked, UncheckedWithoutBatches
  <2>3. CASE ~Batching
    <3>1. pc' = "filter" /\ start' = start /\ stringBytes = {DOMAIN notice}
      BY <1>0, <1>3, <2>1, <2>3 DEF QueryAnswered, LoopInv
    <3>2. batchSizeMax > 0
      BY <1>n, <2>1, <2>3
    <3> QED  BY <2>1, <2>3, <3>1, <3>2, <1>n
             DEF LoopInv, EveryProductAsked, UncheckedWithoutBatches
  <2> QED  BY <2>2, <2>3
<1>4. CASE QueryFailed
  BY <1>0, <1>4 DEF QueryFailed, LoopInv, EveryProductAsked, UncheckedWithoutBatches
<1>5. CASE Filter
  <2>1. /\ pc = "filter" /\ pc' \in {"done", "alert"} /\ start' = start
        /\ notice' = notice /\ batchSizeMax' = batchSizeMax
    BY <1>5 DEF Filter
  <2> QED  BY <2>1, <1>0 DEF LoopInv, EveryProductAsked, UncheckedWithoutBatches
<1>6. CASE SendAlert
  BY <1>0, <1>6 DEF SendAlert, LoopInv, EveryProductAsked, UncheckedWithoutBatches
<1>7. CASE UNCHANGED vars
  <2>1. Batching' = Batching /\ Written' = Written
    BY <1>7 DEF vars, Batching, Written
  <2> QED  BY <1>0, <1>7, <2>1
           DEF vars, LoopInv, EveryProductAsked, UncheckedWithoutBatches
<1> QED  BY <1>1, <1>2, <1>3, <1>4, <1>5, <1>6, <1>7 DEF Next

------------------------------------------------------------------------------
LEMMA FilterStep == IInv /\ [Next]_vars => FilterInv'
<1> SUFFICES ASSUME IInv, [Next]_vars PROVE FilterInv'
  OBVIOUS
<1> USE DEF inputVars
<1>0. TypeOK /\ LoopInv /\ FilterInv
  BY DEF IInv
<1>1. CASE Receive
  <2>1. /\ pc = "received"
        /\ pc' \in {"done", "batch", "query"}
        /\ pc' = "done" => notice = <<>>
        /\ notice' = notice /\ notWhitelisted' = notWhitelisted
        /\ whitelistedProductIDs' = whitelistedProductIDs
    BY <1>1 DEF Receive
  <2>2. notice = <<>> => ToSet(notice) = {}
    BY DEF ToSet
  <2> QED  BY <2>1, <2>2, <1>0 DEF FilterInv
<1>2. CASE Batch
  <2>1. /\ pc' \in {"filter", "panicked", "query"}
        /\ whitelistedProductIDs' = whitelistedProductIDs
        /\ Batching'
    BY <1>0, <1>2 DEF Batch, LoopInv, Batching
  <2> QED  BY <2>1, <1>0 DEF FilterInv
<1>3. CASE QueryAnswered
  <2>1. PICK products \in Answers :
          whitelistedProductIDs' = whitelistedProductIDs \cup products
    BY <1>3 DEF QueryAnswered
  <2>2. /\ pc = "query" /\ pc' \in {"batch", "filter"}
        /\ notice' = notice /\ Batching' = Batching
    BY <1>3 DEF QueryAnswered, Batching
  <2>3. products \subseteq Known
    BY DEF Answers
  <2>4. ASSUME ~Batching PROVE ToSet(notice) \cap Known \subseteq products
    <3>1. notice # <<>> /\ stringBytes = {DOMAIN notice}
      BY <1>0, <2>2, <2>4 DEF LoopInv
    <3>2. DOMAIN notice # {}
      BY <1>0, <3>1, NoticeFacts
    <3>3. WellFormed
      BY <3>1, <3>2 DEF WellFormed
    <3>4. Asked = ToSet(notice)
      <4>1. (UNION stringBytes) \cap DOMAIN notice = DOMAIN notice
        <5>1. UNION {DOMAIN notice} = DOMAIN notice
          OBVIOUS
        <5> QED  BY <3>1, <5>1
      <4> QED  BY <4>1 DEF Asked, ToSet
    <3> QED  BY <3>3, <3>4 DEF Answers
  <2> QED  BY <2>1, <2>2, <2>3, <2>4, <1>0 DEF FilterInv
<1>4. CASE QueryFailed
  BY <1>0, <1>4 DEF QueryFailed, FilterInv
<1>5. CASE Filter
  <2>1. /\ pc = "filter" /\ pc' \in {"done", "alert"}
        /\ notice' = notice /\ whitelistedProductIDs' = whitelistedProductIDs
        /\ Batching' = Batching
        /\ notWhitelisted' = ToSet(notice) \ whitelistedProductIDs
    BY <1>5 DEF Filter, NotIncluded, Batching
  <2> QED  BY <2>1, <1>0 DEF FilterInv
<1>6. CASE SendAlert
  <2>1. /\ pc = "alert" /\ pc' = "done"
        /\ notice' = notice /\ whitelistedProductIDs' = whitelistedProductIDs
        /\ notWhitelisted' = notWhitelisted /\ Batching' = Batching
    BY <1>6 DEF SendAlert, Batching
  <2> QED  BY <2>1, <1>0 DEF FilterInv
<1>7. CASE UNCHANGED vars
  <2>1. Batching' = Batching
    BY <1>7 DEF vars, Batching
  <2> QED  BY <1>0, <1>7, <2>1 DEF vars, FilterInv
<1> QED  BY <1>1, <1>2, <1>3, <1>4, <1>5, <1>6, <1>7 DEF Next

LEMMA Inductive == Spec => []IInv
<1>1. Init => LoopInv /\ FilterInv
  BY LoopInit DEF Init, FilterInv
<1>2. IInv /\ [Next]_vars /\ TypeOK' => IInv'
  BY LoopStep, FilterStep DEF IInv
<1>3. TypeOK /\ LoopInv /\ FilterInv <=> IInv
  BY DEF IInv
<1> QED  BY <1>1, <1>2, <1>3, TypeCorrect, PTL DEF Spec

------------------------------------------------------------------------------
\* However a notice is batched and whatever the service answers, a notice that is
\* processed to its end reports every unknown product (main.go:233).
THEOREM UnknownReported == Spec => []UnknownNeverPasses
<1>1. IInv => UnknownNeverPasses
  BY DEF IInv, FilterInv, UnknownNeverPasses, Unknown
<1> QED  BY <1>1, Inductive, PTL

\* A notice that needs no batches raises no false alarm (main.go:219).
THEOREM KnownNotReported == Spec => []NoFalseAlarm
<1>1. IInv => NoFalseAlarm
  BY DEF IInv, FilterInv, NoFalseAlarm, Unknown
<1> QED  BY <1>1, Inductive, PTL

\* The batches leave out no query of the notice (main.go:205).
THEOREM AllAsked == Spec => []EveryProductAsked
<1>1. IInv => EveryProductAsked
  BY DEF IInv, LoopInv
<1> QED  BY <1>1, Inductive, PTL

\* No notice is processed to its end with a batch size that is not positive, unless it is
\* empty (config.go:123).
THEOREM NeverUnchecked == Spec => []UncheckedWithoutBatches
<1>1. IInv => UncheckedWithoutBatches
  BY DEF IInv, LoopInv
<1> QED  BY <1>1, Inductive, PTL

------------------------------------------------------------------------------
(* The end of the loop.                                                            *)

LEMMA NearerStep ==
  ASSUME IInv, Next, batchSizeMax # 0
  PROVE  StepsLeft' \in 0 .. StepsLeft - 1
<1> DEFINE queries == IF start < Len(notice) THEN Len(notice) - start ELSE 0
<1>n. /\ Len(notice) \in Nat /\ start \in Int /\ batchSizeMax \in Int
      /\ notice # <<>> => Len(notice) >= 1
      /\ notice # <<>> /\ batchSizeMax <= 0 => Batching
      /\ queries \in Nat
  BY NoticeFacts DEF IInv, TypeOK
<1>i. LoopInv
  BY DEF IInv
<1>s. StepsLeft = CASE pc = "received" -> 2 * Len(notice) + 4
                    [] pc = "batch"    -> 2 * queries + 3
                    [] pc = "query"    -> 2 * queries + 2
                    [] pc = "filter"   -> 2
                    [] pc = "alert"    -> 1
                    [] OTHER           -> 0
  BY DEF StepsLeft
<1>t. notice' = notice
  BY DEF Next, Receive, Batch, QueryAnswered, QueryFailed, Filter, SendAlert, inputVars
<1>1. CASE Receive
  <2>1. /\ pc = "received" /\ pc' \in {"done", "batch", "query"} /\ start = 0 /\ start' = 0
    BY <1>1, <1>i DEF Receive, LoopInv
  <2>2. StepsLeft = 2 * Len(notice) + 4
    BY <1>s, <2>1
  <2>3. StepsLeft' \in {0, 2 * Len(notice) + 3, 2 * Len(notice) + 2}
    BY <1>n, <1>t, <2>1 DEF StepsLeft
  <2> QED  BY <1>n, <2>2, <2>3
<1>2. CASE Batch
  <2>1. pc = "batch" /\ pc' \in {"filter", "panicked", "query"} /\ start' = start
    BY <1>2 DEF Batch
  <2>2. StepsLeft = 2 * queries + 3
    BY <1>s, <2>1
  <2>3. StepsLeft' \in {0, 2, 2 * queries + 2}
    BY <1>t, <2>1 DEF StepsLeft
  <2> QED  BY <1>n, <2>2, <2>3
<1>3. CASE QueryAnswered
  <2>1. pc = "query" /\ start < Len(notice) /\ queries = Len(notice) - start
    BY <1>3, <1>i DEF QueryAnswered, LoopInv
  <2>2. StepsLeft = 2 * queries + 2
    BY <1>s, <2>1
  <2>3. CASE Batching
    <3>1. pc' = "batch" /\ start' = start + batchSizeMax /\ batchSizeMax > 0
      BY <1>3, <1>i, <1>n, <2>3 DEF QueryAnswered, LoopInv
    <3>2. StepsLeft' = 2 * queries' + 3
      BY <1>t, <3>1 DEF StepsLeft
    <3>3. queries' \in 0 .. queries - 1
      BY <1>n, <1>t, <2>1, <3>1
    <3> QED  BY <1>n, <2>2, <3>2, <3>3
  <2>4. CASE ~Batching
    <3>1. pc' = "filter" /\ start' = start
      BY <1>3, <2>4 DEF QueryAnswered
    <3>2. StepsLeft' = 2
      BY <3>1 DEF StepsLeft
    <3> QED  BY <1>n, <2>1, <2>2, <3>2
  <2> QED  BY <2>3, <2>4
<1>4. CASE QueryFailed
  <2>1. StepsLeft = 2 * queries + 2 /\ StepsLeft' = 0
    BY <1>4, <1>s DEF QueryFailed, StepsLeft
  <2> QED  BY <1>n, <2>1
<1>5. CASE Filter
  <2>1. StepsLeft = 2 /\ StepsLeft' \in {0, 1}
    BY <1>5, <1>s DEF Filter, StepsLeft
  <2> QED  BY <2>1
<1>6. CASE SendAlert
  <2>1. StepsLeft = 1 /\ StepsLeft' = 0
    BY <1>6, <1>s DEF SendAlert, StepsLeft
  <2> QED  BY <2>1
<1> QED  BY <1>1, <1>2, <1>3, <1>4, <1>5, <1>6 DEF Next

\* Unless the batch size is 0, the check of a notice takes at most 2 n + 4 steps for n
\* products, whatever the service answers: none leads back (main.go:205-222).
THEOREM NearerToTheEnd == Spec => ComesNearerToItsEnd
<1> DEFINE Nearer == batchSizeMax # 0 => StepsLeft' \in 0 .. StepsLeft - 1
<1>1. IInv /\ [Next]_vars => [Nearer]_vars
  BY NearerStep
<1> QED  BY <1>1, Inductive, PTL DEF ComesNearerToItsEnd, Spec

------------------------------------------------------------------------------
(* The implementation of NoticeCheck.                                              *)

\* Nothing is reported and no alert given to the channel before the stage is over that
\* does it.
StageInv ==
  /\ Stage \in {"open", "abandoned"} => notWhitelisted = {}
  /\ pc # "done" => posted = NoAlert
  /\ pc = "alert" => notWhitelisted # {}

LEMMA StageStep == IInv /\ StageInv /\ [Next]_vars => StageInv'
<1> SUFFICES ASSUME StageInv, [Next]_vars PROVE StageInv'
  OBVIOUS
<1> USE DEF StageInv, Stage, inputVars
<1>1. CASE Receive
  BY <1>1 DEF Receive
<1>2. CASE Batch
  BY <1>2 DEF Batch
<1>3. CASE QueryAnswered
  BY <1>3 DEF QueryAnswered
<1>4. CASE QueryFailed
  BY <1>4 DEF QueryFailed
<1>5. CASE Filter
  BY <1>5 DEF Filter
<1>6. CASE SendAlert
  BY <1>6 DEF SendAlert
<1>7. CASE UNCHANGED vars
  BY <1>7 DEF vars
<1> QED  BY <1>1, <1>2, <1>3, <1>4, <1>5, <1>6, <1>7 DEF Next

\* A step of the check is a judgement, a report, or the end without one; what leads
\* there is not seen.
LEMMA StepsCheck ==
  ASSUME IInv, StageInv, [Next]_vars
  PROVE  [Check!Next]_(Check!vars)
<1> USE DEF inputVars, Check!vars
<1>0. LoopInv /\ FilterInv
  BY DEF IInv
<1>1. CASE Receive
  <2>1. CASE notice = <<>>
    <3>1. /\ Stage = "open" /\ Stage' = "closed"
          /\ notWhitelisted = {} /\ notWhitelisted' = {}
          /\ ToSet(notice)' = ToSet(notice) /\ Batching' = Batching /\ posted' = posted
      BY <1>1, <2>1 DEF Receive, Stage, StageInv, Batching
    <3>2. ToSet(notice) = {}
      BY <2>1 DEF ToSet
    <3>3. {} \in Check!Verdicts
      BY <3>2 DEF Check!Verdicts
    <3> QED  BY <3>1, <3>3 DEF Check!Next, Check!Judge
  <2>2. CASE notice # <<>>
    BY <1>1, <2>2 DEF Receive, Stage, Batching
  <2> QED  BY <2>1, <2>2
<1>2. CASE Batch
  <2>1. CASE pc' = "panicked"
    BY <1>2, <2>1 DEF Batch, Stage, Batching, Check!Next, Check!Abandon
  <2>2. CASE pc' # "panicked"
    BY <1>2, <2>2 DEF Batch, Stage, Batching
  <2> QED  BY <2>1, <2>2
<1>3. CASE QueryAnswered
  BY <1>3 DEF QueryAnswered, Stage, Batching
<1>4. CASE QueryFailed
  BY <1>4 DEF QueryFailed, Stage, Batching, Check!Next, Check!Abandon
<1>5. CASE Filter
  <2>1. /\ Stage = "open"
        /\ Stage' = IF notWhitelisted' = {} THEN "closed" ELSE "reporting"
        /\ notWhitelisted' = ToSet(notice) \ whitelistedProductIDs
        /\ ToSet(notice)' = ToSet(notice) /\ Batching' = Batching /\ posted' = posted
    BY <1>5 DEF Filter, NotIncluded, Stage, Batching
  <2>2. /\ whitelistedProductIDs \subseteq Known
        /\ ~Batching => ToSet(notice) \cap Known \subseteq whitelistedProductIDs
    BY <1>0, <1>5 DEF Filter, FilterInv
  <2>3. notWhitelisted' \in Check!Verdicts
    BY <2>1, <2>2 DEF Check!Verdicts
  <2> QED  BY <2>1, <2>3 DEF Check!Next, Check!Judge
<1>6. CASE SendAlert
  <2>1. /\ Stage = "reporting" /\ Stage' = "closed" /\ posted = NoAlert
        /\ ToSet(notice)' = ToSet(notice) /\ Batching' = Batching
        /\ notWhitelisted' = notWhitelisted
    BY <1>6 DEF SendAlert, Stage, StageInv, Batching
  <2>2. ProcessAlert(NotWhitelistedAlert(notWhitelisted)).alert_number = 0
    BY DEF ProcessAlert, NotWhitelistedAlert, Envelope, Field, Alert
  <2>3. ProcessAlert(NotWhitelistedAlert(notWhitelisted)) # NoAlert
    BY <2>2 DEF NoAlert
  <2>4. (posted # NoAlert)' = SendNotWhitelistedAlert
    <3>1. CASE SendNotWhitelistedAlert = TRUE
      BY <1>6, <2>3, <3>1 DEF SendAlert, NoAlert
    <3>2. CASE SendNotWhitelistedAlert = FALSE
      BY <1>6, <2>1, <3>2 DEF SendAlert, NoAlert
    <3> QED  BY <3>1, <3>2, NoticeAssumption
  <2> QED  BY <2>1, <2>4 DEF Check!Next, Check!Report
<1>7. CASE UNCHANGED vars
  BY <1>7 DEF vars, Stage, Batching
<1> QED  BY <1>1, <1>2, <1>3, <1>4, <1>5, <1>6, <1>7 DEF Next

\* Whatever the batches ask and the service answers, a notice is judged once and as a
\* whole, every unknown product is in the judgement, and an alert is raised exactly for one
\* that is not empty (main.go:179-276).
THEOREM RefinesCheck == Spec => ImplementsCheck
<1>1. Init => Check!Init /\ StageInv
  <2> SUFFICES ASSUME Init PROVE Check!Init /\ StageInv
    OBVIOUS
  <2>1. ToSet(notice) \in SUBSET ProductIds
    <3>1. PICK m \in 0 .. MaxItems : notice \in [1 .. m -> ProductIds]
      BY DEF Init, BoundedSeq, SeqOf
    <3> QED  BY <3>1 DEF ToSet
  <2>2. StageInv
    BY DEF Init, StageInv, Stage
  <2>3. Stage = "open" /\ (posted # NoAlert) = FALSE /\ notWhitelisted = {}
    BY DEF Init, Stage
  <2>4. (~Batching) \in BOOLEAN
    BY DEF Batching
  <2> QED  BY <2>1, <2>2, <2>3, <2>4 DEF Check!Init
<1>2. IInv /\ StageInv /\ [Next]_vars => StageInv' /\ [Check!Next]_(Check!vars)
  BY StageStep, StepsCheck
<1> QED  BY <1>1, <1>2, Inductive, PTL DEF ImplementsCheck, Check!Spec, Spec

==============================================================================

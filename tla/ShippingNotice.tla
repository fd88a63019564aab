--------------------------- MODULE ShippingNotice ---------------------------
(***************************************************************************)
(* processShippingNotice of main.go: the product ids of an Advance         *)
(* Shipping Notice are looked up at the product data service, in batches   *)
(* if there are many, and those it does not know are reported in an alert. *)
(*                                                                         *)
(* A notice shares nothing with other notices, so one is followed from its *)
(* decoded form to its end.  A query is known by its position in the       *)
(* notice.  The product data service is modelled by its contract: to a     *)
(* well-formed filter it answers with the products it knows among those    *)
(* asked for, and any that are listed with them; a malformed one it        *)
(* rejects, or answers with any products it knows; any call may fail.      *)
(***************************************************************************)
EXTENDS AlertMessage, Integers, Sequences, SequencesExt

CONSTANTS ProductIds,
          Known,           \* those the product data service knows
          BatchSizes,      \* config: values that batchSizeMax may have
          SendNotWhitelistedAlert,      \* config
          MaxItems         \* bound: product ids in a notice

\* The configuration puts no bound on batchSizeMax (config.go:123).
ASSUME NoticeAssumption ==
  /\ Known \subseteq ProductIds
  /\ BatchSizes \subseteq Int
  /\ SendNotWhitelistedAlert \in BOOLEAN
  /\ MaxItems \in Nat

VARIABLES batchSizeMax, \* config, constant once read
          notice,       \* the product ids of the notice, extracted in order
          pc,           \* where processShippingNotice is
          start,        \* first query of the next batch, from 0
          stringBytes,  \* the filter: the positions that each write to it wrote
          whitelistedProductIDs,
          notWhitelisted,
          posted,       \* the alert given to the notification channel
          outage        \* the product data service failed a well-formed call

inputVars == <<batchSizeMax, notice>>
vars == <<inputVars, pc, start, stringBytes, whitelistedProductIDs,
          notWhitelisted, posted, outage>>

Returned == {"done", "failed", "panicked"}
Points   == {"received", "batch", "query", "filter", "alert"} \cup Returned

NoAlert  == [alert_number |-> -1, optional |-> NoData]
NotWhitelisted == 401

Batching == Len(notice) > batchSizeMax

Init ==
  /\ batchSizeMax \in BatchSizes
  /\ notice \in BoundedSeq(ProductIds, MaxItems)
  /\ pc = "received"
  /\ start = 0
  /\ stringBytes = {}
  /\ whitelistedProductIDs = {}
  /\ notWhitelisted = {}
  /\ posted = NoAlert
  /\ outage = FALSE

------------------------------------------------------------------------------
\* append() doubles the capacity of a []string: the least power of two that holds
\* n queries.
CapOf(n) == CHOOSE c \in {2 ^ k : k \in 0 .. n} : n <= c /\ 2 * n > c

\* oDataQuery[start : start + batchSizeMax].  Go checks the bounds against the
\* capacity; the positions past the length hold empty strings.
SliceInBounds == 0 <= batchSizeMax /\ start + batchSizeMax <= CapOf(Len(notice))
Slice         == start + 1 .. start + batchSizeMax

\* Mutant of Receive: the last query is left out.
ReceiveWithoutLast ==
  /\ pc = "received"
  /\ pc' = IF notice = <<>> THEN "done" ELSE IF Batching THEN "batch" ELSE "query"
  /\ stringBytes' = IF pc' = "query" THEN {1 .. Len(notice) - 1} ELSE stringBytes
  /\ UNCHANGED <<inputVars, start, whitelistedProductIDs, notWhitelisted, posted, outage>>

Receive ==
  /\ pc = "received"
  /\ \/ /\ notice = <<>>
        /\ pc' = "done"
        /\ UNCHANGED stringBytes
     \/ /\ notice # <<>> /\ Batching
        /\ pc' = "batch"
        /\ UNCHANGED stringBytes
     \/ /\ notice # <<>> /\ ~Batching
        /\ pc' = "query"
        /\ stringBytes' = {DOMAIN notice}
  /\ UNCHANGED <<inputVars, start, whitelistedProductIDs, notWhitelisted, posted, outage>>

\* The head of the batch loop.  The buffer is written to and never reset.
Batch ==
  /\ pc = "batch"
  /\ \/ /\ start >= Len(notice)
        /\ pc' = "filter"
        /\ UNCHANGED stringBytes
     \/ /\ start < Len(notice) /\ ~SliceInBounds
        /\ pc' = "panicked"
        /\ UNCHANGED stringBytes
     \/ /\ start < Len(notice) /\ SliceInBounds
        /\ pc' = "query"
        /\ stringBytes' = stringBytes \cup {Slice}
  /\ UNCHANGED <<inputVars, start, whitelistedProductIDs, notWhitelisted, posted, outage>>

------------------------------------------------------------------------------
\* The terms of one write are joined by " or "; between two writes there is nothing.
WellFormed == \E written \in SUBSET DOMAIN notice :
                 written # {} /\ stringBytes = {written}

Asked == {notice[i] : i \in (UNION stringBytes) \cap DOMAIN notice}

Answers ==
  {products \in SUBSET Known : WellFormed => Asked \cap Known \subseteq products}

\* Mutants of QueryAnswered: the loop skips a query, or never advances.
QueryAnsweredSkipsOne ==
  /\ pc = "query"
  /\ \E products \in Answers :
       whitelistedProductIDs' = whitelistedProductIDs \cup products
  /\ IF Batching
     THEN pc' = "batch" /\ start' = start + batchSizeMax + 1
     ELSE pc' = "filter" /\ UNCHANGED start
  /\ UNCHANGED <<inputVars, stringBytes, notWhitelisted, posted, outage>>

QueryAnsweredStays ==
  /\ pc = "query"
  /\ \E products \in Answers :
       whitelistedProductIDs' = whitelistedProductIDs \cup products
  /\ pc' = IF Batching THEN "batch" ELSE "filter"
  /\ UNCHANGED <<inputVars, start, stringBytes, notWhitelisted, posted, outage>>

\* MakeGetCallToSkuMapping returns the products of a 200.
QueryAnswered ==
  /\ pc = "query"
  /\ \E products \in Answers :
       whitelistedProductIDs' = whitelistedProductIDs \cup products
  /\ IF Batching
     THEN pc' = "batch" /\ start' = start + batchSizeMax
     ELSE pc' = "filter" /\ UNCHANGED start
  /\ UNCHANGED <<inputVars, stringBytes, notWhitelisted, posted, outage>>

\* Mutant: a call that failed is made again.
QueryFailedRetries ==
  /\ pc = "query"
  /\ outage' \in {TRUE, WellFormed}
  /\ UNCHANGED <<inputVars, pc, start, stringBytes, whitelistedProductIDs, notWhitelisted,
                 posted>>

\* It returns an error: the call times out or breaks off, or the service rejects it.
QueryFailed ==
  /\ pc = "query"
  /\ pc' = "failed"
  /\ outage' \in {TRUE, WellFormed}
  /\ UNCHANGED <<inputVars, start, stringBytes, whitelistedProductIDs, notWhitelisted, posted>>

------------------------------------------------------------------------------
\* Mutant of Filter: an id that occurs twice is dropped, not kept once.
FilterDropsRepeated ==
  /\ pc = "filter"
  /\ notWhitelisted' = {notice[i] : i \in {j \in DOMAIN notice :
       /\ notice[j] \notin whitelistedProductIDs
       /\ \A k \in DOMAIN notice \ {j} : notice[k] # notice[j]}}
  /\ pc' = IF notWhitelisted' = {} THEN "done" ELSE "alert"
  /\ UNCHANGED <<inputVars, start, stringBytes, whitelistedProductIDs, posted, outage>>

\* utils.Filter with utils.Include, and utils.RemoveDuplicates of what it keeps.
NotIncluded(ids, in) == ToSet(ids) \ in

\* Mutant of Filter: an alert is generated for an empty list, too.
FilterAlwaysAlerts ==
  /\ pc = "filter"
  /\ notWhitelisted' = NotIncluded(notice, whitelistedProductIDs)
  /\ pc' = "alert"
  /\ UNCHANGED <<inputVars, start, stringBytes, whitelistedProductIDs, posted, outage>>

Filter ==
  /\ pc = "filter"
  /\ notWhitelisted' = NotIncluded(notice, whitelistedProductIDs)
  /\ pc' = IF notWhitelisted' = {} THEN "done" ELSE "alert"
  /\ UNCHANGED <<inputVars, start, stringBytes, whitelistedProductIDs, posted, outage>>

\* asn.GenerateNotWhitelistedAlert: the alert in its envelope.
NotWhitelistedAlert(ids) ==
  Envelope("advancedshippingnotice", Alert(NotWhitelisted, ids))

\* Mutant of SendAlert: the envelope is posted as it is.
SendAlertUndecoded ==
  /\ pc = "alert"
  /\ pc' = "done"
  /\ posted' = IF SendNotWhitelistedAlert
               THEN NotWhitelistedAlert(notWhitelisted)
               ELSE posted
  /\ UNCHANGED <<inputVars, start, stringBytes, whitelistedProductIDs, notWhitelisted, outage>>

\* ProcessAlert gets the bytes of the envelope.
SendAlert ==
  /\ pc = "alert"
  /\ pc' = "done"
  /\ posted' = IF SendNotWhitelistedAlert
               THEN ProcessAlert(NotWhitelistedAlert(notWhitelisted))
               ELSE posted
  /\ UNCHANGED <<inputVars, start, stringBytes, whitelistedProductIDs, notWhitelisted, outage>>

Next == Receive \/ Batch \/ QueryAnswered \/ QueryFailed \/ Filter \/ SendAlert

Spec == Init /\ [][Next]_vars

\* The invocation runs on, and the client's timeout ends every call.
FairSpec == Spec /\ WF_vars(Next)

------------------------------------------------------------------------------
\* The variables have their types; what is posted is a models.Alert.
TypeOK ==
  /\ batchSizeMax \in BatchSizes
  /\ notice \in Seq(ProductIds)
  /\ pc \in Points
  /\ start \in Int
  /\ stringBytes \subseteq SUBSET Int
  /\ whitelistedProductIDs \subseteq ProductIds
  /\ notWhitelisted \subseteq ProductIds
  /\ DOMAIN posted = {"alert_number", "optional"}
  /\ outage \in BOOLEAN

Unknown == ToSet(notice) \ Known

\* However the notice is batched and whatever the service answers to a malformed
\* filter, a notice that is processed to its end reports every unknown product
\* (main.go:233).
UnknownNeverPasses == pc = "done" => Unknown \subseteq notWhitelisted

\* A notice that needs no batches raises no false alarm: what it reports, the service
\* does not know (main.go:219).
NoFalseAlarm == pc = "done" /\ ~Batching => notWhitelisted \subseteq Unknown

\* The batches leave no query of the notice out: when the loop ends, each has been
\* written to the filter (main.go:205).
EveryProductAsked == pc = "filter" => DOMAIN notice \subseteq UNION stringBytes

\* A batch size that InitConfig should have refused is never taken for a check: with a
\* size of 0 or less a notice is processed to its end only if it is empty (config.go:123,
\* main.go:203).
UncheckedWithoutBatches ==
  batchSizeMax <= 0 /\ pc \in {"filter", "alert", "done"} => notice = <<>>

\* A notice is not processed forever unless the batch size is 0: the loop over the
\* batches ends, by its guard, by an error or by a panic (main.go:205).
Returns == batchSizeMax # 0 => <>(pc \in Returned)

\* Steps that are left at most: each batch brings the loop nearer to the last query.
StepsLeft ==
  LET queries == IF start < Len(notice) THEN Len(notice) - start ELSE 0
  IN  CASE pc = "received" -> 2 * Len(notice) + 4
        [] pc = "batch"    -> 2 * queries + 3
        [] pc = "query"    -> 2 * queries + 2
        [] pc = "filter"   -> 2
        [] pc = "alert"    -> 1
        [] OTHER           -> 0

\* The safety behind Returns: unless the batch size is 0, every step leaves fewer steps to
\* make, so that a notice costs at most as many calls of the product data service as it
\* has products, whatever the service answers (main.go:205-222).
ComesNearerToItsEnd == [][batchSizeMax # 0 => StepsLeft' \in 0 .. StepsLeft - 1]_vars

Stage ==
  CASE pc = "alert" -> "reporting"
    [] pc = "done"  -> "closed"
    [] pc \in {"failed", "panicked"} -> "abandoned"
    [] OTHER -> "open"

Check == INSTANCE NoticeCheck WITH
  ids      <- ToSet(notice),
  exact    <- ~Batching,
  state    <- Stage,
  reported <- notWhitelisted,
  alerted  <- posted # NoAlert

\* Through the batches and their errors a notice is judged once and as a whole, and an
\* alert is raised exactly if it found something: it implements NoticeCheck
\* (main.go:179-276).
ImplementsCheck == Check!Spec

\* Alert-service.yml:34 says that "the service will check ASNs for product IDs that
\* aren't whitelisted ... and send alerts when any are detected": the check of a
\* notice fails only if the product data service does.
EveryNoticeChecked == pc \in {"failed", "panicked"} => outage

\* README.md:21 says that the service verifies the products of a notice and "sends
\* alerts for any that aren't whitelisted": an alert that is sent says which they are.
AlertNamesProducts == posted # NoAlert => posted.optional = notWhitelisted

==============================================================================

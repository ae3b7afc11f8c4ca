-------------------------- MODULE EventFilterProof --------------------------
(***************************************************************************)
(* Proofs that a subscription gets exactly the logs it asks for, for any   *)
(* requests, blocks and number of topics.                                  *)
(***************************************************************************)
EXTENDS EventFilter, SequenceTheorems, TLAPS

(***************************************************************************)
(* What fromJson has read so far.  Position i of the topics is held in     *)
(* m_topics, or beyond its end and then empty.                             *)
(***************************************************************************)
Held(i) == IF i <= Len(topics) THEN topics[i] ELSE {}

AddressesRead ==
    stage \in {"topics", "parsed", "matching"} =>
        addresses = IF request.addresses.kind = "array"
                      THEN {AddressText(t) : t \in request.addresses.texts} ELSE {}

TopicsRead ==
    \A i \in 1..EVENT_LOG_TOPICS_MAX_INDEX :
        Held(i) = IF i <= index THEN TopicTexts(request.topics[i]) ELSE {}

AllRead == stage \in {"parsed", "matching"} => index = Len(request.topics)

\* Every row is of a log already matched, so that the next row comes after it.
RowsVisited ==
    stage = "matching" =>
        \A k \in 1..Len(result) : Visited(result[k].transactionIndex, result[k].logIndex)

ParseInv == TypeOK /\ AddressesRead /\ TopicsRead /\ AllRead

\* The inductive invariant.
FInv == ParseInv /\ RowsVisited /\ OnlyWantedPushed /\ AllWantedPushed /\ RowsInBlockOrder

----------------------------------------------------------------------------
(***************************************************************************)
(* The texts.                                                              *)
(***************************************************************************)
\* What fromJson stores is a text that stands for the same number.
LEMMA TextsKept ==
    ASSUME NEW t \in Texts
    PROVE  /\ AddressText(t) = Hex(t.digits) /\ AddressText(t) \in Texts
           /\ TopicText(t) \in Texts /\ TopicText(t).digits = t.digits
           /\ t.prefix # "0X" => TopicText(t) = Hex(t.digits)
<1>2. [t EXCEPT !.prefix = "none"] = [digits |-> t.digits, prefix |-> "none", upper |-> t.upper]
  BY DEF Texts
<1>3. [t EXCEPT !.prefix = "none"] \in Texts /\ t.digits \in Digits
  BY DEF Texts
<1>4. AddressText(t) = Hex(t.digits)
  BY <1>2, <1>3 DEF AddressText, ToLower, Hex
<1>5. CASE t.prefix = "0x"
  BY <1>2, <1>3, <1>4, <1>5 DEF TopicText, ToLower, Hex, Texts
<1>6. CASE t.prefix = "0X"
  <2>1. TopicText(t) = [digits |-> t.digits, upper |-> FALSE, prefix |-> "0x"]
    BY <1>6 DEF TopicText, ToLower
  <2>. QED BY <1>3, <1>4, <1>6, <2>1 DEF Hex, Texts
<1>7. CASE t.prefix = "none"
  <2>1. TopicText(t) = Hex(t.digits)
    BY <1>7 DEF TopicText, ToLower, Hex
  <2>. QED BY <1>3, <1>4, <2>1 DEF Hex, Texts
<1>. QED BY <1>5, <1>6, <1>7 DEF Texts

LEMMA HexDigits ==
    ASSUME NEW d \in Digits
    PROVE  Hex(d) \in Texts /\ Hex(d).digits = d
BY DEF Hex, Texts

\* The entries of a request.
LEMMA EntryTypes ==
    ASSUME TypeOK
    PROVE  /\ request.addresses \in Entries
           /\ \A i \in 1..Len(request.topics) : request.topics[i] \in Entries
           /\ request.topics \in Seq(Entries)
           /\ Len(request.topics) \in Nat
<1>1. request \in AllRequests
  BY FilterAssumption DEF TypeOK
<1>2. request.addresses \in Entries /\ request.topics \in Seq(Entries)
  BY <1>1 DEF AllRequests
<1>. QED BY <1>2

LEMMA EntryTexts ==
    ASSUME NEW entry \in Entries
    PROVE  /\ entry.texts \subseteq Texts
           /\ TopicTexts(entry) \subseteq Texts
           /\ TopicTexts(entry) = {} <=> entry.texts = {}
           /\ entry.kind \in {"null", "other", "array", "string"}
           /\ entry.kind \in {"null", "other"} => entry.texts = {}
<1>1. /\ entry.texts \subseteq Texts
      /\ entry.kind \in {"null", "other", "array", "string"}
      /\ entry.kind \in {"null", "other"} => entry.texts = {}
  BY DEF Entries
<1>2. \A t \in entry.texts : TopicText(t) \in Texts
  BY <1>1, TextsKept
<1>. QED BY <1>1, <1>2 DEF TopicTexts

\* A number the matcher finds among the stored topics is one the entry asks for.
LEMMA StoredIsAsked ==
    ASSUME NEW entry \in Entries, NEW d \in Digits, Hex(d) \in TopicTexts(entry)
    PROVE  Asks(entry, d)
<1>1. PICK t \in entry.texts : Hex(d) = t \/ Hex(d) = TopicText(t)
  BY DEF TopicTexts
<1>2. t \in Texts
  BY EntryTexts
<1>3. t.digits = d
  BY <1>1, <1>2, TextsKept, HexDigits
<1>. QED BY <1>3 DEF Asks

\* A number that an entry asks for in a spelling that is understood is found.
LEMMA AskedIsStored ==
    ASSUME NEW entry \in Entries, Understood(entry), NEW d \in Digits, Asks(entry, d)
    PROVE  Hex(d) \in TopicTexts(entry)
<1>1. PICK t \in entry.texts : t.digits = d
  BY DEF Asks
<1>2. t \in Texts /\ entry.kind \in {"array", "string"}
  BY EntryTexts
<1>3. CASE entry.kind = "array"
  <2>1. TopicText(t) = Hex(d)
    BY <1>1, <1>2, <1>3, TextsKept DEF Understood
  <2>. QED BY <1>3, <2>1 DEF TopicTexts
<1>4. CASE entry.kind = "string"
  <2>1. t = Hex(d)
    BY <1>1, <1>2, <1>4 DEF Understood, Hex, Texts
  <2>. QED BY <1>4, <2>1 DEF TopicTexts
<1>. QED BY <1>2, <1>3, <1>4

----------------------------------------------------------------------------
(***************************************************************************)
(* The matcher, once the request is read.                                  *)
(***************************************************************************)
LEMMA LogTypes ==
    ASSUME NEW log \in Logs
    PROVE  /\ log.address \in Digits
           /\ Len(log.topics) \in Nat
           /\ \A i \in 1..Len(log.topics) : log.topics[i] \in Digits
BY DEF Logs

LEMMA AddressMatches ==
    ASSUME ParseInv, stage = "matching", NEW log \in Logs
    PROVE  (addresses = {} \/ Hex(log.address) \in addresses) <=> WantsAddress(log)
<1>1. request.addresses \in Entries
  BY EntryTypes DEF ParseInv
<1>2. CASE request.addresses.kind # "array"
  BY <1>2 DEF ParseInv, AddressesRead, WantsAddress
<1>3. CASE request.addresses.kind = "array"
  <2>1. addresses = {AddressText(t) : t \in request.addresses.texts}
    BY <1>3 DEF ParseInv, AddressesRead
  <2>2. \A t \in request.addresses.texts :
          AddressText(t) = Hex(t.digits) /\ t.digits \in Digits
    BY <1>1, EntryTexts, TextsKept DEF Texts
  <2>3. \A d, e \in Digits : Hex(d) = Hex(e) <=> d = e
    BY HexDigits
  <2>4. Hex(log.address) \in addresses <=> Asks(request.addresses, log.address)
    BY <2>1, <2>2, <2>3, LogTypes DEF Asks
  <2>. QED BY <1>3, <2>1, <2>4 DEF WantsAddress
<1>. QED BY <1>2, <1>3

LEMMA TopicMatches ==
    ASSUME ParseInv, stage = "matching", NEW log \in Logs,
           NEW i \in 1..EVENT_LOG_TOPICS_MAX_INDEX
    PROVE  /\ MatchesTopic(log, i) => WantsTopic(log, i)
           /\ TopicsUnderstood /\ WantsTopic(log, i) => MatchesTopic(log, i)
<1>1. index = Len(request.topics) /\ index \in Nat /\ i \in Nat /\ i >= 1
  BY EntryTypes, MaxIndexAssumption DEF ParseInv, AllRead
<1>2. Held(i) = IF i <= index THEN TopicTexts(request.topics[i]) ELSE {}
  BY DEF ParseInv, TopicsRead
<1>3. MatchesTopic(log, i) <=>
        Held(i) = {} \/ (i <= Len(log.topics) /\ Hex(log.topics[i]) \in Held(i))
  <2>1. Len(topics) \in Nat
    BY DEF ParseInv, TypeOK
  <2>. QED BY <1>1, <2>1 DEF MatchesTopic, Held
<1>4. CASE i > index
  BY <1>1, <1>2, <1>3, <1>4 DEF WantsTopic
<1>5. CASE i <= index
  <2>1. request.topics[i] \in Entries /\ Held(i) = TopicTexts(request.topics[i])
    BY <1>1, <1>2, <1>5, EntryTypes DEF ParseInv
  <2>2. Held(i) = {} <=> request.topics[i].texts = {}
    BY <2>1, EntryTexts
  <2>3. i <= Len(log.topics) => log.topics[i] \in Digits
    BY <1>1, LogTypes
  <2>4. i <= Len(log.topics) /\ Hex(log.topics[i]) \in Held(i)
          => Asks(request.topics[i], log.topics[i])
    BY <2>1, <2>3, StoredIsAsked
  <2>5. i <= Len(log.topics) /\ TopicsUnderstood /\ Asks(request.topics[i], log.topics[i])
          => Hex(log.topics[i]) \in Held(i)
    BY <1>1, <1>5, <2>1, <2>3, AskedIsStored DEF TopicsUnderstood
  <2>. QED BY <1>1, <1>3, <1>5, <2>2, <2>4, <2>5 DEF WantsTopic
<1>. QED BY <1>1, <1>4, <1>5

LEMMA MatchesIsWants ==
    ASSUME ParseInv, stage = "matching", NEW log \in Logs
    PROVE  /\ Matches(log) => Wants(log)
           /\ TopicsUnderstood /\ Wants(log) => Matches(log)
BY AddressMatches, TopicMatches DEF Matches, Wants

----------------------------------------------------------------------------
(***************************************************************************)
(* fromJson.                                                               *)
(***************************************************************************)
\* addTopic fills one position and leaves the others as they are.
LEMMA AddTopicHeld ==
    ASSUME TypeOK, TopicsRead, NEW ts \in SUBSET Texts, NEW i \in Nat, index = i,
           topics' = AddTopic(i, ts)
    PROVE  /\ topics' \in Seq(SUBSET Texts)
           /\ Len(topics') <= EVENT_LOG_TOPICS_MAX_INDEX
           /\ \A j \in 1..EVENT_LOG_TOPICS_MAX_INDEX :
                Held(j)' = IF j = i + 1 THEN ts ELSE Held(j)
<1>4. EVENT_LOG_TOPICS_MAX_INDEX \in Nat
  BY MaxIndexAssumption
<1>0. topics \in Seq(SUBSET Texts) /\ Len(topics) \in Nat
      /\ Len(topics) <= EVENT_LOG_TOPICS_MAX_INDEX
  BY DEF TypeOK
<1>1. \A j \in 1..EVENT_LOG_TOPICS_MAX_INDEX : j > i => Held(j) = {}
  BY DEF TopicsRead
<1>2. CASE i >= EVENT_LOG_TOPICS_MAX_INDEX \/ ts = {}
  <2>1. topics' = topics
    BY <1>2 DEF AddTopic
  <2>2. \A j \in 1..EVENT_LOG_TOPICS_MAX_INDEX : j = i + 1 => ts = {} /\ Held(j) = {}
    BY <1>1, <1>2, <1>4
  <2>. QED BY <1>0, <2>1, <2>2 DEF Held
<1>3. CASE ~(i >= EVENT_LOG_TOPICS_MAX_INDEX \/ ts = {})
  <2>. DEFINE t(j) == (IF j <= Len(topics) THEN topics[j] ELSE {})
                        \cup (IF j = i + 1 THEN ts ELSE {})
  <2>1. topics' = [j \in 1..(i + 1) |-> t(j)]
    BY <1>3 DEF AddTopic
  <2>2. \A j \in 1..(i + 1) : t(j) \in SUBSET Texts
    BY <1>0
  <2>3. topics' \in Seq(SUBSET Texts) /\ Len(topics') = i + 1
    BY <2>1, <2>2
  <2>4. ASSUME NEW j \in 1..EVENT_LOG_TOPICS_MAX_INDEX
        PROVE  Held(j)' = IF j = i + 1 THEN ts ELSE Held(j)
    <3>1. CASE j <= i + 1
      <4>1. Held(j)' = t(j)
        BY <2>1, <2>3, <3>1 DEF Held
      <4>2. t(j) = Held(j) \cup (IF j = i + 1 THEN ts ELSE {})
        BY DEF Held
      <4>. QED BY <1>1, <4>1, <4>2
    <3>2. CASE j > i + 1
      <4>1. Held(j) = {} /\ j # i + 1 /\ ~(j <= i + 1)
        BY <1>1, <1>4, <3>2
      <4>2. Held(j)' = {}
        BY <2>3, <4>1 DEF Held
      <4>. QED BY <4>1, <4>2
    <3>. QED BY <1>4, <3>1, <3>2
  <2>. QED BY <1>3, <1>4, <2>3, <2>4
<1>. QED BY <1>2, <1>3

LEMMA ParseInit == Init => ParseInv
<1>. SUFFICES ASSUME Init PROVE ParseInv
  OBVIOUS
<1>1. TypeOK
  <2>1. Len(request.topics) \in Nat
    BY FilterAssumption DEF Init, AllRequests
  <2>. QED BY <2>1, MaxIndexAssumption DEF Init, TypeOK
<1>2. TopicsRead
  BY MaxIndexAssumption DEF Init, TopicsRead, Held
<1>. QED BY <1>1, <1>2 DEF Init, ParseInv, AddressesRead, AllRead

\* Steps that leave the request and what was read of it alone.
LEMMA ParseStutter ==
    ASSUME ParseInv, UNCHANGED requestVars, TypeOK',
           stage' = "refused" \/ stage' = stage
             \/ (stage \in {"parsed", "matching"} /\ stage' \in {"parsed", "matching"})
             \/ (stage = "topics" /\ index = Len(request.topics) /\ stage' = "parsed")
    PROVE  ParseInv'
<1>1. TopicsRead'
  BY DEF ParseInv, TopicsRead, Held, requestVars
<1>2. AddressesRead'
  BY DEF ParseInv, AddressesRead, requestVars
<1>3. AllRead'
  BY DEF ParseInv, AllRead, requestVars
<1>. QED BY <1>1, <1>2, <1>3 DEF ParseInv

LEMMA FromJsonParse == ParseInv /\ FromJson => ParseInv'
<1>. SUFFICES ASSUME ParseInv, FromJson PROVE ParseInv'
  OBVIOUS
<1>1. CASE ReadAddresses
  <2>1. addresses' \subseteq Texts
    <3>1. \A t \in request.addresses.texts : AddressText(t) \in Texts
      BY EntryTypes, EntryTexts, TextsKept DEF ParseInv
    <3>. QED BY <1>1, <3>1 DEF ReadAddresses
  <2>2. TypeOK'
    BY <1>1, <2>1 DEF ReadAddresses, ParseInv, TypeOK
  <2>3. TopicsRead'
    BY <1>1 DEF ReadAddresses, ParseInv, TopicsRead, Held
  <2>. QED BY <1>1, <2>2, <2>3 DEF ReadAddresses, ParseInv, AddressesRead, AllRead
<1>2. CASE ReadTopic
  <2>1. index \in Nat /\ index + 1 \in 1..Len(request.topics) /\ Len(request.topics) \in Nat
    BY <1>2, EntryTypes DEF ReadTopic, ParseInv, TypeOK
  <2>2. Entry \in Entries /\ TopicTexts(Entry) \in SUBSET Texts
    BY <2>1, EntryTypes, EntryTexts DEF Entry, ParseInv
  <2>3. /\ topics' \in Seq(SUBSET Texts)
        /\ Len(topics') <= EVENT_LOG_TOPICS_MAX_INDEX
        /\ \A j \in 1..EVENT_LOG_TOPICS_MAX_INDEX :
             Held(j)' = IF j = index + 1 THEN TopicTexts(Entry) ELSE Held(j)
    BY <1>2, <2>1, <2>2, AddTopicHeld DEF ReadTopic, ParseInv
  <2>4. TypeOK'
    BY <1>2, <2>1, <2>3 DEF ReadTopic, ParseInv, TypeOK
  <2>5. TopicsRead'
    <3>1. ASSUME NEW j \in 1..EVENT_LOG_TOPICS_MAX_INDEX
          PROVE  Held(j)' = IF j <= index' THEN TopicTexts(request.topics[j]) ELSE {}
      <4>1. Held(j) = IF j <= index THEN TopicTexts(request.topics[j]) ELSE {}
        BY DEF ParseInv, TopicsRead
      <4>2. index' = index + 1 /\ j \in Nat
        BY <1>2, MaxIndexAssumption DEF ReadTopic
      <4>. QED BY <2>1, <2>3, <4>1, <4>2 DEF Entry
    <3>2. request' = request
      BY <1>2 DEF ReadTopic
    <3>. QED BY <3>1, <3>2 DEF TopicsRead
  <2>. QED BY <1>2, <2>4, <2>5 DEF ReadTopic, ParseInv, AddressesRead, AllRead
<1>3. CASE RefuseRequest
  <2>1. TypeOK'
    BY <1>3 DEF RefuseRequest, Refuse, requestVars, ParseInv, TypeOK
  <2>. QED BY <1>3, <2>1, ParseStutter DEF RefuseRequest, Refuse
<1>4. CASE SetParams
  <2>1. TypeOK'
    BY <1>4 DEF SetParams, requestVars, ParseInv, TypeOK
  <2>. QED BY <1>4, <2>1, ParseStutter DEF SetParams
<1>. QED BY <1>1, <1>2, <1>3, <1>4 DEF FromJson

----------------------------------------------------------------------------
(***************************************************************************)
(* matches.                                                                *)
(***************************************************************************)
\* The block being matched is a sequence of transactions with their logs.
LEMMA BlockTypes ==
    ASSUME TypeOK
    PROVE  /\ Len(block) \in Nat
           /\ txIndex \in Nat /\ logIndex \in Nat
           /\ \A tx \in 0..(Len(block) - 1) :
                /\ LogsOf(tx) \in Seq(Logs) /\ Len(LogsOf(tx)) \in Nat
                /\ \A l \in 0..(Len(LogsOf(tx)) - 1) : LogsOf(tx)[l + 1] \in Logs
<1>1. block \in Seq(Seq(Logs))
  <2>1. CASE block \in Blocks
    BY <2>1, FilterAssumption
  <2>2. <<>> \in Seq(Seq(Logs))
    OBVIOUS
  <2>. QED BY <2>1, <2>2 DEF TypeOK
<1>2. Len(block) \in Nat
  BY <1>1
<1>3. ASSUME NEW tx \in 0..(Len(block) - 1)
      PROVE  /\ LogsOf(tx) \in Seq(Logs) /\ Len(LogsOf(tx)) \in Nat
             /\ \A l \in 0..(Len(LogsOf(tx)) - 1) : LogsOf(tx)[l + 1] \in Logs
  <2>1. tx + 1 \in 1..Len(block)
    BY <1>2
  <2>2. LogsOf(tx) \in Seq(Logs)
    BY <1>1, <2>1 DEF LogsOf
  <2>. QED BY <2>2
<1>. QED BY <1>2, <1>3 DEF TypeOK

LEMMA RowFields ==
    ASSUME NEW tx \in Nat, NEW l \in Nat, NEW log \in Logs
    PROVE  /\ Row(tx, l, log) \in Rows
           /\ Row(tx, l, log).transactionIndex = tx
           /\ Row(tx, l, log).logIndex = l
           /\ Row(tx, l, log).log = log
BY DEF Row, Rows

LEMMA RowTypes ==
    ASSUME TypeOK
    PROVE  \A k \in 1..Len(result) :
             result[k].transactionIndex \in Nat /\ result[k].logIndex \in Nat
<1>1. \A k \in 1..Len(result) : result[k] \in Rows
  BY DEF TypeOK
<1>2. \A row \in Rows : row.transactionIndex \in Nat /\ row.logIndex \in Nat
  BY DEF Rows
<1>. QED BY <1>1, <1>2

LEMMA MatchLogType ==
    ASSUME TypeOK, MatchLog
    PROVE  /\ TypeOK'
           /\ txIndex \in 0..(Len(block) - 1)
           /\ logIndex \in 0..(Len(LogsOf(txIndex)) - 1)
           /\ LogsOf(txIndex)[logIndex + 1] \in Logs
<1>1. txIndex \in 0..(Len(block) - 1)
  BY BlockTypes DEF MatchLog
<1>2. logIndex \in 0..(Len(LogsOf(txIndex)) - 1)
  BY <1>1, BlockTypes DEF MatchLog
<1>. DEFINE log == LogsOf(txIndex)[logIndex + 1]
<1>3. log \in Logs
  BY <1>1, <1>2, BlockTypes
<1>4. Row(txIndex, logIndex, log) \in Rows
  BY <1>3, BlockTypes, RowFields
<1>5. result' \in Seq(Rows)
  <2>1. result' = Append(result, Row(txIndex, logIndex, log)) \/ result' = result
    BY DEF MatchLog
  <2>. QED BY <1>4, <2>1 DEF TypeOK
<1>6. logIndex' \in Nat
  BY BlockTypes DEF MatchLog
<1>7. TypeOK'
  BY <1>5, <1>6 DEF MatchLog, requestVars, TypeOK
<1>. QED BY <1>1, <1>2, <1>3, <1>7
RowFacts == OnlyWantedPushed /\ RowsInBlockOrder

LEMMA RowsKept ==
    ASSUME RowFacts, UNCHANGED <<request, block, result>>
    PROVE  RowFacts'
BY DEF RowFacts, OnlyWantedPushed, RowsInBlockOrder, Wants, WantsAddress, WantsTopic, LogsOf

\* A log that matches gets a row, behind the rows of the logs before it.
LEMMA MatchLogAppends ==
    ASSUME FInv, MatchLog, Matches(LogsOf(txIndex)[logIndex + 1])
    PROVE  RowsVisited' /\ OnlyWantedPushed' /\ AllWantedPushed' /\ RowsInBlockOrder'
<1>. DEFINE log == LogsOf(txIndex)[logIndex + 1]
            row == Row(txIndex, logIndex, log)
<1>1. /\ TypeOK /\ ParseInv /\ stage = "matching"
      /\ txIndex \in 0..(Len(block) - 1)
      /\ logIndex \in 0..(Len(LogsOf(txIndex)) - 1)
      /\ log \in Logs /\ txIndex \in Nat /\ logIndex \in Nat
  BY MatchLogType, BlockTypes DEF FInv, ParseInv, MatchLog
<1>2. /\ row \in Rows /\ row.transactionIndex = txIndex /\ row.logIndex = logIndex
      /\ row.log = log
  BY <1>1, RowFields
<1>3. result \in Seq(Rows) /\ result' = Append(result, row) /\ Len(result) \in Nat
  BY <1>1 DEF MatchLog, TypeOK
<1>4. /\ Len(result') = Len(result) + 1
      /\ result'[Len(result) + 1] = row
      /\ \A k \in 1..Len(result) : result'[k] = result[k]
  BY <1>2, <1>3, AppendProperties
<1>5. UNCHANGED <<request, block, txIndex, stage, topics>> /\ logIndex' = logIndex + 1
  BY DEF MatchLog, requestVars
<1>6. \A k \in 1..Len(result') : k \in 1..Len(result) \/ k = Len(result) + 1
  BY <1>3, <1>4
<1>7. \A tx, l \in Nat : Visited(tx, l)' <=> Visited(tx, l) \/ (tx = txIndex /\ l = logIndex)
  BY <1>1, <1>5 DEF Visited
<1>8. \A k \in 1..Len(result) :
        /\ result[k].transactionIndex \in Nat /\ result[k].logIndex \in Nat
        /\ Visited(result[k].transactionIndex, result[k].logIndex)
  BY <1>1, RowTypes DEF FInv, RowsVisited
<1>9. RowsVisited'
  BY <1>1, <1>2, <1>4, <1>6, <1>7, <1>8 DEF RowsVisited
<1>10. OnlyWantedPushed'
  <2>1. Wants(log)
    BY <1>1, MatchesIsWants
  <2>2. \A k \in 1..Len(result) :
          /\ result[k].transactionIndex < Len(block)
          /\ result[k].logIndex < Len(LogsOf(result[k].transactionIndex))
          /\ result[k].log =
               LogsOf(result[k].transactionIndex)[result[k].logIndex + 1]
          /\ Wants(result[k].log)
    BY DEF FInv, OnlyWantedPushed
  <2>3. txIndex < Len(block) /\ logIndex < Len(LogsOf(txIndex))
    BY DEF MatchLog
  <2>4. \A x : LogsOf(x)' = LogsOf(x) /\ (Wants(x)' <=> Wants(x))
    BY <1>5 DEF LogsOf, Wants, WantsAddress, WantsTopic
  <2>5. ASSUME NEW k \in 1..Len(result')
        PROVE  /\ result'[k].transactionIndex < Len(block)
               /\ result'[k].logIndex < Len(LogsOf(result'[k].transactionIndex))
               /\ result'[k].log =
                    LogsOf(result'[k].transactionIndex)[result'[k].logIndex + 1]
               /\ Wants(result'[k].log)
    BY <1>2, <1>4, <1>6, <2>1, <2>2, <2>3
  <2>. QED BY <1>5, <2>4, <2>5 DEF OnlyWantedPushed, LogsOf, Wants, WantsAddress, WantsTopic
<1>11. RowsInBlockOrder'
  <2>1. ASSUME NEW j \in 1..Len(result'), NEW k \in 1..Len(result'), j < k
        PROVE  \/ result'[j].transactionIndex < result'[k].transactionIndex
               \/ /\ result'[j].transactionIndex = result'[k].transactionIndex
                  /\ result'[j].logIndex < result'[k].logIndex
    <3>1. j \in 1..Len(result) /\ result'[j] = result[j]
      BY <1>3, <1>4, <1>6, <2>1
    <3>2. CASE k \in 1..Len(result)
      BY <1>4, <2>1, <3>1, <3>2 DEF FInv, RowsInBlockOrder
    <3>3. CASE k = Len(result) + 1
      BY <1>2, <1>4, <1>8, <3>1, <3>3 DEF Visited
    <3>. QED BY <1>6, <3>2, <3>3
  <2>. QED BY <2>1 DEF RowsInBlockOrder
<1>12. AllWantedPushed'
  <2>1. \A x : LogsOf(x)' = LogsOf(x) /\ (Wants(x)' <=> Wants(x))
    BY <1>5 DEF LogsOf, Wants, WantsAddress, WantsTopic
  <2>2. TopicsUnderstood' <=> TopicsUnderstood
    BY <1>5 DEF TopicsUnderstood
  <2>3. ASSUME TopicsUnderstood, NEW tx \in 0..(Len(block) - 1),
               NEW l \in 0..(Len(LogsOf(tx)) - 1),
               Visited(tx, l)', Wants(LogsOf(tx)[l + 1])
        PROVE  HasRow(tx, l)'
    <3>0. tx \in Nat /\ l \in Nat
      BY <1>1, BlockTypes
    <3>1. CASE Visited(tx, l)
      <4>1. HasRow(tx, l)
        BY <1>1, <2>3, <3>1 DEF FInv, AllWantedPushed, WantedPushed
      <4>2. PICK k \in 1..Len(result) :
              result[k].transactionIndex = tx /\ result[k].logIndex = l
        BY <4>1 DEF HasRow
      <4>3. k \in 1..Len(result') /\ result'[k] = result[k]
        BY <1>3, <1>4
      <4>. QED BY <4>2, <4>3 DEF HasRow
    <3>2. CASE tx = txIndex /\ l = logIndex
      <4>1. Len(result) + 1 \in 1..Len(result')
        BY <1>3, <1>4
      <4>. QED BY <1>2, <1>4, <3>2, <4>1 DEF HasRow
    <3>. QED BY <1>7, <2>3, <3>0, <3>1, <3>2
  <2>4. block' = block
    BY <1>5
  <2>. QED BY <2>1, <2>2, <2>3, <2>4 DEF AllWantedPushed, WantedPushed, LogsOf, Wants, WantsAddress, WantsTopic
<1>. QED BY <1>9, <1>10, <1>11, <1>12

\* A log that does not match is not asked for, in a spelling that is understood.
LEMMA MatchLogSkips ==
    ASSUME FInv, MatchLog, ~Matches(LogsOf(txIndex)[logIndex + 1])
    PROVE  RowsVisited' /\ AllWantedPushed' /\ RowFacts'
<1>1. /\ TypeOK /\ ParseInv /\ stage = "matching"
      /\ txIndex \in 0..(Len(block) - 1)
      /\ logIndex \in 0..(Len(LogsOf(txIndex)) - 1)
      /\ LogsOf(txIndex)[logIndex + 1] \in Logs /\ txIndex \in Nat /\ logIndex \in Nat
  BY MatchLogType, BlockTypes DEF FInv, ParseInv, MatchLog
<1>2. UNCHANGED <<request, block, txIndex, stage, topics, result>> /\ logIndex' = logIndex + 1
  BY DEF MatchLog, requestVars
<1>3. \A tx, l \in Nat : Visited(tx, l)' <=> Visited(tx, l) \/ (tx = txIndex /\ l = logIndex)
  BY <1>1, <1>2 DEF Visited
<1>4. RowFacts'
  BY <1>2, RowsKept DEF FInv, RowFacts
<1>5. RowsVisited'
  <2>1. \A k \in 1..Len(result) :
          result[k].transactionIndex \in Nat /\ result[k].logIndex \in Nat
    BY <1>1, RowTypes
  <2>. QED BY <1>1, <1>2, <1>3, <2>1 DEF FInv, RowsVisited
<1>6. AllWantedPushed'
  <2>1. ~(TopicsUnderstood /\ Wants(LogsOf(txIndex)[logIndex + 1]))
    BY <1>1, MatchesIsWants
  <2>2. ASSUME TopicsUnderstood, NEW tx \in 0..(Len(block) - 1),
               NEW l \in 0..(Len(LogsOf(tx)) - 1),
               Visited(tx, l)', Wants(LogsOf(tx)[l + 1])
        PROVE  HasRow(tx, l)
    <3>0. tx \in Nat /\ l \in Nat
      BY <1>1, BlockTypes
    <3>1. Visited(tx, l)
      BY <1>3, <2>1, <2>2, <3>0
    <3>. QED BY <1>1, <2>2, <3>1 DEF FInv, AllWantedPushed, WantedPushed
  <2>3. \A x : LogsOf(x)' = LogsOf(x) /\ (Wants(x)' <=> Wants(x))
    BY <1>2 DEF LogsOf, Wants, WantsAddress, WantsTopic
  <2>4. TopicsUnderstood' <=> TopicsUnderstood
    BY <1>2 DEF TopicsUnderstood
  <2>5. \A tx, l : HasRow(tx, l)' <=> HasRow(tx, l)
    BY <1>2 DEF HasRow
  <2>. QED BY <1>2, <2>2, <2>3, <2>4, <2>5
           DEF AllWantedPushed, WantedPushed, LogsOf, Wants, WantsAddress, WantsTopic
<1>. QED BY <1>4, <1>5, <1>6

LEMMA FInvInit == Init => FInv
<1>. SUFFICES ASSUME Init PROVE FInv
  OBVIOUS
<1>1. Len(result) = 0
  BY DEF Init
<1>2. \A k : k \notin 1..Len(result)
  BY <1>1
<1>3. RowsVisited /\ OnlyWantedPushed /\ RowsInBlockOrder
  BY <1>2 DEF RowsVisited, OnlyWantedPushed, RowsInBlockOrder
<1>. QED BY <1>3, ParseInit DEF Init, FInv, AllWantedPushed, WantedPushed

LEMMA FInvNext == FInv /\ [Next]_vars => FInv'
<1>. SUFFICES ASSUME FInv, [Next]_vars PROVE FInv'
  OBVIOUS
<1>1. TypeOK /\ ParseInv
  BY DEF FInv, ParseInv
<1>2. CASE FromJson
  <2>1. ParseInv' /\ UNCHANGED <<request, block, result>> /\ stage' # "matching"
    BY <1>1, <1>2, FromJsonParse
       DEF FromJson, ReadAddresses, ReadTopic, RefuseRequest, Refuse, SetParams, requestVars
  <2>2. RowFacts'
    BY <2>1, RowsKept DEF FInv, RowFacts
  <2>. QED BY <2>1, <2>2 DEF FInv, RowFacts, RowsVisited, AllWantedPushed, WantedPushed
<1>3. CASE MatchLog
  <2>1. ParseInv'
    BY <1>1, <1>3, MatchLogType, ParseStutter DEF MatchLog
  <2>. QED BY <1>3, <2>1, MatchLogAppends, MatchLogSkips DEF FInv, RowFacts
<1>4. ASSUME NEW b \in Blocks, StartBlock(b) PROVE FInv'
  <2>1. Len(b) \in Nat
    BY FilterAssumption
  <2>2. TypeOK'
    BY <1>1, <1>4, <2>1 DEF StartBlock, requestVars, TypeOK
  <2>3. ParseInv'
    BY <1>1, <1>4, <2>2, ParseStutter DEF StartBlock
  <2>4. \A k : k \notin 1..Len(result')
    BY <1>4 DEF StartBlock
  <2>5. \A tx \in 0..(Len(block') - 1) : \A l \in 0..(Len(LogsOf(tx)') - 1) : ~Visited(tx, l)'
    BY <1>4, <2>1 DEF StartBlock, Visited
  <2>. QED BY <2>3, <2>4, <2>5
           DEF FInv, RowsVisited, OnlyWantedPushed, AllWantedPushed, WantedPushed, RowsInBlockOrder
<1>5. CASE NextTransaction
  <2>1. UNCHANGED <<request, block, result, stage>> /\ logIndex' = 0 /\ txIndex' = txIndex + 1
    BY <1>5 DEF NextTransaction, requestVars
  <2>2. /\ stage = "matching" /\ Len(block) \in Nat /\ txIndex \in Nat /\ txIndex < Len(block)
        /\ logIndex = Len(LogsOf(txIndex))
    BY <1>1, <1>5, BlockTypes DEF NextTransaction
  <2>3. TypeOK'
    BY <1>1, <1>5, <2>1, <2>2 DEF NextTransaction, requestVars, TypeOK
  <2>4. ParseInv'
    BY <1>1, <1>5, <2>3, ParseStutter DEF NextTransaction
  <2>5. RowFacts'
    BY <2>1, RowsKept DEF FInv, RowFacts
  <2>6. RowsVisited'
    <3>1. \A k \in 1..Len(result) :
            result[k].transactionIndex \in Nat /\ result[k].logIndex \in Nat
      BY <1>1, RowTypes
    <3>2. \A tx, l \in Nat : Visited(tx, l) => Visited(tx, l)'
      BY <2>1, <2>2 DEF Visited
    <3>. QED BY <2>1, <2>2, <3>1, <3>2 DEF FInv, RowsVisited
  <2>7. AllWantedPushed'
    <3>1. ASSUME NEW tx \in 0..(Len(block) - 1), NEW l \in 0..(Len(LogsOf(tx)) - 1),
                 Visited(tx, l)'
          PROVE  Visited(tx, l)
      <4>1. tx \in Nat /\ l \in Nat /\ l < Len(LogsOf(tx))
        BY <1>1, BlockTypes
      <4>2. tx < txIndex \/ tx = txIndex
        BY <2>1, <2>2, <3>1, <4>1 DEF Visited
      <4>. QED BY <2>2, <4>1, <4>2 DEF Visited
    <3>2. \A tx \in 0..(Len(block) - 1) : \A l \in 0..(Len(LogsOf(tx)) - 1) :
            TopicsUnderstood /\ Visited(tx, l)' /\ Wants(LogsOf(tx)[l + 1]) => HasRow(tx, l)
      BY <2>2, <3>1 DEF FInv, AllWantedPushed, WantedPushed
    <3>. QED BY <2>1, <3>2
             DEF AllWantedPushed, WantedPushed, LogsOf, Wants, WantsAddress, WantsTopic, TopicsUnderstood, HasRow
  <2>. QED BY <2>4, <2>5, <2>6, <2>7 DEF FInv, RowFacts
<1>6. CASE EndBlock
  <2>1. UNCHANGED <<request, block, result>> /\ stage = "matching" /\ stage' = "parsed"
    BY <1>6 DEF EndBlock, requestVars
  <2>2. TypeOK'
    BY <1>1, <1>6 DEF EndBlock, requestVars, TypeOK
  <2>3. ParseInv'
    BY <1>1, <1>6, <2>1, <2>2, ParseStutter DEF EndBlock
  <2>4. RowFacts'
    BY <2>1, RowsKept DEF FInv, RowFacts
  <2>. QED BY <2>1, <2>3, <2>4 DEF FInv, RowFacts, RowsVisited, AllWantedPushed, WantedPushed
<1>7. CASE UNCHANGED vars
  <2>1. TypeOK'
    BY <1>1, <1>7 DEF vars, TypeOK
  <2>2. ParseInv'
    BY <1>1, <1>7, <2>1, ParseStutter DEF vars, requestVars
  <2>3. RowFacts'
    BY <1>7, RowsKept DEF vars, FInv, RowFacts
  <2>4. RowsVisited'
    BY <1>7 DEF vars, FInv, RowsVisited, Visited
  <2>5. AllWantedPushed'
    <3>1. UNCHANGED <<request, stage, topics, block, txIndex, logIndex, result>>
      BY <1>7 DEF vars
    <3>2. \A x : LogsOf(x)' = LogsOf(x) /\ (Wants(x)' <=> Wants(x))
      BY <3>1 DEF LogsOf, Wants, WantsAddress, WantsTopic
    <3>3. TopicsUnderstood' <=> TopicsUnderstood
      BY <3>1 DEF TopicsUnderstood
    <3>4. \A tx, l : /\ HasRow(tx, l)' <=> HasRow(tx, l)
                     /\ Visited(tx, l)' <=> Visited(tx, l)
      BY <3>1 DEF HasRow, Visited
    <3>. QED BY <3>1, <3>2, <3>3, <3>4
             DEF FInv, AllWantedPushed, WantedPushed, LogsOf, Wants, WantsAddress, WantsTopic
  <2>. QED BY <2>2, <2>3, <2>4, <2>5 DEF FInv, RowFacts
<1>. QED BY <1>2, <1>3, <1>4, <1>5, <1>6, <1>7 DEF Next, MatchBlock

LEMMA FInvAlways == Spec => []FInv
BY FInvInit, FInvNext, PTL DEF Spec

----------------------------------------------------------------------------
\* The parameters and the rows keep their types: m_topics never grows past the four
\* topics a log can have (EventSubParams.h:48-58).
THEOREM FilterTypeCorrect == Spec => []TypeOK
<1>1. FInv => TypeOK
  BY DEF FInv, ParseInv
<1>. QED BY <1>1, FInvAlways, PTL

\* Whatever a request says and a block holds, only logs the request asks for are
\* pushed (EventSubRequest.cpp:238-272, EventSubMatcher.cpp:28-103).
THEOREM OnlyWantedPushedHolds == Spec => []OnlyWantedPushed
<1>1. FInv => OnlyWantedPushed
  BY DEF FInv
<1>. QED BY <1>1, FInvAlways, PTL

\* Topics in a spelling that is understood lose no log (EventSubRequest.cpp:248-270).
THEOREM AllWantedPushedHolds == Spec => []AllWantedPushed
<1>1. FInv => AllWantedPushed
  BY DEF FInv
<1>. QED BY <1>1, FInvAlways, PTL

\* The rows of a block are in its order, each once (EventSubMatcher.cpp:28-75).
THEOREM RowsInBlockOrderHolds == Spec => []RowsInBlockOrder
<1>1. FInv => RowsInBlockOrder
  BY DEF FInv
<1>. QED BY <1>1, FInvAlways, PTL
=============================================================================

----------------------------- MODULE EventFilter -----------------------------
(***************************************************************************)
(* What an event subscription asks for and which logs it gets: the         *)
(* addresses and topics of a request (event/EventSubRequest.cpp,           *)
(* EventSubParams.h) and the matching of the logs of a block               *)
(* (event/EventSubMatcher.cpp).                                            *)
(*                                                                         *)
(* Both sides compare texts.  The matcher writes an address or a topic in  *)
(* lower case and without a prefix; what the request says is brought into  *)
(* that form, or not, entry by entry.  A text is abstracted to the number  *)
(* it stands for and the two things the comparison can stumble over.       *)
(***************************************************************************)
EXTENDS Naturals, Sequences

CONSTANTS
    Digits,                      \* the numbers addresses and topics stand for
    EVENT_LOG_TOPICS_MAX_INDEX,  \* the topics of a log that can be asked for
    Requests,                    \* the requests of SDKs
    Blocks                       \* the blocks: transactions, each with its logs

Texts == [digits : Digits, prefix : {"none", "0x", "0X"}, upper : BOOLEAN]

\* How toHex and hex() write a number.
Hex(d) == [digits |-> d, prefix |-> "none", upper |-> FALSE]

\* The JSON value of "addresses", or of one entry of "topics".  A "string" has one
\* text; "other" is a value that asString or operator[] throws on.
Entries ==
    [kind : {"null", "other"}, texts : {{}}]
        \cup [kind : {"array"}, texts : SUBSET Texts]
        \cup [kind : {"string"}, texts : {{t} : t \in Texts}]

\* complete: the members id, group and params are there.
AllRequests == [complete : BOOLEAN, addresses : Entries, topics : Seq(Entries)]

Logs == [address : Digits, topics : Seq(Digits)]

ASSUME MaxIndexAssumption == EVENT_LOG_TOPICS_MAX_INDEX \in Nat

ASSUME FilterAssumption == Requests \subseteq AllRequests /\ Blocks \subseteq Seq(Seq(Logs))

VARIABLES
    request,    \* the request
    stage,      \* where fromJson, or matches, is
    index,      \* how many entries of the topics fromJson has read
    addresses,  \* m_addresses
    topics,     \* m_topics
    block,      \* the block being matched
    txIndex,
    logIndex,
    result      \* _result

requestVars == <<request, index, addresses, topics>>
vars == <<request, stage, index, addresses, topics, block, txIndex, logIndex, result>>

Row(tx, l, log) == [transactionIndex |-> tx, logIndex |-> l, log |-> log]

Rows == [transactionIndex : Nat, logIndex : Nat, log : Logs]

TypeOK ==
    /\ request \in Requests
    /\ stage \in {"addresses", "topics", "parsed", "matching", "refused"}
    /\ index \in 0..Len(request.topics)
    /\ addresses \subseteq Texts
    /\ topics \in Seq(SUBSET Texts)
    /\ Len(topics) <= EVENT_LOG_TOPICS_MAX_INDEX
    /\ block \in Blocks \cup {<<>>}
    /\ txIndex \in 0..Len(block)
    /\ logIndex \in Nat
    /\ result \in Seq(Rows)

Init ==
    /\ request \in Requests
    /\ stage = "addresses"
    /\ index = 0
    /\ addresses = {}
    /\ topics = <<>>
    /\ block = <<>>
    /\ txIndex = 0
    /\ logIndex = 0
    /\ result = <<>>

----------------------------------------------------------------------------
(***************************************************************************)
(* EventSubRequest::fromJson.                                              *)
(***************************************************************************)
ToLower(t) ==
    [digits |-> t.digits, prefix |-> IF t.prefix = "0X" THEN "0x" ELSE t.prefix, upper |-> FALSE]

\* Defect: only the prefix 0x is recognized, as for topics.
AddressTextLower(t) == ToLower(IF t.prefix = "0x" THEN [t EXCEPT !.prefix = "none"] ELSE t)

AddressText(t) == ToLower([t EXCEPT !.prefix = "none"])

\* The two characters at the front are compared with "0XC", which they never equal.
TopicText(t) == ToLower(IF t.prefix = "0x" THEN [t EXCEPT !.prefix = "none"] ELSE t)

\* The set an entry of the topics adds; a string goes in as it came.
TopicTexts(entry) ==
    IF entry.kind = "array" THEN {TopicText(t) : t \in entry.texts} ELSE entry.texts

\* Defect: the vector grows by one element, not up to the index.
AddTopicBehind(i, ts) ==
    IF i >= EVENT_LOG_TOPICS_MAX_INDEX \/ ts = {} THEN topics ELSE Append(topics, ts)

\* Defect: the index may be the limit itself.
AddTopicPast(i, ts) ==
    IF i > EVENT_LOG_TOPICS_MAX_INDEX \/ ts = {}
      THEN topics
      ELSE [j \in 1..(i + 1) |->
              (IF j <= Len(topics) THEN topics[j] ELSE {}) \cup (IF j = i + 1 THEN ts ELSE {})]

\* addTopic for each text of the entry at index i: resize, then insert.
AddTopic(i, ts) ==
    IF i >= EVENT_LOG_TOPICS_MAX_INDEX \/ ts = {}
      THEN topics
      ELSE [j \in 1..(i + 1) |->
              (IF j <= Len(topics) THEN topics[j] ELSE {}) \cup (IF j = i + 1 THEN ts ELSE {})]

Refuse ==
    /\ stage' = "refused"
    /\ UNCHANGED <<requestVars, block, txIndex, logIndex, result>>

\* A string has size 0: it is taken for no address at all.
ReadAddresses ==
    /\ stage = "addresses"
    /\ request.complete
    /\ request.addresses.kind # "other"
    /\ addresses' = IF request.addresses.kind = "array"
                      THEN {AddressText(t) : t \in request.addresses.texts}
                      ELSE {}
    /\ stage' = "topics"
    /\ UNCHANGED <<request, index, topics, block, txIndex, logIndex, result>>

Entry == request.topics[index + 1]

ReadTopic ==
    /\ stage = "topics"
    /\ index < Len(request.topics)
    /\ Entry.kind # "other"
    /\ topics' = AddTopic(index, TopicTexts(Entry))
    /\ index' = index + 1
    /\ UNCHANGED <<request, stage, addresses, block, txIndex, logIndex, result>>

RefuseRequest ==
    /\ \/ stage = "addresses" /\ (~request.complete \/ request.addresses.kind = "other")
       \/ stage = "topics" /\ index < Len(request.topics) /\ Entry.kind = "other"
    /\ Refuse

SetParams ==
    /\ stage = "topics"
    /\ index = Len(request.topics)
    /\ stage' = "parsed"
    /\ UNCHANGED <<requestVars, block, txIndex, logIndex, result>>

FromJson == ReadAddresses \/ ReadTopic \/ RefuseRequest \/ SetParams

----------------------------------------------------------------------------
(***************************************************************************)
(* EventSubMatcher::matches, for a block, a receipt and a log.             *)
(***************************************************************************)
MatchesTopic(log, i) ==
    \/ i > Len(topics)
    \/ topics[i] = {}
    \/ i <= Len(log.topics) /\ Hex(log.topics[i]) \in topics[i]

Matches(log) ==
    /\ addresses = {} \/ Hex(log.address) \in addresses
    /\ \A i \in 1..EVENT_LOG_TOPICS_MAX_INDEX : MatchesTopic(log, i)

StartBlock(b) ==
    /\ stage = "parsed"
    /\ stage' = "matching"
    /\ block' = b
    /\ txIndex' = 0
    /\ logIndex' = 0
    /\ result' = <<>>
    /\ UNCHANGED requestVars

LogsOf(tx) == block[tx + 1]

MatchLog ==
    /\ stage = "matching"
    /\ txIndex < Len(block)
    /\ logIndex < Len(LogsOf(txIndex))
    /\ LET log == LogsOf(txIndex)[logIndex + 1]
       IN  result' = IF Matches(log)
                       THEN Append(result, Row(txIndex, logIndex, log)) ELSE result
    /\ logIndex' = logIndex + 1
    /\ UNCHANGED <<requestVars, stage, block, txIndex>>

NextTransaction ==
    /\ stage = "matching"
    /\ txIndex < Len(block)
    /\ logIndex = Len(LogsOf(txIndex))
    /\ txIndex' = txIndex + 1
    /\ logIndex' = 0
    /\ UNCHANGED <<requestVars, stage, block, result>>

\* The rows are pushed; the walk comes with the next block.
EndBlock ==
    /\ stage = "matching"
    /\ txIndex = Len(block)
    /\ stage' = "parsed"
    /\ UNCHANGED <<requestVars, block, txIndex, logIndex, result>>

MatchBlock == (\E b \in Blocks : StartBlock(b)) \/ MatchLog \/ NextTransaction \/ EndBlock

Next == FromJson \/ MatchBlock

Spec == Init /\ [][Next]_vars

----------------------------------------------------------------------------
(***************************************************************************)
(* Properties.  What a request asks for is read off its text, whatever the *)
(* letters and prefixes its numbers are written with.                      *)
(***************************************************************************)
Asks(entry, d) == \E t \in entry.texts : t.digits = d

WantsAddress(log) ==
    \/ request.addresses.kind # "array"
    \/ request.addresses.texts = {}
    \/ Asks(request.addresses, log.address)

WantsTopic(log, i) ==
    \/ i > Len(request.topics)
    \/ request.topics[i].texts = {}
    \/ i <= Len(log.topics) /\ Asks(request.topics[i], log.topics[i])

Wants(log) ==
    /\ WantsAddress(log)
    /\ \A i \in 1..EVENT_LOG_TOPICS_MAX_INDEX : WantsTopic(log, i)

\* The spellings of a topic that fromJson brings into the form of the matcher.
Understood(entry) ==
    /\ entry.kind = "array" => \A t \in entry.texts : t.prefix # "0X"
    /\ entry.kind = "string" => \A t \in entry.texts : t.prefix = "none" /\ ~t.upper

TopicsUnderstood == \A i \in 1..Len(request.topics) : Understood(request.topics[i])

\* The log at a position of the block was matched already.
Visited(tx, l) == tx < txIndex \/ (tx = txIndex /\ l < logIndex)

HasRow(tx, l) ==
    \E k \in 1..Len(result) :
        result[k].transactionIndex = tx /\ result[k].logIndex = l

\* No log is pushed that the request does not ask for, however its entries are spelt,
\* and a row carries the position of its log in the block: null and empty entries
\* between the topics, entries past the fourth and logs with fewer topics do not
\* shift what is compared (EventSubParams::addTopic, EventSubMatcher::matches).
OnlyWantedPushed ==
    \A k \in 1..Len(result) :
        LET row == result[k]
        IN  /\ row.transactionIndex < Len(block)
            /\ row.logIndex < Len(LogsOf(row.transactionIndex))
            /\ row.log = LogsOf(row.transactionIndex)[row.logIndex + 1]
            /\ Wants(row.log)

\* Of the logs matched so far, each one that the request asks for has a row.
WantedPushed ==
    stage = "matching" =>
        \A tx \in 0..(Len(block) - 1) : \A l \in 0..(Len(LogsOf(tx)) - 1) :
            Visited(tx, l) /\ Wants(LogsOf(tx)[l + 1]) => HasRow(tx, l)

\* Every log the request asks for is pushed, if the topics are spelt in one of the
\* ways fromJson understands; an address may be spelt in any way.  Without the
\* condition it does not hold (DocumentedRequestMatches).
AllWantedPushed == TopicsUnderstood => WantedPushed

\* A request as the comment of generateJson shows it (EventSubRequest.cpp:112-127),
\* an array of addresses and each topic a string, all in lower case with the prefix
\* 0x, gets the logs it asks for.  It does not: a topic that is a string keeps its
\* prefix (EventSubRequest.cpp:269), which the texts of a log do not have.
Documented(entry) == \A t \in entry.texts : t.prefix = "0x" /\ ~t.upper

DocumentedRequest ==
    /\ request.addresses.kind = "array" /\ Documented(request.addresses)
    /\ \A i \in 1..Len(request.topics) :
          request.topics[i].kind = "string" /\ Documented(request.topics[i])

DocumentedRequestMatches == DocumentedRequest => WantedPushed

\* The rows come in the order of the block, and none twice.
RowsInBlockOrder ==
    \A j, k \in 1..Len(result) :
        j < k =>
            \/ result[j].transactionIndex < result[k].transactionIndex
            \/ /\ result[j].transactionIndex = result[k].transactionIndex
               /\ result[j].logIndex < result[k].logIndex
=============================================================================

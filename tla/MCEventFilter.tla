---------------------------- MODULE MCEventFilter ----------------------------
(***************************************************************************)
(* EventFilter for TLC: two numbers, requests that mix every kind and      *)
(* spelling of entries, blocks whose logs have fewer and more topics than  *)
(* can be asked for.                                                       *)
(***************************************************************************)
EXTENDS EventFilter

CONSTANTS d1, d2

Plain(d)    == Hex(d)
Prefixed(d) == [digits |-> d, prefix |-> "0x", upper |-> FALSE]
Capital(d)  == [digits |-> d, prefix |-> "0X", upper |-> TRUE]
Shouted(d)  == [digits |-> d, prefix |-> "0x", upper |-> TRUE]

Of(kind, texts) == [kind |-> kind, texts |-> texts]

Absent == Of("null", {})

AddressEntries ==
    {Absent, Of("array", {}), Of("array", {Shouted(d1)}), Of("array", {Capital(d2)}),
     Of("string", {Prefixed(d1)}), Of("other", {})}

TopicEntries ==
    {Absent, Of("array", {}), Of("array", {Shouted(d1)}), Of("array", {Plain(d1), Prefixed(d2)}),
     Of("array", {Capital(d2)}), Of("string", {Plain(d2)}), Of("string", {Prefixed(d1)}),
     Of("other", {})}

TopicLists == UNION {[1..n -> TopicEntries] : n \in 0..3}

SomeRequests ==
    [complete : {TRUE}, addresses : AddressEntries, topics : TopicLists]
        \cup [complete : {FALSE}, addresses : {Absent}, topics : {<<>>}]

\* As the comment of generateJson has it.
DocumentedRequests ==
    [complete : {TRUE}, addresses : {Of("array", {Prefixed(d)}) : d \in Digits},
     topics : UNION {[1..n -> {Of("string", {Prefixed(d)}) : d \in Digits}] : n \in 0..2}]

Log(a, ts) == [address |-> a, topics |-> ts]

SomeBlocks ==
    {<<>>,
     << <<Log(d1, <<>>), Log(d1, <<d1>>)>>, <<Log(d2, <<d1, d2, d1>>)>> >>,
     << <<>>, <<Log(d2, <<d2>>), Log(d1, <<d2, d1>>), Log(d1, <<d1, d1>>)>> >>}
=============================================================================

--------------------------- MODULE MCApplications ---------------------------
EXTENDS Applications

MCTokens == <<"hyllar", "orange">>
MCUsers == {"hyli@wallet", Faucet}
MCStakers == <<"alice", "bob", "carol">>
MCKeyOrder == <<"pk1", "pk2", "pk3">>
MCKey == [n \in {"alice", "bob", "carol", "dave"} |->
             CASE n = "alice" -> "pk3" [] n = "bob" -> "pk1" [] n = "carol" -> "pk2" [] n = "dave" -> "pk4"]
MCStakeOf == [n \in {"alice", "bob", "carol"} |-> IF n = "carol" THEN 2 ELSE 1]

\* The wallet has both tokens and lets the AMM take some of each.
MCSetup ==
    <<Tx(Faucet, <<Blob("orange", Transfer("hyli@wallet", 6))>>),
      Tx("hyli@wallet", <<Blob("hyllar", Approve("amm", 5))>>),
      Tx("hyli@wallet", <<Blob("orange", Approve("amm", 5))>>)>>

\* A key for everything, one for hyllar on one lane, one that expired.
MCKeyTerms ==
    {[expires |-> 2, nonce |-> 0, whitelist |-> Absent, lane |-> Absent],
     [expires |-> 2, nonce |-> 0, whitelist |-> {"hyllar"}, lane |-> "l1"],
     [expires |-> 0, nonce |-> 0, whitelist |-> Absent, lane |-> Absent]}

\* A transfer, one that moves and approves in one transaction, and one that does not parse.
MCHistoryTxs ==
    <<[identity |-> "alice", blobs |-> <<[op |-> "Transfer", sender |-> "alice", recipient |-> "bob"]>>],
      [identity |-> "bob",
       blobs |-> <<[op |-> "Approve", owner |-> "bob", spender |-> "alice"],
                   [op |-> "TransferFrom", owner |-> "bob", recipient |-> "alice"]>>],
      [identity |-> "bob", blobs |-> <<[op |-> "Unparsed"]>>]>>

\* Two users, one of them on two dates, and three proofs that are refused.
MCPassports ==
    {[named |-> TRUE, age |-> 18, hex |-> TRUE, addr |-> "0xa", date |-> 1],
     [named |-> TRUE, age |-> 18, hex |-> TRUE, addr |-> "0xa", date |-> 2],
     [named |-> TRUE, age |-> 18, hex |-> TRUE, addr |-> "0xb", date |-> 1],
     [named |-> TRUE, age |-> 17, hex |-> TRUE, addr |-> "0xa", date |-> 1],
     [named |-> FALSE, age |-> 18, hex |-> TRUE, addr |-> "0xa", date |-> 1],
     [named |-> TRUE, age |-> 18, hex |-> FALSE, addr |-> "b", date |-> 1]}

\* Two bits to a character and a marker of one: text and marker fill three quarters of
\* the corner, and each frame starts one character further.
MCMarker == <<1>>
MCScene == [k \in 1..8 |-> k % 2]
MCCidOf == <<<<2, 3>>, <<3, 2>>, <<3, 3>>>>
=============================================================================

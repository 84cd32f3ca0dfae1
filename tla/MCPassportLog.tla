----------------------------- MODULE MCPassportLog -----------------------------
(* A small instance of PassportLogReplay for TLC: every kind of payload     *)
(* replay_state has an arm for, both splits, and one it ignores.            *)
EXTENDS PassportLogReplay

MCLegal == {<<"Issued", "Suspended">>}

MCPayload ==
    [type : {"Issuance", "Decompose", "EndOfWaste", "RecallCampaign", "FlagSecurity",
             "Other"}]
    \cup {[type |-> "StatusChange", from |-> "Issued", to |-> "Suspended"]}
    \cup [type : {"Split"}, parent_consumed : BOOLEAN]
    \cup [type : {"CustodyTransfer"}, to : {"alice", "bob"}]
================================================================================

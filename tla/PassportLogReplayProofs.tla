------------------------ MODULE PassportLogReplayProofs ------------------------
(****************************************************************************)
(* Theorems about PassportLogReplay, for any payloads, any clock and logs   *)
(* of any length.                                                           *)
(****************************************************************************)
EXTENDS PassportLogReplay, OrdinalsProofs

--------------------------------------------------------------------------------
(* The loop of replay_state.                                                *)

\* One pass of the definition of ReplayStates over f.
Pass(log, f) ==
    [n \in 0 .. Len(log) |-> IF n = 0 THEN Fresh ELSE ReplayEvent(f[n - 1], log[n])]

\* The loop runs to the end of every log: its states are defined.
LEMMA ReplayDefined ==
    ASSUME NEW S, NEW log \in Seq(S)
    PROVE  ReplayStates(log) = Pass(log, ReplayStates(log))
<1>. DEFINE Upto(m, f) == f = [n \in 0 .. m |->
                                IF n = 0 THEN Fresh ELSE ReplayEvent(f[n - 1], log[n])]
            Runs(m) == \E f : Upto(m, f)
<1>0. Len(log) \in Nat
  OBVIOUS
<1>1. Runs(0)
  <2>1. Upto(0, [n \in 0 .. 0 |-> Fresh])
    BY SMTT(20)
  <2>. QED BY <2>1
<1>2. ASSUME NEW m \in Nat, Runs(m) PROVE Runs(m + 1)
  <2>1. PICK f : Upto(m, f)
    BY <1>2
  <2>. DEFINE g == [n \in 0 .. m + 1 |->
                        IF n = m + 1 THEN ReplayEvent(f[m], log[m + 1]) ELSE f[n]]
              h == [n \in 0 .. m + 1 |->
                        IF n = 0 THEN Fresh ELSE ReplayEvent(g[n - 1], log[n])]
  <2>2. ASSUME NEW n \in 0 .. m + 1 PROVE g[n] = h[n]
    <3>1. CASE n = m + 1
      <4>1. g[n] = ReplayEvent(f[m], log[m + 1]) /\ g[n - 1] = f[m]
        BY <3>1
      <4>2. h[n] = ReplayEvent(g[n - 1], log[n])
        BY <3>1
      <4>. QED BY <3>1, <4>1, <4>2
    <3>2. CASE n = 0
      BY <2>1, <3>2
    <3>3. CASE n \in 1 .. m
      <4>1. g[n] = f[n] /\ g[n - 1] = f[n - 1]
        BY <3>3
      <4>2. f[n] = ReplayEvent(f[n - 1], log[n])
        BY <2>1, <3>3
      <4>3. h[n] = ReplayEvent(g[n - 1], log[n])
        BY <3>3
      <4>. QED BY <4>1, <4>2, <4>3
    <3>. QED BY <3>1, <3>2, <3>3
  <2>3. g = h
    <3>1. g = [n \in 0 .. m + 1 |-> g[n]] /\ h = [n \in 0 .. m + 1 |-> h[n]]
      OBVIOUS
    <3>. HIDE DEF g, h
    <3>. QED BY <2>2, <3>1
  <2>. QED BY <2>3
<1>3. Runs(Len(log))
  <2>. DEFINE Bad == {m \in Nat : ~Runs(m)}
  <2>. HIDE DEF Runs
  <2>. SUFFICES ASSUME Len(log) \in Bad PROVE FALSE
    BY <1>0
  <2>1. PICK m \in Bad : \A q \in Bad : m <= q
    BY LeastNat
  <2>2. m \in Nat /\ m # 0 /\ m - 1 \in Nat /\ m - 1 \notin Bad
    BY <1>1, <2>1
  <2>. QED BY <1>2, <2>1, <2>2
<1>4. ReplayStates(log) = CHOOSE f : Upto(Len(log), f)
  BY DEF ReplayStates
<1>5. Upto(Len(log), ReplayStates(log))
  <2>. HIDE DEF Upto
  <2>. QED BY <1>3, <1>4
<1>. QED BY <1>5 DEF Pass

\* An event more is one pass of the loop more.
LEMMA ReplayGrows ==
    ASSUME NEW S, NEW log \in Seq(S), NEW e \in S
    PROVE  ReplayStates(Append(log, e))[Len(log) + 1]
                = ReplayEvent(ReplayStates(log)[Len(log)], e)
<1>. DEFINE more == Append(log, e)
            a == ReplayStates(log)
            b == ReplayStates(more)
            n == Len(log)
<1>1. /\ n \in Nat /\ more \in Seq(S) /\ Len(more) = n + 1
      /\ more[n + 1] = e /\ \A i \in 1 .. n : more[i] = log[i]
  OBVIOUS
<1>2. a = Pass(log, a) /\ b = Pass(more, b)
  BY <1>1, ReplayDefined
<1>. HIDE DEF a, b, n, more
<1>3. /\ a[0] = Fresh /\ b[0] = Fresh
      /\ \A i \in 1 .. n : a[i] = ReplayEvent(a[i - 1], log[i])
      /\ \A i \in 1 .. n + 1 : b[i] = ReplayEvent(b[i - 1], more[i])
  <2>1. \A i \in 0 .. n : a[i] = IF i = 0 THEN Fresh ELSE ReplayEvent(a[i - 1], log[i])
    <3>1. \A i \in 0 .. n : Pass(log, a)[i] =
                                IF i = 0 THEN Fresh ELSE ReplayEvent(a[i - 1], log[i])
      BY DEF Pass, n
    <3>. QED BY <1>2, <3>1
  <2>2. \A i \in 0 .. n + 1 : b[i] = IF i = 0 THEN Fresh ELSE ReplayEvent(b[i - 1], more[i])
    <3>1. \A i \in 0 .. n + 1 : Pass(more, b)[i] =
                                IF i = 0 THEN Fresh ELSE ReplayEvent(b[i - 1], more[i])
      BY <1>1 DEF Pass
    <3>. QED BY <1>2, <3>1
  <2>. QED BY <1>1, <2>1, <2>2
<1>4. \A i \in 0 .. n : a[i] = b[i]
  <2>. DEFINE Bad == {i \in 0 .. n : a[i] # b[i]}
  <2>. SUFFICES ASSUME Bad # {} PROVE FALSE
    OBVIOUS
  <2>1. PICK m \in Bad : \A q \in Bad : m <= q
    <3>1. Bad \subseteq Nat
      BY <1>1
    <3>. HIDE DEF Bad
    <3>. QED BY <3>1, LeastNat
  <2>2. m \in 1 .. n /\ m - 1 \in 0 .. n
    BY <1>1, <1>3, <2>1
  <2>3. a[m - 1] = b[m - 1]
    BY <1>1, <2>1, <2>2
  <2>4. m \in 1 .. n + 1
    BY <1>1, <2>2
  <2>5. a[m] = ReplayEvent(a[m - 1], log[m]) /\ b[m] = ReplayEvent(b[m - 1], more[m])
        /\ more[m] = log[m]
    BY <1>1, <1>3, <2>2, <2>4
  <2>. QED BY <2>1, <2>3, <2>5
<1>5. b[n + 1] = ReplayEvent(b[n + 1 - 1], more[n + 1]) /\ n + 1 - 1 = n
  BY <1>1, <1>3
<1>6. b[n + 1] = ReplayEvent(a[n], e)
  BY <1>1, <1>4, <1>5
<1>. QED BY <1>6 DEF a, b, n, more

\* The replay of no event.
LEMMA ReplayNothing == ReplayStates(<<>>)[0] = Fresh
<1>1. <<>> \in Seq(Event) /\ Len(<<>>) = 0
  OBVIOUS
<1>2. ReplayStates(<<>>) = Pass(<<>>, ReplayStates(<<>>))
  BY <1>1, ReplayDefined
<1>3. Pass(<<>>, ReplayStates(<<>>))[0] = Fresh
  BY <1>1 DEF Pass
<1>. QED BY <1>2, <1>3

State == [status : Status, recall : BOOLEAN, security : BOOLEAN,
          custodian : STRING \cup {"None"}]

\* What one event does to each part of the state.
LEMMA ReplayEventMeaning ==
    ASSUME NEW st \in State, NEW event, event.payload \in AnyPayload
    PROVE  LET p   == event.payload
               now == ReplayEvent(st, event)
           IN  /\ now \in State
               /\ now.status = IF SetsStatus(p) THEN Outcome(p) ELSE st.status
               /\ now.recall <=> st.recall \/ p.type = "RecallCampaign"
               /\ now.security <=> st.security \/ p.type = "FlagSecurity"
               /\ now.custodian = IF p.type = "CustodyTransfer" THEN p.to ELSE st.custodian
<1>. DEFINE p == event.payload
<1>1. CASE p \in [type : {"Issuance", "Decompose", "EndOfWaste", "RecallCampaign",
                         "FlagSecurity", "Other"}]
  BY <1>1 DEF ReplayEvent, State, Status, SetsStatus, Outcome
<1>2. CASE p \in [type : {"StatusChange"}, from : Status, to : Status]
  BY <1>2 DEF ReplayEvent, State, Status, SetsStatus, Outcome
<1>3. CASE p \in [type : {"Split"}, parent_consumed : BOOLEAN]
  BY <1>3 DEF ReplayEvent, State, Status, SetsStatus, Outcome
<1>4. CASE p \in [type : {"CustodyTransfer"}, to : STRING]
  BY <1>4 DEF ReplayEvent, State, Status, SetsStatus, Outcome
<1>. QED BY <1>1, <1>2, <1>3, <1>4 DEF AnyPayload

--------------------------------------------------------------------------------
(* The meaning of a replay.                                                 *)

\* The state the loop ends in.
End == ReplayStates(sealed)[Len(sealed)]

Setters  == {i \in DOMAIN sealed : SetsStatus(sealed[i].payload)}
Handovers == {i \in DOMAIN sealed : sealed[i].payload.type = "CustodyTransfer"}

\* Both flags, not only the one that is shown: a recall hides a security flag.
EndMeaning ==
    /\ End \in State
    /\ End.recall <=> "RecallCampaign" \in Types
    /\ End.security <=> "FlagSecurity" \in Types
    /\ Setters = {} => End.status = "Issued"
    /\ \A i \in Setters : LastIn(Setters, i) => End.status = Outcome(sealed[i].payload)
    /\ Handovers = {} => End.custodian = Fresh.custodian
    /\ \A i \in Handovers : LastIn(Handovers, i) => End.custodian = sealed[i].payload.to

MeaningInv == sealed \in Seq(Event) /\ EndMeaning

\* An event of a request is an event, and its payload one replay_state can be given.
LEMMA SealedEvent ==
    ASSUME NEW at \in Time, NEW payload \in Payload, sealed \in Seq(Event),
           Seal(at, payload)
    PROVE  /\ payload \in AnyPayload
           /\ [seq |-> Len(sealed), at |-> at, payload |-> payload] \in Event
           /\ sealed' = Append(sealed, [seq |-> Len(sealed), at |-> at, payload |-> payload])
BY PassportLogAssumption DEF PassportLogAssumption, Seal, Event

\* Sealing an event is one more pass of the loop.
LEMMA SealReplays ==
    ASSUME NEW at \in Time, NEW payload \in Payload, sealed \in Seq(Event),
           End \in State, Seal(at, payload)
    PROVE  /\ End' \in State
           /\ End'.status = IF SetsStatus(payload) THEN Outcome(payload) ELSE End.status
           /\ End'.recall <=> End.recall \/ payload.type = "RecallCampaign"
           /\ End'.security <=> End.security \/ payload.type = "FlagSecurity"
           /\ End'.custodian = IF payload.type = "CustodyTransfer" THEN payload.to
                               ELSE End.custodian
<1>. DEFINE event == [seq |-> Len(sealed), at |-> at, payload |-> payload]
<1>1. /\ payload \in AnyPayload /\ event \in Event /\ event.payload = payload
      /\ sealed' = Append(sealed, event)
  BY SealedEvent
<1>. HIDE DEF event
<1>2. Len(sealed') = Len(sealed) + 1
  BY <1>1
<1>3. ReplayStates(Append(sealed, event))[Len(sealed) + 1] = ReplayEvent(End, event)
  BY <1>1, ReplayGrows DEF End
<1>4. End' = ReplayEvent(End, event)
  BY <1>1, <1>2, <1>3 DEF End
<1>. QED BY <1>1, <1>4, ReplayEventMeaning

\* The last of a set that grows at its end.
LEMMA LastOfMore ==
    ASSUME NEW n \in Nat, NEW S \in SUBSET (1 .. n), NEW i
    PROVE  LastIn(S \cup {n + 1}, i) <=> i = n + 1
<1>. DEFINE m == n + 1
<1>1. m <= m /\ \A j \in S : j <= m /\ ~(m <= j)
  OBVIOUS
<1>. HIDE DEF m
<1>2. LastIn(S \cup {m}, i) <=> i = m
  BY <1>1, Zenon DEF LastIn
<1>. QED BY <1>2 DEF m

\* An empty log means nothing yet.
LEMMA InitMeaning == Init => MeaningInv
<1>. SUFFICES ASSUME Init PROVE MeaningInv
  OBVIOUS
<1>1. sealed = <<>> /\ DOMAIN sealed = {} /\ Len(sealed) = 0 /\ sealed \in Seq(Event)
  BY DEF Init
<1>2. End = Fresh
  BY <1>1, ReplayNothing DEF End
<1>3. Setters = {} /\ Handovers = {} /\ Types = {}
  BY <1>1 DEF Setters, Handovers, Types
<1>4. Fresh \in State /\ Fresh.recall = FALSE /\ Fresh.security = FALSE
      /\ Fresh.status = "Issued"
  BY DEF Fresh, State, Status
<1>. QED BY <1>1, <1>2, <1>3, <1>4 DEF MeaningInv, EndMeaning

\* Sealing one more event keeps the meaning.
LEMMA SealMeaning ==
    ASSUME MeaningInv, NEW at \in Time, NEW payload \in Payload, Seal(at, payload)
    PROVE  MeaningInv'
<1>. DEFINE n == Len(sealed)
<1>1. sealed \in Seq(Event) /\ End \in State
  BY DEF MeaningInv, EndMeaning
<1>2. /\ sealed' \in Seq(Event) /\ n \in Nat
      /\ DOMAIN sealed = 1 .. n /\ DOMAIN sealed' = 1 .. n + 1
      /\ \A i \in 1 .. n : sealed'[i] = sealed[i]
      /\ sealed'[n + 1].payload = payload
      /\ \A i \in 1 .. n + 1 : i \in 1 .. n \/ i = n + 1
      /\ \A i \in 1 .. n : i \in 1 .. n + 1
  <2>. DEFINE event == [seq |-> Len(sealed), at |-> at, payload |-> payload]
  <2>1. event \in Event /\ sealed' = Append(sealed, event) /\ event.payload = payload
    BY <1>1, SealedEvent
  <2>. HIDE DEF event
  <2>. QED BY <1>1, <2>1
<1>3. /\ End' \in State
      /\ End'.status = IF SetsStatus(payload) THEN Outcome(payload) ELSE End.status
      /\ End'.recall <=> End.recall \/ payload.type = "RecallCampaign"
      /\ End'.security <=> End.security \/ payload.type = "FlagSecurity"
      /\ End'.custodian = IF payload.type = "CustodyTransfer" THEN payload.to
                          ELSE End.custodian
  BY <1>1, SealReplays
<1>. HIDE DEF n
<1>4. Types' = Types \cup {payload.type}
  <2>1. \A x \in Types' : x \in Types \cup {payload.type}
    BY <1>2 DEF Types
  <2>2. \A x \in Types : x \in Types'
    BY <1>2 DEF Types
  <2>3. payload.type \in Types'
    BY <1>2 DEF Types
  <2>. QED BY <2>1, <2>2, <2>3
<1>5. /\ Setters \in SUBSET (1 .. n) /\ Handovers \in SUBSET (1 .. n)
      /\ Setters' = IF SetsStatus(payload) THEN Setters \cup {n + 1} ELSE Setters
      /\ Handovers' = IF payload.type = "CustodyTransfer" THEN Handovers \cup {n + 1}
                      ELSE Handovers
  <2>1. Setters \in SUBSET (1 .. n) /\ Handovers \in SUBSET (1 .. n)
    BY <1>2 DEF Setters, Handovers
  <2>2. Setters' = {i \in 1 .. n + 1 : SetsStatus(sealed'[i].payload)}
        /\ Setters = {i \in 1 .. n : SetsStatus(sealed[i].payload)}
    BY <1>2 DEF Setters
  <2>3. \A i : i \in Setters' <=> (i \in Setters \/ (i = n + 1 /\ SetsStatus(payload)))
    BY <1>2, <2>2
  <2>4. Handovers' = {i \in 1 .. n + 1 : sealed'[i].payload.type = "CustodyTransfer"}
        /\ Handovers = {i \in 1 .. n : sealed[i].payload.type = "CustodyTransfer"}
    BY <1>2 DEF Handovers
  <2>5. \A i : i \in Handovers'
                <=> (i \in Handovers \/ (i = n + 1 /\ payload.type = "CustodyTransfer"))
    BY <1>2, <2>4
  <2>. QED BY <2>1, <2>3, <2>5
<1>6. /\ End'.recall <=> "RecallCampaign" \in Types'
      /\ End'.security <=> "FlagSecurity" \in Types'
  BY <1>3, <1>4 DEF MeaningInv, EndMeaning
<1>7. /\ Setters' = {} => End'.status = "Issued"
      /\ \A i \in Setters' : LastIn(Setters', i) => End'.status = Outcome(sealed'[i].payload)
  <2>1. CASE SetsStatus(payload)
    <3>1. Setters' = Setters \cup {n + 1} /\ End'.status = Outcome(payload)
      BY <1>3, <1>5, <2>1
    <3>. QED BY <1>2, <1>5, <3>1, LastOfMore
  <2>2. CASE ~SetsStatus(payload)
    <3>1. Setters' = Setters /\ End'.status = End.status
      BY <1>3, <1>5, <2>2
    <3>2. \A i \in Setters : sealed'[i] = sealed[i]
      BY <1>2, <1>5
    <3>. QED BY <3>1, <3>2 DEF MeaningInv, EndMeaning, LastIn
  <2>. QED BY <2>1, <2>2
<1>8. /\ Handovers' = {} => End'.custodian = Fresh.custodian
      /\ \A i \in Handovers' :
            LastIn(Handovers', i) => End'.custodian = sealed'[i].payload.to
  <2>1. CASE payload.type = "CustodyTransfer"
    <3>1. Handovers' = Handovers \cup {n + 1} /\ End'.custodian = payload.to
      BY <1>3, <1>5, <2>1
    <3>. QED BY <1>2, <1>5, <3>1, LastOfMore
  <2>2. CASE payload.type # "CustodyTransfer"
    <3>1. Handovers' = Handovers /\ End'.custodian = End.custodian
      BY <1>3, <1>5, <2>2
    <3>2. \A i \in Handovers : sealed'[i] = sealed[i]
      BY <1>2, <1>5
    <3>. QED BY <3>1, <3>2 DEF MeaningInv, EndMeaning, LastIn
  <2>. QED BY <2>1, <2>2
<1>. QED BY <1>2, <1>3, <1>6, <1>7, <1>8 DEF MeaningInv, EndMeaning

\* The meaning holds throughout.
LEMMA MeaningInvariance == Spec => []MeaningInv
<1>1. MeaningInv /\ [Next]_sealed => MeaningInv'
  <2> SUFFICES ASSUME MeaningInv, [Next]_sealed PROVE MeaningInv'
    OBVIOUS
  <2>1. CASE UNCHANGED sealed
    BY <2>1 DEF MeaningInv, EndMeaning, End, Setters, Handovers, Types, LastIn
  <2>. QED BY <2>1, SealMeaning DEF Next
<1>. QED BY <1>1, InitMeaning, PTL DEF Spec

\* What replay_state makes of the state the loop ends in.
LEMMA ReplayStateIs ==
    replay_state(sealed) =
        [status    |-> End.status,
         safety    |-> IF End.recall THEN "RecallActive"
                       ELSE IF End.security THEN "SecurityFlagged" ELSE "None",
         custodian |-> End.custodian]
BY DEF replay_state, End

\* Replaying a log of any length gives the last status an event set, the last custodian
\* named, and the recall flag before the security flag, whatever came in between.
THEOREM ReplayMeans == Spec => []ReplayMeaning
<1>1. MeaningInv => ReplayMeaning
  BY ReplayStateIs DEF MeaningInv, EndMeaning, ReplayMeaning, Setters, Handovers
<1>. QED BY <1>1, MeaningInvariance, PTL

\* No event takes a safety flag back.
THEOREM SafetyNeverCleared == Spec => SafetyNeverClears
<1>. DEFINE Step == LET before == replay_state(sealed).safety
                        after  == replay_state(sealed').safety
                    IN  /\ before = "RecallActive" => after = "RecallActive"
                        /\ before = "SecurityFlagged" => after # "None"
<1>1. MeaningInv /\ [Next]_sealed => [Step]_sealed
  <2> SUFFICES ASSUME MeaningInv, NEW at \in Time, NEW payload \in Payload,
                      Seal(at, payload)
               PROVE  Step
    BY DEF Next
  <2>1. /\ End'.recall <=> End.recall \/ payload.type = "RecallCampaign"
        /\ End'.security <=> End.security \/ payload.type = "FlagSecurity"
        /\ End \in State /\ End' \in State
    BY SealReplays DEF MeaningInv, EndMeaning
  <2>2. /\ replay_state(sealed).safety = IF End.recall THEN "RecallActive"
                       ELSE IF End.security THEN "SecurityFlagged" ELSE "None"
        /\ replay_state(sealed').safety = IF End'.recall THEN "RecallActive"
                       ELSE IF End'.security THEN "SecurityFlagged" ELSE "None"
    BY DEF replay_state, End
  <2>. QED BY <2>1, <2>2
<1>. QED BY <1>1, MeaningInvariance, PTL DEF Spec, SafetyNeverClears

--------------------------------------------------------------------------------
(* Views of the present and of the past, when the log refuses an event that *)
(* is dated before its last one.                                            *)

InOrder == \A i, j \in DOMAIN sealed : i <= j => sealed[i].at <= sealed[j].at

ChronicleInv == sealed \in Seq(Event) /\ InOrder

\* The last event is dated last, and so is the one that follows it.
LEMMA SealInOrder ==
    ASSUME "backdated" \in SealRefuses, ChronicleInv,
           NEW at \in Time, NEW payload \in Payload, Seal(at, payload)
    PROVE  LET n == Len(sealed) IN
           /\ n \in Nat /\ DOMAIN sealed = 1 .. n
           /\ sealed' \in Seq(Event) /\ Len(sealed') = n + 1 /\ DOMAIN sealed' = 1 .. n + 1
           /\ sealed'[n + 1].at = at
           /\ \A i \in 1 .. n : sealed'[i] = sealed[i] /\ sealed[i].at <= at
           /\ ChronicleInv'
<1>. DEFINE n == Len(sealed)
            event == [seq |-> n, at |-> at, payload |-> payload]
<1>1. sealed \in Seq(Event)
  BY DEF ChronicleInv
<1>2. event \in Event /\ sealed' = Append(sealed, event) /\ event.at = at
  BY <1>1, SealedEvent
<1>3. sealed # <<>> => at >= sealed[n].at
  BY DEF Seal, Seals
<1>. HIDE DEF event
<1>4. /\ n \in Nat /\ DOMAIN sealed = 1 .. n
      /\ sealed' \in Seq(Event) /\ Len(sealed') = n + 1 /\ DOMAIN sealed' = 1 .. n + 1
      /\ sealed'[n + 1] = event
      /\ \A i \in 1 .. n : sealed'[i] = sealed[i]
  BY <1>1, <1>2
<1>5. at \in Nat /\ \A i \in 1 .. n : sealed[i].at \in Nat
  <2>1. \A e \in Event : e.at \in Nat
    BY PassportLogAssumption DEF PassportLogAssumption, Event
  <2>2. \A i \in 1 .. n : sealed[i] \in Event
    BY <1>1
  <2>. QED BY <2>1, <2>2, PassportLogAssumption DEF PassportLogAssumption
<1>. HIDE DEF n
<1>6. ASSUME NEW i \in 1 .. n PROVE sealed[i].at <= at
  <2>1. n \in 1 .. n /\ i <= n /\ sealed # <<>>
    BY <1>4
  <2>2. sealed[i].at <= sealed[n].at
    BY <1>4, <2>1 DEF ChronicleInv, InOrder
  <2>. QED BY <1>3, <1>5, <2>1, <2>2
<1>7. InOrder'
  <2>. SUFFICES ASSUME NEW i \in 1 .. n + 1, NEW j \in 1 .. n + 1, i <= j
                PROVE  sealed'[i].at <= sealed'[j].at
    BY <1>4 DEF InOrder
  <2>1. CASE j \in 1 .. n
    <3>1. i \in 1 .. n
      BY <1>4, <2>1
    <3>. QED BY <1>4, <2>1, <3>1 DEF ChronicleInv, InOrder
  <2>2. CASE j = n + 1 /\ i \in 1 .. n
    BY <1>2, <1>4, <1>6, <2>2
  <2>3. CASE j = n + 1 /\ i = n + 1
    BY <1>2, <1>4, <1>5, <2>3
  <2>. QED BY <1>4, <2>1, <2>2, <2>3
<1>8. ChronicleInv'
  BY <1>4, <1>7 DEF ChronicleInv
<1>. QED BY <1>2, <1>4, <1>6, <1>8 DEF n

\* The order of the log holds throughout.
LEMMA ChronicleInvariance ==
    ASSUME "backdated" \in SealRefuses
    PROVE  Spec => []ChronicleInv
<1>1. Init => ChronicleInv
  BY DEF Init, ChronicleInv, InOrder
<1>2. ChronicleInv /\ [Next]_sealed => ChronicleInv'
  <2> SUFFICES ASSUME ChronicleInv, [Next]_sealed PROVE ChronicleInv'
    OBVIOUS
  <2>1. CASE UNCHANGED sealed
    BY <2>1 DEF ChronicleInv, InOrder
  <2>. QED BY <2>1, SealInOrder DEF Next
<1>. QED BY <1>1, <1>2, PTL DEF Spec

\* What had occurred at some moment is a prefix of the log.
OccurredAt(k, at) ==
    /\ k \in 0 .. Len(sealed)
    /\ \A i \in DOMAIN sealed : (\A t \in at : sealed[i].at <= t) <=> i <= k

\* In an ordered log the events up to an instant are a prefix.
LEMMA PrefixOccurred ==
    ASSUME ChronicleInv, NEW at \in At
    PROVE  \E k : OccurredAt(k, at)
<1>. DEFINE n == Len(sealed)
            Occurred == {i \in 1 .. n : \A t \in at : sealed[i].at <= t}
            Bounds == {m \in 0 .. n : \A i \in Occurred : i <= m}
<1>1. /\ n \in Nat /\ DOMAIN sealed = 1 .. n
      /\ \A i \in 1 .. n : sealed[i].at \in Nat
      /\ \A t \in at : t \in Nat
  <2>1. \A e \in Event : e.at \in Nat
    BY PassportLogAssumption DEF PassportLogAssumption, Event
  <2>2. sealed \in Seq(Event)
    BY DEF ChronicleInv
  <2>3. \A i \in 1 .. n : sealed[i] \in Event
    BY <2>2
  <2>4. \A t \in at : t \in Nat
    BY PassportLogAssumption DEF PassportLogAssumption, At
  <2>. QED BY <2>1, <2>2, <2>3, <2>4
<1>. HIDE DEF n
<1>2. n \in Bounds /\ Bounds \subseteq Nat
  BY <1>1
<1>3. PICK k \in Bounds : \A m \in Bounds : k <= m
  <2>. HIDE DEF Bounds
  <2>. QED BY <1>2, LeastNat
<1>4. ASSUME NEW i \in 1 .. n, i <= k PROVE i \in Occurred
  <2>1. k \in 1 .. n /\ k - 1 \in 0 .. n /\ ~(k <= k - 1)
    BY <1>1, <1>3, <1>4
  <2>2. k - 1 \notin Bounds
    BY <1>3, <2>1
  <2>3. PICK j \in Occurred : ~(j <= k - 1)
    BY <2>1, <2>2
  <2>4. j \in 1 .. n /\ i <= j
    BY <1>1, <1>4, <2>1, <2>3
  <2>5. sealed[i].at <= sealed[j].at
    BY <1>1, <2>4 DEF ChronicleInv, InOrder
  <2>6. \A t \in at : sealed[j].at <= t
    BY <2>3
  <2>. QED BY <1>1, <2>4, <2>5, <2>6
<1>5. \A i \in 1 .. n : i \in Occurred => i <= k
  BY <1>3
<1>6. \A i \in 1 .. n : (\A t \in at : sealed[i].at <= t) <=> i <= k
  BY <1>4, <1>5
<1>. QED BY <1>1, <1>3, <1>6 DEF OccurredAt, n

\* Both halves of a view are read off that prefix.
LEMMA ViewOfPrefix ==
    ASSUME sealed \in Seq(Event), NEW at \in At, NEW k, OccurredAt(k, at)
    PROVE  /\ passport_view(at).state = replay_state(SubSeq(sealed, 1, k))
           /\ passport_view(at).log_head = IF k = 0 THEN {} ELSE {SubSeq(sealed, 1, k)}
           /\ passport_view(at).events = Len(sealed)
<1>. DEFINE n == Len(sealed)
<1>1. n \in Nat /\ DOMAIN sealed = 1 .. n /\ k \in 0 .. n
      /\ \A i \in 1 .. n : (\A t \in at : sealed[i].at <= t) <=> i <= k
  BY DEF OccurredAt
<1>2. as_of(at) = SubSeq(sealed, 1, k)
  <2>1. {i \in DOMAIN sealed : \A t \in at : sealed[i].at <= t} = 1 .. k
    <3>. HIDE DEF n
    <3>. QED BY <1>1
  <2>. QED BY <2>1, <1>1, PickedPrefix DEF as_of
<1>3. CASE at = {}
  <2>1. k = n
    <3>. HIDE DEF n
    <3>1. k # n => n \in 1 .. n /\ ~(n <= k)
      BY <1>1
    <3>. QED BY <1>1, <1>3, <3>1
  <2>2. head = IF k = 0 THEN {} ELSE {SubSeq(sealed, 1, k)}
    BY <2>1 DEF head, Commitment
  <2>. QED BY <1>2, <1>3, <2>2 DEF passport_view
<1>4. ASSUME NEW t, at = {t}
      PROVE  state_hash_at(t) = IF k = 0 THEN {} ELSE {SubSeq(sealed, 1, k)}
  <2>. DEFINE occurred == {i \in DOMAIN sealed : sealed[i].at <= t}
              last == {j \in occurred : \A i \in occurred : i <= j}
  <2>1. occurred = 1 .. k
    <3>. HIDE DEF n
    <3>. QED BY <1>1, <1>4
  <2>2. last = IF k = 0 THEN {} ELSE {k}
    <3>1. last = {j \in 1 .. k : \A i \in 1 .. k : i <= j}
      BY <2>1
    <3>. HIDE DEF last, occurred
    <3>2. CASE k = 0
      BY <3>1, <3>2
    <3>3. CASE k # 0
      <4>1. k \in 1 .. k /\ \A j \in 1 .. k : k <= j => j = k
        BY <1>1, <3>3
      <4>2. \A i \in 1 .. k : i <= k
        BY <1>1
      <4>. QED BY <3>1, <3>3, <4>1, <4>2
    <3>. QED BY <3>2, <3>3
  <2>3. state_hash_at(t) = {Commitment(i) : i \in last}
    BY DEF state_hash_at
  <2>. HIDE DEF last
  <2>. QED BY <2>2, <2>3 DEF Commitment
<1>5. CASE at # {}
  <2>1. PICK t : at = {t}
    BY <1>5 DEF At
  <2>2. UNION {state_hash_at(u) : u \in at} = state_hash_at(t)
    BY <2>1
  <2>. QED BY <1>2, <1>4, <1>5, <2>1, <2>2 DEF passport_view
<1>6. passport_view(at).events = Len(sealed)
  BY DEF passport_view
<1>. QED BY <1>3, <1>5, <1>6

\* The same as one formula, which then holds in the next state too.
PrefixIsShown(k, at) ==
    /\ passport_view(at).state = replay_state(SubSeq(sealed, 1, k))
    /\ passport_view(at).log_head = IF k = 0 THEN {} ELSE {SubSeq(sealed, 1, k)}

ViewsShowPrefixes ==
    \A at \in At : \A k \in 0 .. Len(sealed) : OccurredAt(k, at) => PrefixIsShown(k, at)

\* In an ordered log every view is that of a prefix.
LEMMA ViewsOfPrefixes == ChronicleInv => ViewsShowPrefixes
BY ViewOfPrefix DEF ViewsShowPrefixes, PrefixIsShown, ChronicleInv

\* The state and the head of every view speak of one log, and a view from the last event
\* on is the view of today, if the log refuses backdated events.
THEOREM ViewsAreOneLog ==
    ASSUME "backdated" \in SealRefuses
    PROVE  Spec => []ViewIsOneLog
<1>1. ChronicleInv => ViewIsOneLog
  <2>. SUFFICES ASSUME ChronicleInv PROVE ViewIsOneLog
    OBVIOUS
  <2>0. sealed \in Seq(Event) /\ SubSeq(sealed, 1, 0) = <<>>
        /\ Len(sealed) \in Nat /\ DOMAIN sealed = 1 .. Len(sealed)
    BY DEF ChronicleInv
  <2>1. ASSUME NEW at \in At
        PROVE  LET view == passport_view(at) IN
               /\ view.log_head = {} => view.state = replay_state(<<>>)
               /\ \A committed \in view.log_head : view.state = replay_state(committed)
    <3>1. PICK k : OccurredAt(k, at)
      BY PrefixOccurred
    <3>2. /\ passport_view(at).state = replay_state(SubSeq(sealed, 1, k))
          /\ passport_view(at).log_head = IF k = 0 THEN {} ELSE {SubSeq(sealed, 1, k)}
      BY <2>0, <3>1, ViewOfPrefix
    <3>. QED BY <2>0, <3>2
  <2>2. ASSUME NEW t \in Time, \A i \in DOMAIN sealed : sealed[i].at <= t
        PROVE  passport_view({t}) = passport_view({})
    <3>1. {t} \in At /\ {} \in At
      BY DEF At
    <3>2. OccurredAt(Len(sealed), {t}) /\ OccurredAt(Len(sealed), {})
      BY <2>0, <2>2 DEF OccurredAt
    <3>3. /\ passport_view({t}).state = passport_view({}).state
          /\ passport_view({t}).log_head = passport_view({}).log_head
          /\ passport_view({t}).events = passport_view({}).events
      <4>. DEFINE k == Len(sealed)
      <4>1. /\ passport_view({t}).state = replay_state(SubSeq(sealed, 1, k))
            /\ passport_view({t}).log_head = IF k = 0 THEN {} ELSE {SubSeq(sealed, 1, k)}
            /\ passport_view({t}).events = Len(sealed)
        BY <2>0, <3>1, <3>2, ViewOfPrefix
      <4>2. /\ passport_view({}).state = replay_state(SubSeq(sealed, 1, k))
            /\ passport_view({}).log_head = IF k = 0 THEN {} ELSE {SubSeq(sealed, 1, k)}
            /\ passport_view({}).events = Len(sealed)
        BY <2>0, <3>1, <3>2, ViewOfPrefix
      <4>. QED BY <4>1, <4>2
    <3>. QED BY <3>3 DEF passport_view
  <2>. QED BY <2>1, <2>2 DEF ViewIsOneLog
<1>. QED BY <1>1, ChronicleInvariance, PTL

\* What a view says of a moment that the log has gone past is said for good, if the log
\* refuses backdated events.
THEOREM SettledViewsAlwaysStand ==
    ASSUME "backdated" \in SealRefuses
    PROVE  Spec => SettledViewsStand
<1>. DEFINE Settled == \A t \in Time :
                (\E i \in DOMAIN sealed : sealed[i].at > t)
                    => Answer(passport_view({t}))' = Answer(passport_view({t}))
<1>1. ChronicleInv /\ [Next]_sealed => [Settled]_sealed
  <2> SUFFICES ASSUME ChronicleInv, NEW at \in Time, NEW payload \in Payload,
                      Seal(at, payload), NEW t \in Time,
                      NEW i \in DOMAIN sealed, sealed[i].at > t
               PROVE  Answer(passport_view({t}))' = Answer(passport_view({t}))
    BY DEF Next
  <2>. DEFINE n == Len(sealed)
  <2>1. /\ n \in Nat /\ DOMAIN sealed = 1 .. n
        /\ sealed' \in Seq(Event) /\ Len(sealed') = n + 1 /\ DOMAIN sealed' = 1 .. n + 1
        /\ sealed'[n + 1].at = at
        /\ \A j \in 1 .. n : sealed'[j] = sealed[j] /\ sealed[j].at <= at
        /\ ChronicleInv'
    BY SealInOrder
  <2>2. PICK k : OccurredAt(k, {t})
    <3>1. {t} \in At
      BY DEF At
    <3>. QED BY <3>1, PrefixOccurred
  <2>3. /\ at \in Nat /\ t \in Nat /\ sealed[i].at \in Nat /\ ~(at <= t)
    <3>1. \A e \in Event : e.at \in Nat
      BY PassportLogAssumption DEF PassportLogAssumption, Event
    <3>2. sealed[i] \in Event
      BY DEF ChronicleInv
    <3>3. at \in Nat /\ t \in Nat
      BY PassportLogAssumption DEF PassportLogAssumption
    <3>. QED BY <2>1, <3>1, <3>2, <3>3
  <2>. HIDE DEF n
  <2>4. k \in 0 .. n /\ \A j \in 1 .. n : sealed[j].at <= t <=> j <= k
    BY <2>1, <2>2 DEF OccurredAt, n
  <2>5. k \in 0 .. n + 1 /\ \A j \in 1 .. n + 1 : sealed'[j].at <= t <=> j <= k
    <3>1. \A j \in 1 .. n + 1 : j \in 1 .. n \/ j = n + 1
      BY <2>1
    <3>2. ~(n + 1 <= k) /\ k \in 0 .. n + 1
      BY <2>1, <2>4
    <3>. QED BY <2>1, <2>3, <2>4, <3>1, <3>2
  <2>6. OccurredAt(k, {t})'
    BY <2>1, <2>5 DEF OccurredAt
  <2>7. SubSeq(sealed', 1, k) = SubSeq(sealed, 1, k)
    <3>1. SubSeq(sealed', 1, k) = [j \in 1 .. k |-> sealed'[j]]
      BY <2>1, <2>5
    <3>2. SubSeq(sealed, 1, k) = [j \in 1 .. k |-> sealed[j]]
      BY <2>1, <2>4 DEF ChronicleInv, n
    <3>3. \A j \in 1 .. k : j \in 1 .. n
      BY <2>1, <2>4
    <3>. QED BY <2>1, <3>1, <3>2, <3>3
  <2>8. ViewsShowPrefixes /\ ViewsShowPrefixes'
    <3>1. ChronicleInv' => ViewsShowPrefixes'
      BY ViewsOfPrefixes, PTL
    <3>. QED BY <2>1, <3>1, ViewsOfPrefixes
  <2>9. PrefixIsShown(k, {t}) /\ PrefixIsShown(k, {t})'
    <3>1. {t} \in At
      BY DEF At
    <3>. QED BY <2>1, <2>2, <2>4, <2>5, <2>6, <2>8, <3>1 DEF ViewsShowPrefixes, n
  <2>. QED BY <2>7, <2>9 DEF Answer, PrefixIsShown
<1>. QED BY <1>1, ChronicleInvariance, PTL DEF Spec, SettledViewsStand
================================================================================

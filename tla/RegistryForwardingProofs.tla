------------------------ MODULE RegistryForwardingProofs ------------------------
(****************************************************************************)
(* Theorems about RegistryForwarding, for any number of requests, profiles  *)
(* and versions, any registry and any loss of messages and processes.       *)
(****************************************************************************)
EXTENDS RegistryForwarding, FiniteSetTheorems, TLAPS

--------------------------------------------------------------------------------
(* The inductive invariant.                                                 *)

Outcome == {"registry", "fixtures", "unreachable"}

\* How far a request has come fixes what it can have left behind: nothing before it is
\* received, an outcome once forward has returned.  A late registry acts only on
\* requests that were received.
Stage ==
    \A r \in Request :
        /\ pc[r] = "idle" => /\ wire[r] = "none" /\ outcome[r] = "none"
                             /\ reply[r] = "none"
        /\ pc[r] # "idle" => op[r] \in AdminOp
        /\ pc[r] = "awaiting" => outcome[r] = "none" /\ reply[r] = "none"
        /\ pc[r] = "returned" => outcome[r] \in Outcome /\ reply[r] = "none"

\* What is attributed to the registry is held by it, the acceptances still under way
\* included.
Authority ==
    /\ \A r \in Request :
        /\ wire[r] = "accepted" => op[r] \in held
        /\ outcome[r] = "registry" => op[r] \in held
    /\ \A i \in DOMAIN records : records[i].via = "registry" => records[i].op \in held

\* A binding under way names a known profile from its first check on.
KnownSince ==
    /\ \A r \in Request :
        pc[r] \in {"awaiting", "returned"} /\ op[r].type = "BindApplicability" =>
            op[r].profile_id \in DOMAIN profiles
    /\ NoLateRefusal

IInv == TypeOK /\ Stage /\ Authority /\ KnownSince

Receive(r, ask) == ReceiveProfile(r, ask) \/ ReceiveBinding(r, ask)

\* Receiving a request: it gets its operation, and is refused, sent or let through.
LEMMA ReceiveStep ==
    ASSUME IInv, NEW r \in Request, NEW ask \in AdminOp, Receive(r, ask)
    PROVE  IInv'
<1>. USE DEF IInv, Receive, ReceiveProfile, ReceiveBinding, Asks, Forward, Reply,
             Configurations, issuer, request, registry, store
<1>1. TypeOK'
  <2>1. preceded' \in [Request -> SUBSET Request] /\ accepted' \in Seq(Request)
    <3>1. Confirmed \in SUBSET Request
      BY DEF Confirmed
    <3>. QED BY <3>1 DEF TypeOK
  <2>2. /\ op' \in [Request -> AdminOp \cup {Nothing}]
        /\ pc' \in [Request -> {"idle", "awaiting", "returned", "done"}]
    BY DEF TypeOK
  <2>3. reply' \in [Request -> {"none", "created", "conflict", "invalid",
                                "rejected", "failed", "lost"}]
    BY DEF TypeOK
  <2>4. /\ outcome' \in [Request -> {"none", "registry", "fixtures", "unreachable"}]
        /\ wire' \in [Request -> {"none", "request", "accepted", "rejected", "broken"}]
    BY DEF TypeOK
  <2>. QED BY <2>1, <2>2, <2>3, <2>4 DEF TypeOK
<1>2. Stage'
  BY DEF TypeOK, Stage, Outcome
<1>3. Authority'
  BY DEF TypeOK, Stage, Authority
<1>4. KnownSince'
  <2>1. /\ \A q \in Request : q # r =>
                pc'[q] = pc[q] /\ op'[q] = op[q] /\ reply'[q] = reply[q] /\ outcome'[q] = outcome[q]
        /\ profiles' = profiles /\ op'[r] = ask
    BY DEF TypeOK
  <2>2. /\ pc'[r] \in {"awaiting", "returned"} /\ ask.type = "BindApplicability" =>
                ask.profile_id \in DOMAIN profiles
        /\ reply'[r] = "invalid" => outcome'[r] = "none"
    BY DEF TypeOK, Stage, KnownLocally
  <2>. QED BY <2>1, <2>2 DEF TypeOK, Stage, KnownSince, NoLateRefusal
<1>. QED BY <1>1, <1>2, <1>3, <1>4

\* forward returns, by an answer, an error or its timer, or the handler is dropped.
LEMMA AwaitStep ==
    ASSUME IInv, NEW r \in Request,
           Answered(r) \/ HttpError(r) \/ TimeOut(r) \/ Disconnect(r)
    PROVE  IInv'
<1>. USE DEF IInv, Answered, HttpError, TimeOut, Unreached, Disconnect, Reply, issuer,
             request, registry, store
<1>1. TypeOK'
  <2>1. pc' \in [Request -> {"idle", "awaiting", "returned", "done"}]
    <3>1. \E stage \in {"returned", "done"} : pc' = [pc EXCEPT ![r] = stage]
      OBVIOUS
    <3>. QED BY <3>1 DEF TypeOK
  <2>2. outcome' \in [Request -> {"none", "registry", "fixtures", "unreachable"}]
    BY DEF TypeOK
  <2>3. reply' \in [Request -> {"none", "created", "conflict", "invalid",
                                "rejected", "failed", "lost"}]
    BY DEF TypeOK
  <2>4. UNCHANGED <<configured, op, preceded, wire, held, accepted, profiles, records,
                    crashes>>
    OBVIOUS
  <2>. HIDE DEF Answered, HttpError, TimeOut, Disconnect
  <2>. QED BY <2>1, <2>2, <2>3, <2>4 DEF TypeOK
<1>2. Stage'
  BY DEF TypeOK, Stage, Outcome
<1>3. Authority'
  BY DEF TypeOK, Stage, Authority
<1>4. KnownSince'
  BY DEF TypeOK, Stage, KnownSince, NoLateRefusal
<1>. QED BY <1>1, <1>2, <1>3, <1>4

\* The registry and the connection, which only ever add to what is held.
LEMMA RegistryStep ==
    ASSUME IInv, NEW r \in Request, Registry(r)
    PROVE  IInv'
<1>. USE DEF IInv, Registry, RegistryAccepts, RegistryRejects, ConnectionBreaks, issuer,
             request, registry, store
<1>1. TypeOK'
  <2>1. held' \subseteq AdminOp /\ accepted' \in Seq(Request)
    <3>1. CASE RegistryAccepts(r)
      <4>1. op[r] \in AdminOp /\ held' = held \cup {op[r]} /\ accepted' = Append(accepted, r)
        BY <3>1 DEF Stage
      <4>. QED BY <4>1 DEF TypeOK
    <3>2. CASE RegistryRejects(r) \/ ConnectionBreaks(r)
      BY <3>2 DEF TypeOK
    <3>. QED BY <3>1, <3>2
  <2>2. wire' \in [Request -> {"none", "request", "accepted", "rejected", "broken"}]
    BY DEF TypeOK
  <2>3. UNCHANGED <<configured, pc, op, preceded, outcome, reply, profiles, records,
                    crashes>>
    OBVIOUS
  <2>. HIDE DEF Registry
  <2>. QED BY <2>1, <2>2, <2>3 DEF TypeOK
<1>2. Stage'
  BY DEF TypeOK, Stage
<1>3. Authority'
  BY DEF TypeOK, Stage, Authority
<1>4. KnownSince'
  BY DEF KnownSince, NoLateRefusal
<1>. QED BY <1>1, <1>2, <1>3, <1>4

\* What a mutation leaves in the store: well-typed, no profile less, and one record more,
\* with the outcome of its request.
LEMMA StoreStep ==
    ASSUME IInv, NEW r \in Request, pc[r] = "returned", Recorded(r)
    PROVE  /\ DOMAIN profiles' \subseteq ProfileId
           /\ \A id \in DOMAIN profiles' : profiles'[id] \in Version
           /\ DOMAIN profiles \subseteq DOMAIN profiles'
           /\ records' \in Seq([req : Request, op : AdminOp, via : Outcome])
           /\ \A i \in DOMAIN records' :
                \/ i \in DOMAIN records /\ records'[i] = records[i]
                \/ records'[i].op = op[r] /\ records'[i].via = outcome[r]
<1>. USE DEF IInv, Recorded
<1>1. op[r] \in AdminOp /\ outcome[r] \in Outcome
  BY DEF Stage
<1>2. op[r].type = "RegisterProfile" =>
            op[r].profile_id \in ProfileId /\ op[r].version \in Version
  BY <1>1 DEF AdminOp, RegisterOp, BindOp
<1>3. /\ DOMAIN profiles' \subseteq ProfileId
      /\ \A id \in DOMAIN profiles' : profiles'[id] \in Version
      /\ DOMAIN profiles \subseteq DOMAIN profiles'
  BY <1>2 DEF TypeOK, Insert
<1>4. /\ records \in Seq([req : Request, op : AdminOp, via : Outcome])
      /\ [req |-> r, op |-> op[r], via |-> outcome[r]]
              \in [req : Request, op : AdminOp, via : Outcome]
      /\ records' = Append(records, [req |-> r, op |-> op[r], via |-> outcome[r]])
  BY <1>1 DEF TypeOK, Journal, Outcome
<1>5. ASSUME NEW i \in DOMAIN records'
      PROVE  \/ i \in DOMAIN records /\ records'[i] = records[i]
             \/ records'[i].op = op[r] /\ records'[i].via = outcome[r]
  BY <1>4
<1>6. records' \in Seq([req : Request, op : AdminOp, via : Outcome])
  BY <1>4
<1>. QED BY <1>3, <1>5, <1>6

\* A mutation under the lock, recorded or refused, and its reply.
LEMMA RecordStep ==
    ASSUME IInv, NEW r \in Request, RecordProfile(r) \/ RecordBinding(r)
    PROVE  IInv'
<1>. USE DEF IInv, Reply
<1>1. /\ pc[r] = "returned"
      /\ pc' = [pc EXCEPT ![r] = "done"]
      /\ UNCHANGED <<configured, op, preceded, outcome, wire, held, accepted, crashes>>
      /\ \E answer \in {"created", "failed", "conflict", "invalid"} :
            /\ reply' = [reply EXCEPT ![r] = answer]
            /\ answer # "invalid" \/ outcome[r] = "none"
      /\ Recorded(r) \/ UNCHANGED store
  BY DEF RecordProfile, RecordBinding, Admitted, KnownSince, Stage, AdminOp, RegisterOp,
         BindOp, request, registry
<1>2. Stage'
  BY <1>1 DEF TypeOK, Stage
<1>3. CASE UNCHANGED store
  <2>1. TypeOK'
    BY <1>1, <1>3 DEF TypeOK, store
  <2>2. Authority'
    BY <1>1, <1>3 DEF Authority, store
  <2>3. KnownSince'
    BY <1>1, <1>3 DEF TypeOK, KnownSince, NoLateRefusal, store
  <2>. QED BY <1>2, <2>1, <2>2, <2>3
<1>4. CASE Recorded(r)
  <2>1. TypeOK'
    <3>1. /\ DOMAIN profiles' \subseteq ProfileId
          /\ \A id \in DOMAIN profiles' : profiles'[id] \in Version
          /\ records' \in Seq([req : Request, op : AdminOp, via : Outcome])
      BY <1>4, <1>1, StoreStep
    <3>2. /\ pc' \in [Request -> {"idle", "awaiting", "returned", "done"}]
          /\ reply' \in [Request -> {"none", "created", "conflict", "invalid",
                                    "rejected", "failed", "lost"}]
      BY <1>1 DEF TypeOK
    <3>. QED BY <1>1, <3>1, <3>2 DEF TypeOK, Outcome
  <2>2. Authority'
    BY <1>1, <1>4, StoreStep DEF TypeOK, Authority
  <2>3. KnownSince'
    BY <1>1, <1>4, StoreStep DEF TypeOK, KnownSince, NoLateRefusal
  <2>. QED BY <1>2, <2>1, <2>2, <2>3
<1>. QED BY <1>1, <1>3, <1>4

\* A restart ends every request under way, leaves the registry alone, and finds at most
\* one more record in the store.
LEMMA RestartStep ==
    ASSUME IInv, Restart
    PROVE  IInv'
<1>. USE DEF IInv, Restart, Configurations, request, registry
<1>1. Stage'
  BY DEF TypeOK, Stage
<1>2. CASE UNCHANGED store
  <2>1. TypeOK'
    BY <1>2 DEF TypeOK, store
  <2>2. Authority'
    BY <1>2 DEF Authority, store
  <2>3. KnownSince'
    BY <1>2 DEF TypeOK, KnownSince, NoLateRefusal, store
  <2>. QED BY <1>1, <2>1, <2>2, <2>3
<1>3. ASSUME NEW r \in Request, pc[r] = "returned", Recorded(r)
      PROVE  IInv'
  <2>1. TypeOK'
    <3>1. /\ DOMAIN profiles' \subseteq ProfileId
          /\ \A id \in DOMAIN profiles' : profiles'[id] \in Version
          /\ records' \in Seq([req : Request, op : AdminOp, via : Outcome])
      BY <1>3, StoreStep
    <3>2. /\ pc' \in [Request -> {"idle", "awaiting", "returned", "done"}]
          /\ reply' \in [Request -> {"none", "created", "conflict", "invalid",
                                    "rejected", "failed", "lost"}]
      BY DEF TypeOK
    <3>. QED BY <3>1, <3>2 DEF TypeOK, Outcome
  <2>2. Authority'
    <3>1. ASSUME NEW i \in DOMAIN records', records'[i].via = "registry"
          PROVE  records'[i].op \in held
      BY <1>3, <3>1, StoreStep DEF Authority
    <3>. QED BY <3>1 DEF Authority
  <2>3. KnownSince'
    BY <1>3, StoreStep DEF TypeOK, KnownSince, NoLateRefusal
  <2>. QED BY <1>1, <2>1, <2>2, <2>3
<1>. QED BY <1>2, <1>3

\* The invariant is inductive.
LEMMA Invariance == Spec => []IInv
<1>1. Init => IInv
  BY DEF Init, Configurations, IInv, TypeOK, Stage, Authority, KnownSince, NoLateRefusal
<1>2. IInv /\ [Next]_vars => IInv'
  <2> SUFFICES ASSUME IInv, [Next]_vars PROVE IInv'
    OBVIOUS
  <2>1. CASE UNCHANGED vars
    BY <2>1 DEF vars, issuer, request, registry, store, IInv, TypeOK, Stage, Authority, KnownSince,
                NoLateRefusal
  <2>. QED BY <2>1, ReceiveStep, AwaitStep, RegistryStep, RecordStep,
              RestartStep DEF Next, Handler, Receive
<1>. QED BY <1>1, <1>2, PTL DEF Spec

\* Each variable has its type.
THEOREM TypeCorrect == Spec => []TypeOK
<1>1. IInv => TypeOK
  BY DEF IInv
<1>. QED BY <1>1, Invariance, PTL

\* No record and no reply in the making claims the registry's authority for an item the
\* registry does not hold, however messages are lost, delayed or left behind.
THEOREM AuthorityIsTrue == Spec => []NoFalseAuthority
<1>1. IInv => NoFalseAuthority
  BY DEF IInv, Authority, NoFalseAuthority
<1>. QED BY <1>1, Invariance, PTL

\* A binding that was forwarded is never refused after its await for an unknown profile.
THEOREM ForwardedIsKnown == Spec => []NoLateRefusal
<1>1. IInv => NoLateRefusal
  BY DEF IInv, KnownSince
<1>. QED BY <1>1, Invariance, PTL
--------------------------------------------------------------------------------
(* Records, replies and the two orders: here and at the registry.           *)

\* A record is of a request that is over, with its operation and its outcome, and its
\* client was told so, or lost it to a crash.
RecordsTell ==
    \A i \in DOMAIN records :
        LET r == records[i].req IN
        /\ pc[r] = "done" /\ records[i].op = op[r] /\ records[i].via = outcome[r]
        /\ reply[r] = "created" \/ (reply[r] = "lost" /\ crashes > 0)

OneRecordEach == \A i, j \in DOMAIN records : records[i].req = records[j].req => i = j

CreatedHasRecord ==
    \A r \in Request : reply[r] = "created" =>
        pc[r] = "done" /\ \E i \in DOMAIN records : records[i].req = r

\* The registry accepts a request at most once, and has accepted those it is credited for.
AcceptedOnce ==
    /\ \A k \in DOMAIN accepted : wire[accepted[k]] \in {"accepted", "broken"}
    /\ \A k, l \in DOMAIN accepted : accepted[k] = accepted[l] => k = l
    /\ \A r \in Request : wire[r] = "accepted" \/ outcome[r] = "registry" =>
            \E k \in DOMAIN accepted : accepted[k] = r

\* What was confirmed before a request came has an earlier place in both orders.
Precedence ==
    \A q \in Request : \A r \in preceded[q] :
        /\ r \in Confirmed
        /\ \A k \in DOMAIN accepted : accepted[k] = q =>
                \E l \in DOMAIN accepted : accepted[l] = r /\ l < k
        /\ \E j \in DOMAIN records :
                records[j].req = r /\ \A i \in DOMAIN records : records[i].req = q => j < i

OrderInv == RecordsTell /\ OneRecordEach /\ CreatedHasRecord /\ AcceptedOnce /\ Precedence

\* The profile map says what the last registration of each profile says.
Registers(i, id) == records[i].op.type = "RegisterProfile" /\ records[i].op.profile_id = id

LastRegistered(id, v) ==
    \E i \in DOMAIN records :
        /\ Registers(i, id) /\ records[i].op.version = v
        /\ \A j \in i + 1 .. Len(records) : ~Registers(j, id)

ProfilesFollowRecords ==
    \A id \in ProfileId : \A v \in Version :
        (id \in DOMAIN profiles /\ profiles[id] = v) <=> LastRegistered(id, v)

\* Who made each record.
LEMMA RecordReqs ==
    ASSUME TypeOK
    PROVE  /\ \A i \in DOMAIN records :
                records[i].req \in Request /\ records[i].op \in AdminOp
           /\ crashes \in Nat
<1>. DEFINE Rec == [req : Request, op : AdminOp,
                    via : {"registry", "fixtures", "unreachable"}]
<1>1. records \in Seq(Rec) /\ crashes \in Nat
  BY DEF TypeOK
<1>2. \A r \in Rec : r.req \in Request /\ r.op \in AdminOp
  OBVIOUS
<1>. HIDE DEF Rec
<1>3. \A i \in DOMAIN records : records[i] \in Rec
  BY <1>1
<1>. QED BY <1>1, <1>2, <1>3

\* Receiving a request: it has no place in either order yet.
LEMMA ReceiveKeepsOrder ==
    ASSUME IInv, OrderInv, NEW r \in Request, NEW ask \in AdminOp, Receive(r, ask)
    PROVE  OrderInv'
<1>. USE DEF IInv, OrderInv
<1>1. /\ pc[r] = "idle" /\ wire[r] = "none" /\ outcome[r] = "none" /\ reply[r] = "none"
      /\ \A q \in Request : q # r =>
            /\ pc'[q] = pc[q] /\ op'[q] = op[q] /\ outcome'[q] = outcome[q]
            /\ reply'[q] = reply[q] /\ wire'[q] = wire[q] /\ preceded'[q] = preceded[q]
      /\ preceded'[r] = Confirmed /\ reply'[r] # "created"
      /\ outcome'[r] # "registry" /\ wire'[r] # "accepted"
      /\ UNCHANGED <<accepted, records, crashes>>
  BY DEF Receive, ReceiveProfile, ReceiveBinding, Asks, Forward, Reply, Stage, TypeOK,
         registry, store
<1>2. \A i \in DOMAIN records : records[i].req \in Request /\ records[i].req # r
  <2>1. \A i \in DOMAIN records : records[i].req \in Request
    BY RecordReqs
  <2>. QED BY <1>1, <2>1 DEF RecordsTell
<1>3. \A k \in DOMAIN accepted : accepted[k] \in Request /\ accepted[k] # r
  BY <1>1 DEF AcceptedOnce, TypeOK
<1>4. RecordsTell' /\ OneRecordEach'
  BY <1>1, <1>2 DEF RecordsTell, OneRecordEach
<1>5. CreatedHasRecord'
  BY <1>1 DEF CreatedHasRecord
<1>6. AcceptedOnce'
  BY <1>1, <1>3 DEF AcceptedOnce
<1>7. \A q \in Request : q \in Confirmed => q \in Confirmed'
  BY <1>1 DEF Confirmed
<1>8. ASSUME NEW q \in Request, NEW x \in preceded'[q]
      PROVE  /\ x \in Confirmed'
             /\ \A k \in DOMAIN accepted' : accepted'[k] = q =>
                    \E l \in DOMAIN accepted' : accepted'[l] = x /\ l < k
             /\ \E j \in DOMAIN records' :
                    records'[j].req = x /\ \A i \in DOMAIN records' : records'[i].req = q => j < i
  <2>1. CASE q # r
    BY <1>1, <1>7, <1>8, <2>1 DEF Precedence, Confirmed
  <2>2. CASE q = r
    <3>1. x \in Confirmed /\ x \in Request /\ reply[x] = "created"
      BY <1>1, <1>8, <2>2 DEF Confirmed
    <3>2. PICK j \in DOMAIN records : records[j].req = x
      BY <3>1 DEF CreatedHasRecord
    <3>. QED BY <1>1, <1>2, <1>3, <1>7, <2>2, <3>1, <3>2
  <2>. QED BY <2>1, <2>2
<1>. QED BY <1>4, <1>5, <1>6, <1>8 DEF Precedence

\* forward returns or the handler is dropped: an outcome "registry" has been earned.
LEMMA AwaitKeepsOrder ==
    ASSUME IInv, OrderInv, NEW r \in Request,
           Answered(r) \/ HttpError(r) \/ TimeOut(r) \/ Disconnect(r)
    PROVE  OrderInv'
<1>. USE DEF IInv, OrderInv
<1>1. /\ pc[r] = "awaiting" /\ reply[r] = "none" /\ reply'[r] # "created"
      /\ \A q \in Request : q # r =>
            pc'[q] = pc[q] /\ outcome'[q] = outcome[q] /\ reply'[q] = reply[q]
      /\ outcome'[r] = "registry" => wire[r] = "accepted" \/ outcome[r] = "registry"
      /\ UNCHANGED <<op, preceded, wire, accepted, records, crashes>>
  BY DEF Answered, HttpError, TimeOut, Unreached, Disconnect, Reply, Stage, TypeOK,
         request, registry, store
<1>2. \A i \in DOMAIN records : records[i].req \in Request /\ records[i].req # r
  <2>1. \A i \in DOMAIN records : records[i].req \in Request
    BY RecordReqs
  <2>. QED BY <1>1, <2>1 DEF RecordsTell
<1>3. RecordsTell' /\ OneRecordEach'
  BY <1>1, <1>2 DEF RecordsTell, OneRecordEach
<1>4. CreatedHasRecord'
  BY <1>1 DEF CreatedHasRecord
<1>5. AcceptedOnce'
  BY <1>1 DEF AcceptedOnce
<1>6. Confirmed \subseteq Confirmed'
  BY <1>1 DEF Confirmed
<1>7. Precedence'
  BY <1>1, <1>6 DEF Precedence
<1>. QED BY <1>3, <1>4, <1>5, <1>7

\* The registry accepts a request for the first time, after all that were confirmed.
LEMMA RegistryKeepsOrder ==
    ASSUME IInv, OrderInv, NEW r \in Request, Registry(r)
    PROVE  OrderInv'
<1>. USE DEF IInv, OrderInv
<1>1. /\ \A q \in Request : q # r => wire'[q] = wire[q]
      /\ UNCHANGED <<pc, op, preceded, outcome, reply, records, crashes>>
  BY DEF Registry, RegistryAccepts, RegistryRejects, ConnectionBreaks, issuer, request, store,
         TypeOK
<1>2. RecordsTell' /\ OneRecordEach' /\ CreatedHasRecord' /\ Confirmed' = Confirmed
  BY <1>1 DEF RecordsTell, OneRecordEach, CreatedHasRecord, Confirmed
<1>3. \A k \in DOMAIN accepted : accepted[k] \in Request
  BY DEF TypeOK
<1>4. CASE RegistryAccepts(r)
  <2>. DEFINE n == Len(accepted)
  <2>1. wire[r] = "request" /\ wire'[r] = "accepted" /\ accepted' = Append(accepted, r)
    BY <1>4 DEF RegistryAccepts, TypeOK
  <2>2. /\ n \in Nat /\ DOMAIN accepted = 1 .. n /\ DOMAIN accepted' = 1 .. n + 1
        /\ \A k \in 1 .. n : accepted'[k] = accepted[k]
        /\ accepted'[n + 1] = r
    BY <2>1 DEF TypeOK
  <2>3. \A k \in 1 .. n : accepted[k] # r
    BY <2>1, <2>2 DEF AcceptedOnce
  <2>4. \A k \in 1 .. n + 1 : k \in 1 .. n \/ k = n + 1
    BY <2>2
  <2>. HIDE DEF n
  <2>5. AcceptedOnce'
    <3>1. \A k \in DOMAIN accepted' : wire'[accepted'[k]] \in {"accepted", "broken"}
      BY <1>1, <1>3, <2>1, <2>2, <2>3, <2>4 DEF AcceptedOnce
    <3>2. \A k, l \in DOMAIN accepted' : accepted'[k] = accepted'[l] => k = l
      BY <2>2, <2>3, <2>4 DEF AcceptedOnce
    <3>3. ASSUME NEW q \in Request, wire'[q] = "accepted" \/ outcome'[q] = "registry"
          PROVE  \E k \in DOMAIN accepted' : accepted'[k] = q
      <4>1. CASE q = r
        BY <2>2, <4>1
      <4>2. CASE q # r
        <5>1. PICK k \in DOMAIN accepted : accepted[k] = q
          BY <1>1, <3>3, <4>2 DEF AcceptedOnce
        <5>2. k \in DOMAIN accepted' /\ accepted'[k] = q
          BY <2>2, <5>1
        <5>. QED BY <5>2
      <4>. QED BY <4>1, <4>2
    <3>. QED BY <3>1, <3>2, <3>3 DEF AcceptedOnce
  <2>6. ASSUME NEW q \in Request, NEW x \in preceded[q], NEW k \in DOMAIN accepted',
               accepted'[k] = q
        PROVE  \E l \in DOMAIN accepted' : accepted'[l] = x /\ l < k
    <3>1. CASE k \in 1 .. n
      <4>1. PICK l \in DOMAIN accepted : accepted[l] = x /\ l < k
        BY <2>2, <2>6, <3>1 DEF Precedence
      <4>2. l \in DOMAIN accepted' /\ accepted'[l] = x
        BY <2>2, <4>1
      <4>. QED BY <4>1, <4>2
    <3>2. CASE k = n + 1
      <4>1. x \in Request /\ outcome[x] = "registry"
        BY <2>6 DEF Precedence, Confirmed
      <4>2. PICK l \in DOMAIN accepted : accepted[l] = x
        BY <4>1 DEF AcceptedOnce
      <4>3. l \in DOMAIN accepted' /\ accepted'[l] = x /\ l < k
        BY <2>2, <3>2, <4>2
      <4>. QED BY <4>3
    <3>. QED BY <2>2, <2>4, <3>1, <3>2
  <2>7. Precedence'
    BY <1>1, <1>2, <2>6 DEF Precedence
  <2>. QED BY <1>2, <2>5, <2>7
<1>5. CASE RegistryRejects(r) \/ ConnectionBreaks(r)
  <2>1. /\ accepted' = accepted
        /\ wire'[r] = "rejected" => wire[r] = "request"
        /\ wire'[r] \in {"rejected", "broken"}
    BY <1>5 DEF RegistryRejects, ConnectionBreaks, registry, TypeOK
  <2>2. AcceptedOnce'
    BY <1>1, <1>3, <2>1 DEF AcceptedOnce
  <2>3. Precedence'
    BY <1>1, <1>2, <2>1 DEF Precedence
  <2>. QED BY <1>2, <2>2, <2>3
<1>. QED BY <1>4, <1>5 DEF Registry
\* A record comes last.
LEMMA RecordAdded ==
    ASSUME TypeOK, NEW r \in Request, Recorded(r)
    PROVE  LET n == Len(records) IN
           /\ n \in Nat /\ DOMAIN records = 1 .. n
           /\ Len(records') = n + 1 /\ DOMAIN records' = 1 .. n + 1
           /\ \A i \in 1 .. n : records'[i] = records[i]
           /\ records'[n + 1] = [req |-> r, op |-> op[r], via |-> outcome[r]]
           /\ records'[n + 1].op = op[r]
           /\ \A i \in 1 .. n + 1 : i \in 1 .. n \/ i = n + 1
BY DEF TypeOK, Recorded, Journal

\* What a step that adds a record of r at most does to the two orders, when it ends no
\* request but those under way.
LEMMA RecordedKeepsOrder ==
    ASSUME IInv, OrderInv, NEW r \in Request, pc[r] = "returned", Recorded(r),
           UNCHANGED <<op, preceded, outcome, wire, accepted>>, crashes' \in Nat, crashes' >= crashes,
           \A q \in Request : pc[q] = "done" => pc'[q] = "done" /\ reply'[q] = reply[q],
           \A q \in Request : q # r /\ reply'[q] = "created" => reply[q] = "created",
           pc'[r] = "done",
           reply'[r] = "created" \/ (reply'[r] = "lost" /\ crashes' > 0)
    PROVE  OrderInv'
<1>. USE DEF IInv, OrderInv
<1>. DEFINE n == Len(records)
<1>1. /\ n \in Nat /\ DOMAIN records = 1 .. n /\ DOMAIN records' = 1 .. n + 1
      /\ \A i \in 1 .. n : records'[i] = records[i]
      /\ records'[n + 1] = [req |-> r, op |-> op[r], via |-> outcome[r]]
      /\ \A i \in 1 .. n + 1 : i \in 1 .. n \/ i = n + 1
  BY RecordAdded
<1>. HIDE DEF n
<1>2. \A i \in 1 .. n : records[i].req \in Request /\ records[i].req # r
  <2>1. \A i \in DOMAIN records : records[i].req \in Request
    BY RecordReqs
  <2>. QED BY <1>1, <2>1 DEF RecordsTell
<1>3. RecordsTell'
  <2>1. ASSUME NEW i \in 1 .. n, NEW q, q = records[i].req
        PROVE  /\ pc'[q] = "done" /\ records'[i] = records[i]
               /\ records[i].op = op[q] /\ records[i].via = outcome[q]
               /\ reply'[q] = "created" \/ (reply'[q] = "lost" /\ crashes' > 0)
    <3>1. q \in Request /\ pc[q] = "done" /\ pc'[q] = "done" /\ reply'[q] = reply[q]
      BY <1>1, <1>2, <2>1 DEF RecordsTell
    <3>2. crashes \in Nat
      BY RecordReqs
    <3>. QED BY <1>1, <2>1, <3>1, <3>2 DEF RecordsTell
  <2>. QED BY <1>1, <2>1 DEF RecordsTell
<1>4. OneRecordEach'
  BY <1>1, <1>2 DEF OneRecordEach
<1>5. CreatedHasRecord'
  <2>1. ASSUME NEW q \in Request, reply'[q] = "created"
        PROVE  pc'[q] = "done" /\ \E i \in DOMAIN records' : records'[i].req = q
    <3>1. CASE q = r
      BY <1>1, <3>1
    <3>2. CASE q # r
      <4>1. pc[q] = "done" /\ \E i \in DOMAIN records : records[i].req = q
        BY <2>1, <3>2 DEF CreatedHasRecord
      <4>. QED BY <1>1, <4>1
    <3>. QED BY <3>1, <3>2
  <2>. QED BY <2>1 DEF CreatedHasRecord
<1>6. AcceptedOnce'
  BY DEF AcceptedOnce
<1>7. Confirmed \subseteq Confirmed'
  BY DEF Confirmed, CreatedHasRecord
<1>8. ASSUME NEW q \in Request, NEW x \in preceded[q]
      PROVE  \E j \in DOMAIN records' :
                records'[j].req = x /\ \A i \in DOMAIN records' : records'[i].req = q => j < i
  <2>1. PICK j \in DOMAIN records :
            records[j].req = x /\ \A i \in DOMAIN records : records[i].req = q => j < i
    BY DEF Precedence
  <2>2. j \in DOMAIN records' /\ records'[j].req = x /\ j < n + 1
    BY <1>1, <2>1
  <2>. QED BY <1>1, <2>1, <2>2
<1>9. Precedence'
  BY <1>7, <1>8 DEF Precedence
<1>. QED BY <1>3, <1>4, <1>5, <1>6, <1>9

\* The same when no record is added.
LEMMA UnrecordedKeepsOrder ==
    ASSUME IInv, OrderInv, UNCHANGED store,
           UNCHANGED <<op, preceded, outcome, wire, accepted>>, crashes' \in Nat, crashes' >= crashes,
           \A q \in Request : pc[q] = "done" => pc'[q] = "done" /\ reply'[q] = reply[q],
           \A q \in Request : reply'[q] = "created" => reply[q] = "created"
    PROVE  OrderInv'
<1>. USE DEF IInv, OrderInv
<1>1. RecordsTell'
  <2>1. /\ \A i \in DOMAIN records : records[i].req \in Request
        /\ crashes \in Nat
    BY RecordReqs
  <2>. QED BY <2>1 DEF RecordsTell, store
<1>2. OneRecordEach' /\ CreatedHasRecord' /\ AcceptedOnce'
  BY DEF OneRecordEach, CreatedHasRecord, AcceptedOnce, store
<1>3. Confirmed \subseteq Confirmed'
  BY DEF Confirmed, CreatedHasRecord
<1>4. Precedence'
  BY <1>3 DEF Precedence, store
<1>. QED BY <1>1, <1>2, <1>4

\* A mutation under the lock, and its reply.
LEMMA RecordKeepsOrder ==
    ASSUME IInv, OrderInv, NEW r \in Request, RecordProfile(r) \/ RecordBinding(r)
    PROVE  OrderInv'
<1>1. /\ pc[r] = "returned" /\ pc' = [pc EXCEPT ![r] = "done"]
      /\ UNCHANGED <<op, preceded, outcome, wire, accepted, crashes>>
      /\ \E answer : reply' = [reply EXCEPT ![r] = answer]
            /\ \/ Recorded(r) /\ answer = "created"
               \/ UNCHANGED store /\ answer # "created"
  BY DEF RecordProfile, RecordBinding, Reply, request, registry
<1>2. /\ \A q \in Request : q # r => pc'[q] = pc[q] /\ reply'[q] = reply[q]
      /\ pc'[r] = "done" /\ crashes' \in Nat /\ crashes' >= crashes
      /\ \/ Recorded(r) /\ reply'[r] = "created"
         \/ UNCHANGED store /\ reply'[r] # "created"
  BY <1>1 DEF IInv, TypeOK
<1>3. CASE Recorded(r) /\ reply'[r] = "created"
  BY <1>1, <1>2, <1>3, RecordedKeepsOrder
<1>4. CASE UNCHANGED store /\ reply'[r] # "created"
  BY <1>1, <1>2, <1>4, UnrecordedKeepsOrder
<1>. QED BY <1>2, <1>3, <1>4

\* A restart: the handler that held the lock may leave a record that nobody hears of.
LEMMA RestartKeepsOrder ==
    ASSUME IInv, OrderInv, Restart
    PROVE  OrderInv'
<1>1. /\ UNCHANGED <<op, preceded, outcome, wire, accepted>>
      /\ crashes' \in Nat /\ crashes' >= crashes /\ crashes' > 0
      /\ \A q \in Request : pc[q] \in {"awaiting", "returned"} =>
                                pc'[q] = "done" /\ reply'[q] = "lost"
      /\ \A q \in Request : pc[q] \notin {"awaiting", "returned"} =>
                                pc'[q] = pc[q] /\ reply'[q] = reply[q]
      /\ \/ UNCHANGED store
         \/ \E r \in Request : pc[r] = "returned" /\ Recorded(r)
  BY DEF Restart, request, registry, IInv, TypeOK
<1>2. CASE UNCHANGED store
  BY <1>1, <1>2, UnrecordedKeepsOrder
<1>3. ASSUME NEW r \in Request, pc[r] = "returned", Recorded(r)
      PROVE  OrderInv'
  <2>1. pc'[r] = "done" /\ reply'[r] = "lost" /\ reply'[r] # "created"
    BY <1>1, <1>3
  <2>2. /\ \A q \in Request : pc[q] = "done" => pc'[q] = "done" /\ reply'[q] = reply[q]
        /\ \A q \in Request : reply'[q] = "created" => reply[q] = "created"
    BY <1>1
  <2>. QED BY <1>1, <1>3, <2>1, <2>2, RecordedKeepsOrder
<1>. QED BY <1>1, <1>2, <1>3

\* The two orders are kept by every step.
LEMMA OrderInvariance == Spec => [](IInv /\ OrderInv)
<1>1. Init => OrderInv
  BY DEF Init, OrderInv, RecordsTell, OneRecordEach, CreatedHasRecord, AcceptedOnce,
         Precedence
<1>2. IInv /\ OrderInv /\ [Next]_vars => OrderInv'
  <2> SUFFICES ASSUME IInv, OrderInv, [Next]_vars PROVE OrderInv'
    OBVIOUS
  <2>1. CASE UNCHANGED vars
    BY <2>1 DEF vars, issuer, request, registry, store, OrderInv, RecordsTell,
                OneRecordEach, CreatedHasRecord, AcceptedOnce, Precedence, Confirmed
  <2>. QED BY <2>1, ReceiveKeepsOrder, AwaitKeepsOrder, RegistryKeepsOrder,
              RecordKeepsOrder, RestartKeepsOrder DEF Next, Handler, Receive
<1>. QED BY <1>1, <1>2, Invariance, PTL DEF Spec

\* A request answered 201 has exactly one record, with the outcome of its forwarding; no
\* request has two; and a record of which its client was not told is one whose writer died.
THEOREM RecordedOnce == Spec => []CreatedIffRecorded
<1>1. IInv /\ OrderInv => CreatedIffRecorded
  <2> SUFFICES ASSUME IInv, OrderInv, NEW r \in Request
               PROVE  /\ reply[r] = "created" => Cardinality(RecordsOf(r)) = 1
                      /\ Cardinality(RecordsOf(r)) <= 1
                      /\ \A i \in RecordsOf(r) :
                          /\ records[i].op = op[r] /\ records[i].via = outcome[r]
                          /\ reply[r] = "created" \/ (reply[r] = "lost" /\ crashes > 0)
    BY DEF CreatedIffRecorded
  <2>1. ASSUME NEW i \in RecordsOf(r)
        PROVE  /\ RecordsOf(r) = {i} /\ Cardinality(RecordsOf(r)) = 1
               /\ records[i].op = op[r] /\ records[i].via = outcome[r]
               /\ reply[r] = "created" \/ (reply[r] = "lost" /\ crashes > 0)
    <3>1. RecordsOf(r) = {i}
      BY DEF RecordsOf, OrderInv, OneRecordEach
    <3>2. Cardinality({i}) = 1
      BY FS_Singleton
    <3>. QED BY <3>1, <3>2 DEF RecordsOf, OrderInv, RecordsTell
  <2>2. RecordsOf(r) = {} => Cardinality(RecordsOf(r)) = 0
    BY FS_EmptySet
  <2>3. reply[r] = "created" => RecordsOf(r) # {}
    BY DEF OrderInv, CreatedHasRecord, RecordsOf
  <2>4. CASE RecordsOf(r) = {}
    BY <2>2, <2>3, <2>4
  <2>5. CASE RecordsOf(r) # {}
    <3>1. PICK i \in RecordsOf(r) : TRUE
      BY <2>5
    <3>2. Cardinality(RecordsOf(r)) = 1
      BY <2>1, <3>1
    <3>. QED BY <2>1, <3>2
  <2>. QED BY <2>4, <2>5
<1>. QED BY <1>1, OrderInvariance, PTL

\* Two registrations of a profile of which one was answered before the other came have
\* the same order here and at the registry.
THEOREM OrdersAgreeAlways == Spec => []OrdersAgree
<1>1. IInv /\ OrderInv => OrdersAgree
  <2> SUFFICES ASSUME IInv, OrderInv, NEW i \in DOMAIN records, NEW j \in DOMAIN records,
                      records[i].via = "registry", records[j].via = "registry", i < j
               PROVE  /\ records[j].req \notin preceded[records[i].req]
                      /\ records[i].req \in preceded[records[j].req] =>
                            PlaceIn(accepted, records[i].req) < PlaceIn(accepted, records[j].req)
    BY DEF OrdersAgree
  <2>. DEFINE a == records[i].req
              b == records[j].req
  <2>1. /\ a \in Request /\ b \in Request
        /\ i \in Nat /\ j \in Nat
        /\ outcome[a] = "registry" /\ outcome[b] = "registry"
    <3>1. records \in Seq([req : Request, op : AdminOp,
                          via : {"registry", "fixtures", "unreachable"}])
      BY DEF IInv, TypeOK
    <3>. QED BY <3>1, RecordReqs DEF IInv, OrderInv, RecordsTell
  <2>2. b \notin preceded[a]
    <3> SUFFICES ASSUME b \in preceded[a] PROVE FALSE
      OBVIOUS
    <3>1. PICK k \in DOMAIN records : records[k].req = b /\ k < i
      BY <2>1 DEF OrderInv, Precedence
    <3>2. k = j
      BY <3>1 DEF OrderInv, OneRecordEach
    <3>. QED BY <2>1, <3>1, <3>2
  <2>3. ASSUME a \in preceded[b]
        PROVE  PlaceIn(accepted, a) < PlaceIn(accepted, b)
    <3>1. \A q \in {a, b} : PlaceIn(accepted, q) \in DOMAIN accepted
                             /\ accepted[PlaceIn(accepted, q)] = q
      <4>1. \A q \in {a, b} : \E k \in DOMAIN accepted : accepted[k] = q
        BY <2>1 DEF OrderInv, AcceptedOnce
      <4>. QED BY <4>1 DEF PlaceIn
    <3>2. PICK l \in DOMAIN accepted : accepted[l] = a /\ l < PlaceIn(accepted, b)
      BY <2>1, <2>3, <3>1 DEF OrderInv, Precedence
    <3>3. l = PlaceIn(accepted, a)
      BY <3>1, <3>2 DEF OrderInv, AcceptedOnce
    <3>. QED BY <3>2, <3>3
  <2>. QED BY <2>2, <2>3
<1>. QED BY <1>1, OrderInvariance, PTL
--------------------------------------------------------------------------------
(* The refinement: each record is admissible after the ones before it.      *)

\* A registration becomes the last one of its profile; a record that does not register a
\* profile leaves its last registration alone.
LEMMA LastOfGrown ==
    ASSUME IInv, NEW r \in Request, Recorded(r), NEW id, NEW v
    PROVE  IF op[r].type = "RegisterProfile" /\ op[r].profile_id = id
           THEN LastRegistered(id, v)' <=> op[r].version = v
           ELSE LastRegistered(id, v)' <=> LastRegistered(id, v)
<1>. DEFINE n == Len(records)
<1>1. /\ n \in Nat /\ DOMAIN records = 1 .. n
      /\ Len(records') = n + 1 /\ DOMAIN records' = 1 .. n + 1
      /\ \A i \in 1 .. n : records'[i] = records[i]
      /\ records'[n + 1].op = op[r]
      /\ \A i \in 1 .. n + 1 : i \in 1 .. n \/ i = n + 1
  BY RecordAdded DEF IInv
<1>. HIDE DEF n
<1>2. ASSUME records'[n + 1].op.type = "RegisterProfile", records'[n + 1].op.profile_id = id
      PROVE  LastRegistered(id, v)' <=> op[r].version = v
  <2>1. ASSUME NEW i \in DOMAIN records', \A j \in i + 1 .. n + 1 :
                    ~(records'[j].op.type = "RegisterProfile" /\ records'[j].op.profile_id = id)
        PROVE  i = n + 1
    <3>1. i \in 1 .. n => n + 1 \in i + 1 .. n + 1
      BY <1>1
    <3>. QED BY <1>1, <1>2, <2>1, <3>1
  <2>2. \A j \in n + 1 + 1 .. n + 1 : FALSE
    BY <1>1
  <2>3. n + 1 \in DOMAIN records'
    BY <1>1
  <2>. QED BY <1>1, <1>2, <2>1, <2>2, <2>3 DEF LastRegistered, Registers
<1>3. ASSUME ~(records'[n + 1].op.type = "RegisterProfile" /\ records'[n + 1].op.profile_id = id)
      PROVE  LastRegistered(id, v)' <=> LastRegistered(id, v)
  <2>1. ASSUME LastRegistered(id, v)
        PROVE  LastRegistered(id, v)'
    <3>1. PICK i \in 1 .. n : /\ Registers(i, id) /\ records[i].op.version = v
                              /\ \A j \in i + 1 .. n : ~Registers(j, id)
      BY <1>1, <2>1 DEF LastRegistered, n
    <3>2. i \in DOMAIN records' /\ records'[i] = records[i]
      BY <1>1
    <3>3. ASSUME NEW j \in i + 1 .. n + 1
          PROVE  ~(records'[j].op.type = "RegisterProfile" /\ records'[j].op.profile_id = id)
      <4>1. j = n + 1 \/ (j \in i + 1 .. n /\ j \in 1 .. n)
        BY <1>1
      <4>. QED BY <1>1, <1>3, <3>1, <4>1 DEF Registers
    <3>. QED BY <1>1, <3>1, <3>2, <3>3 DEF LastRegistered, Registers
  <2>2. ASSUME LastRegistered(id, v)'
        PROVE  LastRegistered(id, v)
    <3>1. PICK i \in 1 .. n + 1 :
                /\ records'[i].op.type = "RegisterProfile" /\ records'[i].op.profile_id = id
                /\ records'[i].op.version = v
                /\ \A j \in i + 1 .. n + 1 :
                    ~(records'[j].op.type = "RegisterProfile" /\ records'[j].op.profile_id = id)
      BY <1>1, <2>2 DEF LastRegistered, Registers
    <3>2. i \in 1 .. n
      BY <1>1, <1>3, <3>1
    <3>3. ASSUME NEW j \in i + 1 .. n
          PROVE  ~Registers(j, id)
      <4>1. j \in 1 .. n /\ j \in i + 1 .. n + 1
        BY <1>1, <3>2
      <4>. QED BY <1>1, <3>1, <4>1 DEF Registers
    <3>. QED BY <1>1, <3>1, <3>2, <3>3 DEF LastRegistered, Registers, n
  <2>. QED BY <2>1, <2>2
<1>. QED BY <1>1, <1>2, <1>3

\* The profile map follows the records when one is added.
LEMMA RecordedKeepsProfiles ==
    ASSUME IInv, ProfilesFollowRecords, NEW r \in Request, pc[r] = "returned", Recorded(r)
    PROVE  ProfilesFollowRecords'
<1>1. op[r] \in AdminOp
  BY DEF IInv, Stage
<1>2. ASSUME NEW id \in ProfileId, NEW v \in Version
      PROVE  (id \in DOMAIN profiles' /\ profiles'[id] = v) <=> LastRegistered(id, v)'
  <2>1. CASE op[r].type = "RegisterProfile" /\ op[r].profile_id = id
    <3>1. id \in DOMAIN profiles' /\ profiles'[id] = op[r].version
      BY <2>1 DEF Recorded, Insert
    <3>. QED BY <2>1, <3>1, LastOfGrown
  <2>2. CASE ~(op[r].type = "RegisterProfile" /\ op[r].profile_id = id)
    <3>1. (id \in DOMAIN profiles' /\ profiles'[id] = v)
                <=> (id \in DOMAIN profiles /\ profiles[id] = v)
      BY <2>2 DEF Recorded, Insert
    <3>2. LastRegistered(id, v)' <=> LastRegistered(id, v)
      BY <2>2, LastOfGrown
    <3>. QED BY <3>1, <3>2 DEF ProfilesFollowRecords
  <2>. QED BY <2>1, <2>2
<1>. QED BY <1>2 DEF ProfilesFollowRecords

\* Only a record changes what the trail is read from.
LEMMA StoreChanges ==
    ASSUME IInv, [Next]_vars
    PROVE  \/ UNCHANGED store
           \/ \E r \in Request : pc[r] = "returned" /\ Admitted(r) /\ Recorded(r)
BY DEF Next, Handler, ReceiveProfile, ReceiveBinding, Asks, Answered, HttpError, TimeOut, Unreached, RecordProfile,
       RecordBinding, Registry, RegistryAccepts, RegistryRejects, ConnectionBreaks,
       Disconnect, Restart, store, vars

\* The profiles follow the records throughout.
LEMMA ProfilesInvariance == Spec => [](IInv /\ ProfilesFollowRecords)
<1>1. Init => ProfilesFollowRecords
  BY DEF Init, ProfilesFollowRecords, LastRegistered
<1>2. IInv /\ ProfilesFollowRecords /\ [Next]_vars => ProfilesFollowRecords'
  <2> SUFFICES ASSUME IInv, ProfilesFollowRecords, [Next]_vars PROVE ProfilesFollowRecords'
    OBVIOUS
  <2>1. CASE UNCHANGED store
    BY <2>1 DEF store, ProfilesFollowRecords, LastRegistered, Registers
  <2>. QED BY <2>1, StoreChanges, RecordedKeepsProfiles
<1>. QED BY <1>1, <1>2, Invariance, PTL DEF Spec

\* The trail holds the operations of the records.
LEMMA OpsTyped ==
    ASSUME IInv
    PROVE  /\ Ops \in Seq(AdminOp) /\ Len(Ops) = Len(records)
           /\ DOMAIN Ops = DOMAIN records
           /\ \A i \in DOMAIN records : Ops[i] = records[i].op
<1>1. Len(records) \in Nat /\ DOMAIN records = 1 .. Len(records)
  BY DEF IInv, TypeOK
<1>2. Ops = [i \in 1 .. Len(records) |-> records[i].op]
  BY <1>1 DEF Ops
<1>3. \A i \in 1 .. Len(records) : records[i].op \in AdminOp
  BY <1>1, RecordReqs DEF IInv
<1>4. Ops \in [1 .. Len(records) -> AdminOp]
  BY <1>2, <1>3
<1>. QED BY <1>1, <1>2, <1>4

\* What the trail calls the current version is the profile map's.
LEMMA CurrentIsLast ==
    ASSUME IInv, NEW id, NEW v
    PROVE  Trail!CurrentVersion(id, v) <=> LastRegistered(id, v)
<1>1. ASSUME NEW i \in DOMAIN records, NEW j \in i + 1 .. Len(records)
      PROVE  Ops[j] = records[j].op
  <2>1. j \in DOMAIN records
    BY DEF IInv, TypeOK
  <2>. QED BY <2>1, OpsTyped
<1>. QED BY <1>1, OpsTyped DEF Trail!CurrentVersion, LastRegistered, Registers

\* What passes the checks under the lock is admissible.
LEMMA AdmittedIsAdmissible ==
    ASSUME IInv, ProfilesFollowRecords, NEW r \in Request, pc[r] = "returned", Admitted(r)
    PROVE  op[r] \in Trail!TrailOp /\ Trail!Admissible(op[r])
<1>1. op[r] \in RegisterOp \/ op[r] \in BindOp
  BY DEF IInv, Stage, AdminOp
<1>2. CASE op[r] \in RegisterOp
  <2>1. op[r].type = "RegisterProfile" /\ op[r].profile_id \in ProfileId
        /\ op[r].version \in Version
    BY <1>2 DEF RegisterOp
  <2>2. ~LastRegistered(op[r].profile_id, op[r].version)
    BY <2>1 DEF Admitted, ProfilesFollowRecords
  <2>3. Trail!Admissible(op[r])
    BY <2>1, <2>2, CurrentIsLast DEF Trail!Admissible
  <2>. QED BY <1>2, <2>3 DEF Trail!TrailOp, RegisterOp
<1>3. CASE op[r] \in BindOp
  <2>1. op[r].type = "BindApplicability" /\ op[r].profile_id \in ProfileId
    BY <1>3 DEF BindOp
  <2>2. /\ op[r].profile_id \in DOMAIN profiles
        /\ profiles[op[r].profile_id] \in Version
    BY <2>1 DEF Admitted, IInv, TypeOK
  <2>3. LastRegistered(op[r].profile_id, profiles[op[r].profile_id])
    BY <2>1, <2>2 DEF ProfilesFollowRecords
  <2>4. Trail!Admissible(op[r])
    BY <2>1, <2>2, <2>3, CurrentIsLast DEF Trail!Admissible
  <2>. QED BY <1>3, <2>4 DEF Trail!TrailOp, BindOp
<1>. QED BY <1>1, <1>2, <1>3

\* A record is a commit of the trail.
LEMMA RecordedCommits ==
    ASSUME IInv, IInv', ProfilesFollowRecords, NEW r \in Request,
           pc[r] = "returned", Admitted(r), Recorded(r)
    PROVE  Trail!Commit
<1>. DEFINE n == Len(records)
<1>1. /\ n \in Nat /\ DOMAIN records = 1 .. n
      /\ Len(records') = n + 1 /\ DOMAIN records' = 1 .. n + 1
      /\ \A i \in 1 .. n : records'[i] = records[i]
      /\ records'[n + 1].op = op[r]
      /\ \A i \in 1 .. n + 1 : i \in 1 .. n \/ i = n + 1
  BY RecordAdded DEF IInv
<1>2. /\ Ops \in Seq(AdminOp) /\ Len(Ops) = n
      /\ \A i \in 1 .. n : Ops[i] = records[i].op
  BY <1>1, OpsTyped
<1>3. Ops' = [i \in 1 .. n + 1 |-> records'[i].op]
  BY <1>1 DEF Ops
<1>4. op[r] \in AdminOp
  BY DEF IInv, Stage
<1>. HIDE DEF n
<1>5. Ops' = Append(Ops, op[r])
  <2>1. /\ Append(Ops, op[r]) = [i \in 1 .. n + 1 |-> Append(Ops, op[r])[i]]
        /\ Append(Ops, op[r])[n + 1] = op[r]
        /\ \A i \in 1 .. n : Append(Ops, op[r])[i] = Ops[i]
    BY <1>1, <1>2, <1>4
  <2>2. \A i \in 1 .. n + 1 : Append(Ops, op[r])[i] = records'[i].op
    BY <1>1, <1>2, <2>1
  <2>. QED BY <1>3, <2>1, <2>2
<1>6. Len(Ops') = n + 1 /\ Ops'[n + 1] = op[r]
  BY <1>1, <1>2, <1>4, <1>5
<1>7. op[r] \in Trail!TrailOp /\ Trail!Admissible(op[r])
  BY AdmittedIsAdmissible
<1>. QED BY <1>2, <1>5, <1>6, <1>7 DEF Trail!Commit

\* However the handlers interleave and whatever is lost, the records are a trail in which
\* every operation was admissible when it was recorded: no version is registered over
\* itself, no binding comes before the registration of its profile.
THEOREM TrailIsKept == Spec => KeepsTrail
<1>1. Init => Trail!TrailInit
  BY DEF Init, Trail!TrailInit, Ops
<1>2. IInv /\ IInv' /\ ProfilesFollowRecords /\ [Next]_vars
            => [Trail!TrailNext]_(Trail!trailVars)
  <2> SUFFICES ASSUME IInv, IInv', ProfilesFollowRecords, [Next]_vars
               PROVE  [Trail!TrailNext]_(Trail!trailVars)
    OBVIOUS
  <2>1. CASE UNCHANGED store
    BY <2>1 DEF store, Trail!trailVars, Ops
  <2>2. ASSUME NEW r \in Request, pc[r] = "returned", Admitted(r), Recorded(r)
        PROVE  Trail!TrailNext
    BY <2>2, RecordedCommits DEF Trail!TrailNext
  <2>. QED BY <2>1, <2>2, StoreChanges
<1>. QED BY <1>1, <1>2, ProfilesInvariance, PTL DEF Spec, KeepsTrail, Trail!TrailSpec
================================================================================

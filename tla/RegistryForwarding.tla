--------------------------- MODULE RegistryForwarding ---------------------------
(****************************************************************************)
(* The two admin handlers that forward to the registry before they record   *)
(* (src/src/api.rs: register_profile, bind_applicability; forward in        *)
(* src/src/registry.rs), run concurrently.  A handler awaits the registry   *)
(* without holding the store's lock, so any other request, a timeout, the   *)
(* loss of the connection or the end of the process can come in between.    *)
(*                                                                          *)
(* The store is reduced to what these handlers use: the profile map, and    *)
(* the records with their `via`.  It survives a crash as IssuerStore shows  *)
(* for atomic journal writes; a mutation under the lock is one step, which  *)
(* may fail or be the process's last.                                       *)
(* Body parsing and authorization are left out; the times of a binding are  *)
(* the subject of Reads.                                                    *)
(*                                                                          *)
(* The registry is another program: it accepts or rejects what reaches it,  *)
(* and rejects a profile version it already holds (tests/integration.rs).   *)
(****************************************************************************)
EXTENDS Naturals, Sequences, FiniteSets

CONSTANTS
    Request,      \* the admin requests that arrive; a retry is another request
    ProfileId,
    Version,
    MaxCrashes    \* bound: restarts of the issuer

ASSUME ForwardingAssumption == MaxCrashes \in Nat

RegisterOp == [type : {"RegisterProfile"}, profile_id : ProfileId, version : Version]
BindOp     == [type : {"BindApplicability"}, profile_id : ProfileId]
AdminOp    == RegisterOp \cup BindOp

Nothing == [type |-> "none"]

\* RegistryClient::new takes the URL as it comes; forward parses it.
Configurations == {"none", "malformed", "url"}

VARIABLES
    configured,  \* this process's registry URL: "none", "malformed" or "url"
    pc,        \* per request: "idle", "awaiting", "returned" or "done"
    op,        \* per request: what it asks for
    preceded,  \* history, per request: those Confirmed before it came
    outcome,   \* per request: RegistryOutcome::mode, once forward has returned
    reply,     \* per request: the response, "lost" if the handler never gave one
    wire,      \* per request: its exchange with the registry
    held,      \* the registry's items
    accepted,  \* history: the requests the registry accepted, in its order
    profiles,  \* Store::profiles: profile id -> version
    records,   \* the audit log: op, `via` and, as history, the request
    crashes    \* history: restarts so far

request  == <<op, preceded>>
issuer   == <<pc, request, outcome, reply>>
registry == <<held, accepted>>
store    == <<profiles, records>>
vars     == <<configured, issuer, wire, registry, store, crashes>>

Insert(map, key, value) ==
    [k \in DOMAIN map \cup {key} |-> IF k = key THEN value ELSE map[k]]

--------------------------------------------------------------------------------
(* The handlers, up to and including the await.                             *)

\* Answers request r.
Reply(r, response) == pc' = [pc EXCEPT ![r] = "done"] /\ reply' = [reply EXCEPT ![r] = response]

\* The requests that were answered 201 with the registry's authority.
Confirmed == {r \in Request : reply[r] = "created" /\ outcome[r] = "registry"}

\* Request r asks for this.
Asks(r, ask) ==
    /\ pc[r] = "idle"
    /\ op' = [op EXCEPT ![r] = ask]
    /\ preceded' = [preceded EXCEPT ![r] = Confirmed]
    /\ UNCHANGED <<configured, registry, store, crashes>>

\* forward up to its await.  Without a base URL it returns Fixtures at once; with one
\* that does not parse, an error, before anything is sent.  The bodies it sends are
\* shorter than the operations: a profile's drops jurisdiction and data points, a
\* binding's drops effective_until.  Of these fields the model has none.
Forward(r) ==
    \/ /\ configured = "malformed"
       /\ Reply(r, "rejected") /\ UNCHANGED <<outcome, wire>>
    \/ /\ configured = "none"
       /\ pc' = [pc EXCEPT ![r] = "returned"]
       /\ outcome' = [outcome EXCEPT ![r] = "fixtures"]
       /\ UNCHANGED <<reply, wire>>
    \/ /\ configured = "url"
       /\ pc' = [pc EXCEPT ![r] = "awaiting"]
       /\ wire' = [wire EXCEPT ![r] = "request"]
       /\ UNCHANGED <<outcome, reply>>

ReceiveProfile(r, ask) ==
    /\ ask.type = "RegisterProfile"
    /\ Asks(r, ask)
    /\ Forward(r)

\* Mutant: no check before the await.
KnownLocally_Unchecked(ask) == TRUE

\* A binding is refused before it is forwarded if the store does not know its
\* profile: this check has a lock of its own.
KnownLocally(ask) == ask.profile_id \in DOMAIN profiles

ReceiveBinding(r, ask) ==
    /\ ask.type = "BindApplicability"
    /\ Asks(r, ask)
    /\ \/ ~KnownLocally(ask) /\ Reply(r, "invalid") /\ UNCHANGED <<outcome, wire>>
       \/ KnownLocally(ask) /\ Forward(r)

\* Mutant: the reply does not wait for the local record.
Answered_RepliesAtOnce(r) ==
    /\ pc[r] = "awaiting"
    /\ \/ /\ wire[r] = "accepted"
          /\ pc' = [pc EXCEPT ![r] = "returned"]
          /\ outcome' = [outcome EXCEPT ![r] = "registry"]
          /\ reply' = [reply EXCEPT ![r] = "created"]
       \/ /\ wire[r] = "rejected"
          /\ Reply(r, "rejected")
          /\ UNCHANGED outcome
    /\ UNCHANGED <<configured, request, wire, registry, store, crashes>>

\* forward returns the registry's 2xx, or its rejection, which ends the request.
Answered(r) ==
    /\ pc[r] = "awaiting"
    /\ \/ /\ wire[r] = "accepted"
          /\ pc' = [pc EXCEPT ![r] = "returned"]
          /\ outcome' = [outcome EXCEPT ![r] = "registry"]
          /\ UNCHANGED reply
       \/ /\ wire[r] = "rejected"
          /\ Reply(r, "rejected")
          /\ UNCHANGED outcome
    /\ UNCHANGED <<configured, request, wire, registry, store, crashes>>

\* Mutant: no answer is taken for consent.
Unreached_IsConsent(r) ==
    /\ pc' = [pc EXCEPT ![r] = "returned"]
    /\ outcome' = [outcome EXCEPT ![r] = "registry"]
    /\ UNCHANGED <<configured, request, reply, wire, registry, store, crashes>>

\* An HTTP error, or FORWARD_TIMEOUT, which can strike at any point of the exchange.
Unreached(r) ==
    /\ pc' = [pc EXCEPT ![r] = "returned"]
    /\ outcome' = [outcome EXCEPT ![r] = "unreachable"]
    /\ UNCHANGED <<configured, request, reply, wire, registry, store, crashes>>

HttpError(r) == pc[r] = "awaiting" /\ wire[r] = "broken" /\ Unreached(r)

\* Mutant: the timer runs only until the registry has begun to answer.
TimeOut_ConnectOnly(r) == pc[r] = "awaiting" /\ wire[r] = "request" /\ Unreached(r)

TimeOut(r) == pc[r] = "awaiting" /\ Unreached(r)

--------------------------------------------------------------------------------
(* The registry and the connection.  They act on the exchange whether or    *)
(* not the handler still waits for it.                                      *)

RegistryAccepts(r) ==
    /\ wire[r] = "request"
    /\ op[r] \notin held \/ op[r].type = "BindApplicability"
    /\ held' = held \cup {op[r]}
    /\ accepted' = Append(accepted, r)
    /\ wire' = [wire EXCEPT ![r] = "accepted"]
    /\ UNCHANGED <<configured, issuer, store, crashes>>

RegistryRejects(r) ==
    /\ wire[r] = "request"
    /\ wire' = [wire EXCEPT ![r] = "rejected"]
    /\ UNCHANGED <<configured, issuer, registry, store, crashes>>

ConnectionBreaks(r) ==
    /\ wire[r] \in {"request", "accepted", "rejected"}
    /\ wire' = [wire EXCEPT ![r] = "broken"]
    /\ UNCHANGED <<configured, issuer, registry, store, crashes>>

--------------------------------------------------------------------------------
(* The handlers after the await: Store::register_profile and                *)
(* Store::bind_applicability under the lock, and the reply.                 *)

\* Mutant: the state of the exchange instead of the outcome.
Journal_Wire(r) == records' = Append(records, [req |-> r, op |-> op[r], via |-> wire[r]])

\* Store::record of the operation, with the `via` the forwarding came back with.
Journal(r) == records' = Append(records, [req |-> r, op |-> op[r], via |-> outcome[r]])

\* The checks of the store, under the lock.
Admitted(r) ==
    IF op[r].type = "RegisterProfile"
    THEN op[r].profile_id \in DOMAIN profiles =>
            profiles[op[r].profile_id] # op[r].version
    ELSE op[r].profile_id \in DOMAIN profiles

\* What a mutation that passes them leaves in the store.
Recorded(r) ==
    /\ Journal(r)
    /\ profiles' = IF op[r].type = "RegisterProfile"
                   THEN Insert(profiles, op[r].profile_id, op[r].version)
                   ELSE profiles

\* Mutants: journal first, then find the conflict; no conflict at all.
RecordProfile_JournalFirst(r) ==
    /\ pc[r] = "returned" /\ op[r].type = "RegisterProfile"
    /\ \/ Recorded(r) /\ Reply(r, IF Admitted(r) THEN "created" ELSE "conflict")
       \/ Admitted(r) /\ Reply(r, "failed") /\ UNCHANGED store
    /\ UNCHANGED <<configured, request, outcome, wire, registry, crashes>>

RecordProfile_NoConflict(r) ==
    /\ pc[r] = "returned" /\ op[r].type = "RegisterProfile"
    /\ Recorded(r)
    /\ Reply(r, "created")
    /\ UNCHANGED <<configured, request, outcome, wire, registry, crashes>>

\* "failed": the journal could not be written.
RecordProfile(r) ==
    /\ pc[r] = "returned" /\ op[r].type = "RegisterProfile"
    /\ \/ Admitted(r) /\ Reply(r, "created") /\ Recorded(r)
       \/ Admitted(r) /\ Reply(r, "failed") /\ UNCHANGED store
       \/ ~Admitted(r) /\ Reply(r, "conflict") /\ UNCHANGED store
    /\ UNCHANGED <<configured, request, outcome, wire, registry, crashes>>

RecordBinding(r) ==
    /\ pc[r] = "returned" /\ op[r].type = "BindApplicability"
    /\ \/ Admitted(r) /\ Reply(r, "created") /\ Recorded(r)
       \/ Admitted(r) /\ Reply(r, "failed") /\ UNCHANGED store
       \/ ~Admitted(r) /\ Reply(r, "invalid") /\ UNCHANGED store
    /\ UNCHANGED <<configured, request, outcome, wire, registry, crashes>>

\* The client goes away: the server drops the handler at its await.
Disconnect(r) ==
    /\ pc[r] = "awaiting"
    /\ Reply(r, "lost")
    /\ UNCHANGED <<configured, request, outcome, wire, registry, store, crashes>>

\* The issuer dies and is started again with the store its journal gives back: every
\* handler under way is gone, what it sent is not.  The one that held the lock may have
\* written its record, of which nobody is told.  The configuration is read anew.
Restart ==
    /\ crashes < MaxCrashes
    /\ crashes' = crashes + 1
    /\ configured' \in Configurations
    /\ LET busy == {r \in Request : pc[r] \in {"awaiting", "returned"}} IN
       /\ pc' = [r \in Request |-> IF r \in busy THEN "done" ELSE pc[r]]
       /\ reply' = [r \in Request |-> IF r \in busy THEN "lost" ELSE reply[r]]
    /\ \/ UNCHANGED store
       \/ \E r \in Request : pc[r] = "returned" /\ Admitted(r) /\ Recorded(r)
    /\ UNCHANGED <<request, outcome, wire, registry>>

Init ==
    /\ configured \in Configurations
    /\ pc = [r \in Request |-> "idle"]
    /\ op = [r \in Request |-> Nothing]
    /\ preceded = [r \in Request |-> {}]
    /\ outcome = [r \in Request |-> "none"]
    /\ reply = [r \in Request |-> "none"]
    /\ wire = [r \in Request |-> "none"]
    /\ held = {} /\ accepted = <<>>
    /\ profiles = [k \in {} |-> k]
    /\ records = <<>>
    /\ crashes = 0

Handler(r) == Answered(r) \/ HttpError(r) \/ TimeOut(r) \/ RecordProfile(r) \/ RecordBinding(r)

Registry(r) == RegistryAccepts(r) \/ RegistryRejects(r) \/ ConnectionBreaks(r)

Next ==
    \/ \E r \in Request :
        \/ \E ask \in AdminOp : ReceiveProfile(r, ask) \/ ReceiveBinding(r, ask)
        \/ Handler(r) \/ Registry(r) \/ Disconnect(r)
    \/ Restart

Spec == Init /\ [][Next]_vars

\* The runtime polls a handler whose timer has fired or whose lock is free; nothing is
\* assumed of the registry, the network or the clients.
FairSpec ==
    Spec /\ \A r \in Request :
        /\ WF_vars(TimeOut(r))
        /\ WF_vars(RecordProfile(r) \/ RecordBinding(r))
--------------------------------------------------------------------------------
(* Properties.                                                              *)

\* Every variable has its type.
TypeOK ==
    /\ configured \in Configurations
    /\ pc \in [Request -> {"idle", "awaiting", "returned", "done"}]
    /\ op \in [Request -> AdminOp \cup {Nothing}]
    /\ preceded \in [Request -> SUBSET Request]
    /\ outcome \in [Request -> {"none", "registry", "fixtures", "unreachable"}]
    /\ reply \in [Request ->
            {"none", "created", "conflict", "invalid", "rejected", "failed", "lost"}]
    /\ wire \in [Request -> {"none", "request", "accepted", "rejected", "broken"}]
    /\ held \subseteq AdminOp
    /\ accepted \in Seq(Request)
    /\ DOMAIN profiles \subseteq ProfileId
    /\ \A id \in DOMAIN profiles : profiles[id] \in Version
    /\ records \in Seq([req : Request, op : AdminOp,
                        via : {"registry", "fixtures", "unreachable"}])
    /\ crashes \in Nat

\* "A response never claims registry authority it does not have": what a record or a
\* reply in the making attributes to the registry, the registry holds, whatever was
\* lost or late in between.
NoFalseAuthority ==
    /\ \A i \in DOMAIN records : records[i].via = "registry" => records[i].op \in held
    /\ \A r \in Request : outcome[r] = "registry" => op[r] \in held

RecordsOf(r) == {i \in DOMAIN records : records[i].req = r}

\* A request that is answered 201 was recorded, once and with the outcome it was
\* forwarded with; one that was refused at any stage left no record.  The only record
\* nobody was told of is one whose writer died after its forwarding had returned.
CreatedIffRecorded ==
    \A r \in Request :
        /\ reply[r] = "created" => Cardinality(RecordsOf(r)) = 1
        /\ Cardinality(RecordsOf(r)) <= 1
        /\ \A i \in RecordsOf(r) :
            /\ records[i].op = op[r] /\ records[i].via = outcome[r]
            /\ reply[r] = "created" \/ (reply[r] = "lost" /\ crashes > 0)

\* A binding that has been forwarded is not refused afterwards for an unknown profile:
\* the answer of the first check is still true after the await, when another lock is
\* taken, since nothing removes a profile.
NoLateRefusal == \A r \in Request : reply[r] = "invalid" => outcome[r] = "none"

PlaceIn(order, r) == CHOOSE k \in DOMAIN order : order[k] = r

\* Two registrations of one profile may be recorded here in another order than the
\* registry accepted them, so that the two disagree on the current version, only if they
\* overlapped: of two of which one was answered before the other came, both keep the
\* order.  (Registrations the registry did not confirm are not compared.)
OrdersAgree ==
    \A i, j \in DOMAIN records :
        LET before == records[i]
            after  == records[j] IN
        (/\ before.via = "registry" /\ after.via = "registry"
         /\ before.op.type = "RegisterProfile" /\ after.op.type = "RegisterProfile"
         /\ before.op.profile_id = after.op.profile_id
         /\ i < j)
            => /\ after.req \notin preceded[before.req]
               /\ before.req \in preceded[after.req] =>
                    PlaceIn(accepted, before.req) < PlaceIn(accepted, after.req)

\* There are no passports here, so what a log takes and its status are never asked for.
NoLog(events, event) == FALSE
NoStatus(events) == "none"

Ops == [i \in DOMAIN records |-> records[i].op]

Trail == INSTANCE AuditTrail WITH
            trail <- Ops, serving <- TRUE,
            PassportId <- {}, Event <- {}, Legal <- {},
            Seals <- NoLog, current_status <- NoStatus

\* However the handlers interleave, each record they make is admissible after the ones
\* before it: a version is not registered over itself by two concurrent requests, and
\* a binding follows the registration of its profile.
KeepsTrail == Trail!TrailSpec

\* A request under way is answered or given up: a registry that never answers cannot
\* hang it ("degrades to fixtures rather than hanging the request").
RequestAnswered == \A r \in Request : pc[r] \in {"awaiting", "returned"} ~> pc[r] = "done"

\* "On success the registry is authoritative; the caller still journals its local
\* record": a handler that got the registry's success and was neither killed nor failed
\* by the disk has, when it is done, left a record that says so.
AcceptedIsJournaled ==
    \A r \in Request :
        outcome[r] = "registry" /\ pc[r] = "done" /\ reply[r] \notin {"lost", "failed"} =>
            \E i \in DOMAIN records : records[i].op = op[r] /\ records[i].via = "registry"
================================================================================

--------------------------- MODULE PassportLogReplay ---------------------------
(****************************************************************************)
(* One passport's log as it grows, and what is read off it: the machine on  *)
(* which the fold of PassportLog is compared with what a status, a safety   *)
(* flag and a custodian mean, and the views of GET /passports/{id} with     *)
(* ?at= with one another (src/src/api.rs: parse_at, passport_view).         *)
(****************************************************************************)
EXTENDS Ordinals, PassportLog

CONSTANT MaxEvents   \* bound: events in the log

VARIABLE sealed      \* EventLog::sealed

\* Store::apply with the event of one request: nothing but the external log
\* decides whether it is sealed.  (The status check is part of IssuerStore; without
\* it this machine reaches every log, the illegal ones included.)
Seal(at, payload) ==
    LET event == [seq |-> Len(sealed), at |-> at, payload |-> payload] IN
    /\ Len(sealed) < MaxEvents
    /\ Seals(sealed, event)
    /\ sealed' = Append(sealed, event)

Init == sealed = <<>>

Next == \E at \in Time, payload \in Payload : Seal(at, payload)

Spec == Init /\ [][Next]_sealed

--------------------------------------------------------------------------------
(* The passport view.  as_of and state_hash_at belong to the external log:  *)
(* the sealed events that had occurred at t, and the commitment of the last *)
(* of them; the commitment of an event stands for its chain, here a prefix. *)
(* An optional value is a set of one element, or {} for None.               *)

Commitment(i) == SubSeq(sealed, 1, i)

state_hash_at(t) ==
    LET occurred == {i \in DOMAIN sealed : sealed[i].at <= t}
    IN  {Commitment(i) : i \in {j \in occurred : \A k \in occurred : k <= j}}

\* EventLog::head.
head == {Commitment(i) : i \in {Len(sealed)} \ {0}}

\* parse_at: {} for None, also when the parameter is there and empty.
At == {{}} \cup {{t} : t \in Time}

\* EventLog::as_of(t), or every sealed event.
as_of(at) == Picked({i \in DOMAIN sealed : \A t \in at : sealed[i].at <= t}, sealed)

\* Mutants: the status of today under the head of the past; the head of today.
passport_view_StatusNow(at) ==
    [state    |-> replay_state(sealed),
     log_head |-> IF at = {} THEN head ELSE UNION {state_hash_at(t) : t \in at},
     events   |-> Len(sealed)]

passport_view_HeadNow(at) ==
    [state    |-> replay_state(as_of(at)),
     log_head |-> head,
     events   |-> Len(sealed)]

\* The state and the head are selected by two separate matches on `at`; the event
\* count, like the document around it, is always that of the whole log.
passport_view(at) ==
    [state    |-> replay_state(as_of(at)),
     log_head |-> IF at = {} THEN head ELSE UNION {state_hash_at(t) : t \in at},
     events   |-> Len(sealed)]

--------------------------------------------------------------------------------
(* Properties.                                                              *)

Types == {sealed[i].payload.type : i \in DOMAIN sealed}

\* The status an event leaves behind, for the five kinds that set one.
Outcome(p) ==
    IF p.type = "StatusChange" THEN p.to
    ELSE IF p.type = "Issuance" THEN "Issued"
    ELSE IF p.type = "EndOfWaste" THEN "EndOfWaste" ELSE "Transformed"

SetsStatus(p) ==
    \/ p.type \in {"StatusChange", "Issuance", "EndOfWaste", "Decompose"}
    \/ p.type = "Split" /\ p.parent_consumed

LastIn(S, i) == i \in S /\ \A j \in S : j <= i

\* replay_state, a left fold with overwrites, gives the last status set, the last
\* custodian named, and a safety flag that depends on which flags were ever raised:
\* a recall outranks a security flag in whatever order they come.
ReplayMeaning ==
    LET setters  == {i \in DOMAIN sealed : SetsStatus(sealed[i].payload)}
        handovers == {i \in DOMAIN sealed : sealed[i].payload.type = "CustodyTransfer"}
        now == replay_state(sealed)
    IN  /\ setters = {} => now.status = "Issued"
        /\ \A i \in setters : LastIn(setters, i) => now.status = Outcome(sealed[i].payload)
        /\ handovers = {} => now.custodian = Fresh.custodian
        /\ \A i \in handovers : LastIn(handovers, i) => now.custodian = sealed[i].payload.to
        /\ now.safety = "RecallActive" <=> "RecallCampaign" \in Types
        /\ now.safety = "SecurityFlagged" <=> Types \cap {"RecallCampaign", "FlagSecurity"}
                                                = {"FlagSecurity"}

\* A safety flag is never taken back: no later event, whatever it does to the status,
\* clears a recall or downgrades it to a security flag.
SafetyNeverClears ==
    [][LET before == replay_state(sealed).safety
           after  == replay_state(sealed').safety
       IN  /\ before = "RecallActive" => after = "RecallActive"
           /\ before = "SecurityFlagged" => after # "None"]_sealed

\* The state and the head of a view speak of one log, that of today or that of then:
\* replaying what the head commits to gives the state beside it.  From the last event
\* on, a view with ?at= is the view without.
ViewIsOneLog ==
    /\ \A at \in At :
        LET view == passport_view(at) IN
        /\ view.log_head = {} => view.state = replay_state(<<>>)
        /\ \A committed \in view.log_head : view.state = replay_state(committed)
    /\ \A t \in Time :
        (\A i \in DOMAIN sealed : sealed[i].at <= t) => passport_view({t}) = passport_view({})

Answer(view) == <<view.state, view.log_head>>

\* What a view says of a moment stands for good once the log has gone past it: if an
\* event after t is sealed, nothing appended later changes the state or the head at t.
SettledViewsStand ==
    [][\A t \in Time :
        (\E i \in DOMAIN sealed : sealed[i].at > t)
            => Answer(passport_view({t}))' = Answer(passport_view({t}))]_sealed
================================================================================

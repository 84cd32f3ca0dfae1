------------------------------ MODULE PassportLog ------------------------------
(****************************************************************************)
(* A passport's event log as the issuer uses it, and the replay of a log to *)
(* (status, safety flag, custodian).                                        *)
(*                                                                          *)
(* replay_state is the issuer's own (src/src/store.rs).  The log itself,    *)
(* TypedEvent and the legality table of status transitions belong to the    *)
(* unidpp_event crate, which the repository only calls: they are modelled   *)
(* from those calls, and what the calls leave open is a constant.           *)
(****************************************************************************)
EXTENDS Naturals, Sequences

CONSTANTS
    Payload,     \* the event payloads in play, a subset of AnyPayload
    Time,        \* occurred_at stamps; the caller may choose any of them
    Legal,       \* status transitions TypedEvent::new lets through
    SealRefuses  \* what EventLog::append refuses: see Seals

Status == {"Issued", "Suspended", "Invalidated", "Transformed", "EndOfWaste"}

SafetyFlag == {"None", "RecallActive", "SecurityFlagged"}

\* The payload fields that the issuer reads.  "Other" stands for every payload
\* replay_state has no arm for.
AnyPayload ==
    [type : {"Issuance", "Decompose", "EndOfWaste", "RecallCampaign",
             "FlagSecurity", "Other"}]
    \cup [type : {"StatusChange"}, from : Status, to : Status]
    \cup [type : {"Split"}, parent_consumed : BOOLEAN]
    \cup [type : {"CustodyTransfer"}, to : STRING]

ASSUME PassportLogAssumption ==
    /\ Payload \subseteq AnyPayload
    /\ Time \subseteq Nat
    /\ Legal \subseteq Status \X Status
    /\ SealRefuses \subseteq {"gap", "backdated"}

Event == [seq : Nat, at : Time, payload : Payload]

--------------------------------------------------------------------------------
(* replay_state: a fold over the events, in log order.                      *)

Fresh == [status |-> "Issued", recall |-> FALSE, security |-> FALSE, custodian |-> "None"]

\* Mutants: a split that always consumes its parent; a re-issue that starts afresh.
ReplayEvent_AnySplit(st, event) ==
    LET p == event.payload IN
    CASE p.type = "Issuance" -> [st EXCEPT !.status = "Issued"]
      [] p.type = "StatusChange" -> [st EXCEPT !.status = p.to]
      [] p.type \in {"Split", "Decompose"} -> [st EXCEPT !.status = "Transformed"]
      [] p.type = "EndOfWaste" -> [st EXCEPT !.status = "EndOfWaste"]
      [] p.type = "RecallCampaign" -> [st EXCEPT !.recall = TRUE]
      [] p.type = "FlagSecurity" -> [st EXCEPT !.security = TRUE]
      [] p.type = "CustodyTransfer" -> [st EXCEPT !.custodian = p.to]
      [] OTHER -> st

ReplayEvent_Afresh(st, event) ==
    LET p == event.payload IN
    CASE p.type = "Issuance" -> Fresh
      [] p.type = "RecallCampaign" -> [st EXCEPT !.recall = TRUE]
      [] p.type = "FlagSecurity" -> [st EXCEPT !.security = TRUE]
      [] OTHER -> st

\* The loop body of replay_state.
ReplayEvent(st, event) ==
    LET p == event.payload IN
    CASE p.type = "Issuance"                      -> [st EXCEPT !.status = "Issued"]
      [] p.type = "StatusChange"                  -> [st EXCEPT !.status = p.to]
      [] p.type = "Split" /\ p.parent_consumed    -> [st EXCEPT !.status = "Transformed"]
      [] p.type = "Decompose"                     -> [st EXCEPT !.status = "Transformed"]
      [] p.type = "EndOfWaste"                    -> [st EXCEPT !.status = "EndOfWaste"]
      [] p.type = "RecallCampaign"                -> [st EXCEPT !.recall = TRUE]
      [] p.type = "FlagSecurity"                  -> [st EXCEPT !.security = TRUE]
      [] p.type = "CustodyTransfer"               -> [st EXCEPT !.custodian = p.to]
      [] OTHER                                    -> st

\* The loop: the state after each of the first n events.
ReplayStates(sealed) ==
    LET after[n \in 0 .. Len(sealed)] ==
            IF n = 0 THEN Fresh ELSE ReplayEvent(after[n - 1], sealed[n])
    IN  after

replay_state(sealed) ==
    LET end == ReplayStates(sealed)[Len(sealed)] IN
    [status    |-> end.status,
     safety    |-> IF end.recall THEN "RecallActive"
                   ELSE IF end.security THEN "SecurityFlagged" ELSE "None",
     custodian |-> end.custodian]

--------------------------------------------------------------------------------
(* The external log.                                                        *)

\* EventLog::append.  The issuer always appends with seq = log.len(), so what the
\* log does with any other sequence number ("gap") or with an occurred_at before
\* the last sealed one ("backdated") is not visible in this repository.
Seals(log, event) ==
    /\ "gap" \in SealRefuses => event.seq = Len(log)
    /\ ("backdated" \in SealRefuses /\ log # <<>>) => event.at >= log[Len(log)].at

\* EventLog::current_status: a unit test asserts that it agrees with replay_state.
current_status(log) == replay_state(log).status

\* TypedEvent::new: refuses a status change that is not in the legality table.
Constructible(payload) ==
    payload.type = "StatusChange" => <<payload.from, payload.to>> \in Legal
================================================================================

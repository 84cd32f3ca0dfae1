------------------------------- MODULE AuditTrail -------------------------------
(****************************************************************************)
(* What the issuer's store promises, without its maps, its file or its      *)
(* replay: one trail of operations that only grows, through stops and       *)
(* restarts of the service, and in which every operation was admissible in  *)
(* the light of the ones before it.                                         *)
(*                                                                          *)
(* What a passport, a profile or a binding is at any moment is read off the *)
(* trail; IssuerStore keeps it in maps that it updates and rebuilds.  An    *)
(* append that the passport's log refuses is on the trail all the same.     *)
(****************************************************************************)
EXTENDS Naturals, Sequences

CONSTANTS
    PassportId, ProfileId, Version,
    Event,               \* the events an operation may append
    Legal,               \* status transitions that may be recorded
    Seals(_, _),         \* whether a log takes an event
    current_status(_)    \* the status a sequence of events replays to

VARIABLES
    trail,    \* the operations recorded, oldest first
    serving   \* whether the service answers requests

trailVars == <<trail, serving>>

--------------------------------------------------------------------------------

Created(id) ==
    \E i \in DOMAIN trail :
        trail[i].type = "CreatePassport" /\ trail[i].passport_id = id

\* The events of a passport after each of some operations: those appended to it that
\* the log took.
Taken(ops, id) ==
    LET after[n \in 0 .. Len(ops)] ==
            IF n = 0 THEN <<>>
            ELSE IF /\ ops[n].type = "AppendEvent" /\ ops[n].passport_id = id
                    /\ Seals(after[n - 1], ops[n].event)
            THEN Append(after[n - 1], ops[n].event)
            ELSE after[n - 1]
    IN  after

EventsOf(id) == Taken(trail, id)[Len(trail)]

\* Version v of the profile is the one registered last.
CurrentVersion(id, v) ==
    \E i \in DOMAIN trail :
        /\ trail[i].type = "RegisterProfile" /\ trail[i].profile_id = id
        /\ trail[i].version = v
        /\ \A j \in i + 1 .. Len(trail) :
            ~(trail[j].type = "RegisterProfile" /\ trail[j].profile_id = id)

Admissible(op) ==
    CASE op.type = "CreatePassport" -> ~Created(op.passport_id)
      [] op.type = "AppendEvent" ->
            /\ Created(op.passport_id)
            /\ op.event.seq = Len(EventsOf(op.passport_id))
            /\ op.event.payload.type = "StatusChange" =>
                /\ <<op.event.payload.from, op.event.payload.to>> \in Legal
                /\ op.event.payload.from = current_status(EventsOf(op.passport_id))
      [] op.type = "RegisterProfile" -> ~CurrentVersion(op.profile_id, op.version)
      [] op.type = "BindApplicability" ->
            \E v \in Version : CurrentVersion(op.profile_id, v)

TrailOp ==
    [type : {"CreatePassport"}, passport_id : PassportId]
    \cup [type : {"AppendEvent"}, passport_id : PassportId, event : Event, signed : BOOLEAN]
    \cup [type : {"RegisterProfile"}, profile_id : ProfileId, version : Version]
    \cup [type : {"BindApplicability"}, profile_id : ProfileId]

--------------------------------------------------------------------------------

TrailInit == trail = <<>> /\ serving \in BOOLEAN

\* An admissible operation is recorded.  The service may stop in the same step: the
\* caller then never learns that the operation was recorded.
Commit ==
    LET op == trail'[Len(trail')] IN
    /\ serving
    /\ Len(trail') = Len(trail) + 1
    /\ trail' = Append(trail, op)
    /\ op \in TrailOp
    /\ Admissible(op)
    /\ serving' \in BOOLEAN

StopOrStart == serving' = ~serving /\ UNCHANGED trail

TrailNext == Commit \/ StopOrStart

TrailSpec == TrailInit /\ [][TrailNext]_trailVars
================================================================================

------------------------------ MODULE IssuerStore ------------------------------
(****************************************************************************)
(* The issuer's store (src/src/store.rs) and its JSONL journal: the four    *)
(* audited mutations, the journal write they make, the ways that write can  *)
(* end, the crash of the process and the replay on the next start.          *)
(*                                                                          *)
(* A mutation runs under one mutex from its first check to its reply (or to *)
(* the reply's construction), so it is one step here; the handlers around   *)
(* the store, and what they do before they lock it, are other modules.      *)
(*                                                                          *)
(* The journal is modelled by physical lines.  A line is a sequence of      *)
(* chunks because the file is opened for append: what a write leaves behind *)
(* without a newline is continued by the next write.                        *)
(*                                                                          *)
(* Left out: the identity, validity and config vector of a passport,        *)
(* definition texts, the timestamps and the `via` string of a record, and   *)
(* the store without a journal, which keeps nothing across a restart.       *)
(****************************************************************************)
EXTENDS FiniteSets, PassportLog

CONSTANTS
    PassportId,   \* passport ids
    ProfileId,    \* profile item ids
    Version,      \* profile versions
    CrashDamage,  \* what a crash during a write can leave: see Leaves
    ErrorDamage,  \* what a write that returns an error can leave
    MaxLog,       \* bound: audit records
    MaxCrashes,   \* bound: crashes and failed writes, together
    MaxDamage     \* bound: those of them that leave a line without its newline

Damage == {"none", "torn", "cut", "unterminated", "complete"}

ASSUME IssuerStoreAssumption ==
    /\ CrashDamage \subseteq Damage
    /\ ErrorDamage \subseteq Damage \ {"complete"}
    /\ MaxLog \in Nat /\ MaxCrashes \in Nat /\ MaxDamage \in Nat

VARIABLES
    mode,        \* "down", "replaying", "serving" or "refused" (open returned Err)
    passports,   \* Store::passports: passport id -> document
    profiles,    \* Store::profiles: profile id -> version
    bindings,    \* Store::bindings: the profile id each binding names
    log,         \* Store::log, the audit log in memory
    journal,     \* the file's newline-terminated lines
    tail,        \* the chunks after the last newline of the file
    replayed,    \* lines Store::replay has read in this start
    acked,       \* history: the records a success reply was built from
    crashes,     \* history: crashes and failed writes so far
    damaged      \* history: those that left a line without its newline

memory == <<passports, profiles, bindings, log>>
file   == <<journal, tail>>
vars   == <<mode, memory, file, replayed, acked, crashes, damaged>>

--------------------------------------------------------------------------------
(* Records.                                                                 *)

Op ==
    [type : {"CreatePassport"}, passport_id : PassportId]
    \cup [type : {"AppendEvent"}, passport_id : PassportId, event : Event, signed : BOOLEAN]
    \cup [type : {"RegisterProfile"}, profile_id : ProfileId, version : Version]
    \cup [type : {"BindApplicability"}, profile_id : ProfileId]

AuditRecord == [seq : Nat, op : Op]

\* What a document keeps of its events: the sealed ones, and the signatures,
\* each with the event whose canonical body it was made over.
EventSignature == [seq : Nat, over : Event]
Document == [sealed : Seq(Event), event_signatures : Seq(EventSignature)]
Minted   == [sealed |-> <<>>, event_signatures |-> <<>>]

\* HashMap::insert: adds the key or replaces its value.
Insert(map, key, value) ==
    [k \in DOMAIN map \cup {key} |-> IF k = key THEN value ELSE map[k]]

IsPrefixOf(s, t) == Len(s) <= Len(t) /\ \A i \in DOMAIN s : s[i] = t[i]

NoEntries == [k \in {} |-> k]

--------------------------------------------------------------------------------
(* Store::apply, by the part of the state it changes.                       *)

\* Mutant: the signature names the position after its event.
Appended_SigOffByOne(document, op) ==
    [sealed |-> IF Seals(document.sealed, op.event)
                THEN Append(document.sealed, op.event) ELSE document.sealed,
     event_signatures |->
        IF op.signed
        THEN Append(document.event_signatures,
                    [seq |-> op.event.seq + 1, over |-> op.event])
        ELSE document.event_signatures]

\* The log's refusal is dropped and the signature is kept either way.
Appended(document, op) ==
    [sealed |-> IF Seals(document.sealed, op.event)
                THEN Append(document.sealed, op.event)
                ELSE document.sealed,
     event_signatures |->
        IF op.signed
        THEN Append(document.event_signatures, [seq |-> op.event.seq, over |-> op.event])
        ELSE document.event_signatures]

PassportsAfter(op) ==
    CASE op.type = "CreatePassport" -> Insert(passports, op.passport_id, Minted)
      [] op.type = "AppendEvent" /\ op.passport_id \in DOMAIN passports ->
            [passports EXCEPT ![op.passport_id] = Appended(@, op)]
      [] OTHER -> passports

\* Mutant: key and value exchanged.
ProfilesAfter_Swapped(op) ==
    IF op.type = "RegisterProfile"
    THEN Insert(profiles, op.version, op.profile_id)
    ELSE profiles

ProfilesAfter(op) ==
    IF op.type = "RegisterProfile"
    THEN Insert(profiles, op.profile_id, op.version)
    ELSE profiles

BindingsAfter(op) ==
    IF op.type = "BindApplicability" THEN Append(bindings, op.profile_id) ELSE bindings

\* apply, and the push onto the audit log that follows it at both call sites.
Apply(rec) ==
    /\ passports' = PassportsAfter(rec.op)
    /\ profiles'  = ProfilesAfter(rec.op)
    /\ bindings'  = BindingsAfter(rec.op)
    /\ log'       = Append(log, rec)

--------------------------------------------------------------------------------
(* The file.                                                                *)

Whole(rec) == [kind |-> "whole", rec |-> rec]
Torn       == [kind |-> "torn"]   \* the beginning of a record, valid UTF-8
Cut        == [kind |-> "cut"]    \* the same, ending inside a multi-byte character

Chunk == {Torn, Cut} \cup [kind : {"whole"}, rec : AuditRecord]

\* serde_json::from_str succeeds on a line that is one whole record and nothing else.
Parses(line) == Len(line) = 1 /\ line[1].kind = "whole"

\* BufRead::lines yields Err for a line that is not UTF-8.
Unreadable(line) == \E i \in DOMAIN line : line[i].kind = "cut"

\* BufRead::lines yields the text after the last newline as a line too.
Lines == IF tail = <<>> THEN journal ELSE Append(journal, tail)

\* The records a replay of the file applies before it ends or gives up.
Replayable(i) == Parses(Lines[i]) /\ \A j \in 1 .. i : ~Unreadable(Lines[j])
Readable == {Lines[i][1].rec : i \in {j \in DOMAIN Lines : Replayable(j)}}

\* Mutant: the newline is never written.
Leaves_NoNewline(rec, damage) ==
    CASE damage = "none" -> UNCHANGED file
      [] damage = "torn" -> tail' = Append(tail, Torn) /\ UNCHANGED journal
      [] damage = "cut"  -> tail' = Append(tail, Cut) /\ UNCHANGED journal
      [] OTHER           -> tail' = Append(tail, Whole(rec)) /\ UNCHANGED journal

\* A writeln! that does not run to its end: nothing written, part of the record's
\* bytes, the record without its newline (writeln! writes the two separately), or,
\* for a crash, everything.
Leaves(rec, damage) ==
    CASE damage = "none"         -> UNCHANGED file
      [] damage = "torn"         -> tail' = Append(tail, Torn) /\ UNCHANGED journal
      [] damage = "cut"          -> tail' = Append(tail, Cut) /\ UNCHANGED journal
      [] damage = "unterminated" -> tail' = Append(tail, Whole(rec)) /\ UNCHANGED journal
      [] damage = "complete"     -> /\ journal' = Append(journal, Append(tail, Whole(rec)))
                                    /\ tail' = <<>>

--------------------------------------------------------------------------------
(* Store::record, and the replies of its callers.                           *)

\* Mutant: numbered from 0.
NextRecord_FromZero(op) == [seq |-> Len(log), op |-> op]

NextRecord(op) == [seq |-> Len(log) + 1, op |-> op]

\* Store::append_event answers 409 instead of 201 when the log has no head.
HeadMissing(op) ==
    op.type = "AppendEvent" /\ PassportsAfter(op)[op.passport_id].sealed = <<>>

\* Mutant: the reply does not wait for the journal.
RecordOk_NotWritten(op) ==
    /\ UNCHANGED file
    /\ Apply(NextRecord(op))
    /\ acked' = acked \cup {NextRecord(op)}
    /\ UNCHANGED <<mode, replayed, crashes, damaged>>

RecordOk(op) ==
    /\ Leaves(NextRecord(op), "complete")
    /\ Apply(NextRecord(op))
    /\ acked' = IF HeadMissing(op) THEN acked ELSE acked \cup {NextRecord(op)}
    /\ UNCHANGED <<mode, replayed, crashes, damaged>>

\* Bookkeeping of the two fault bounds.
Fault(damage) ==
    /\ crashes < MaxCrashes
    /\ crashes' = crashes + 1
    /\ IF damage \in {"none", "complete"}
       THEN UNCHANGED damaged
       ELSE damaged < MaxDamage /\ damaged' = damaged + 1

\* Mutant: the record is applied before it is written.
RecordErr_Applied(op) ==
    \E damage \in ErrorDamage :
        /\ Fault(damage)
        /\ Leaves(NextRecord(op), damage)
        /\ Apply(NextRecord(op))
        /\ UNCHANGED <<mode, replayed, acked>>

\* The write returns an error: record returns before it applies anything.
RecordErr(op) ==
    \E damage \in ErrorDamage :
        /\ Fault(damage)
        /\ Leaves(NextRecord(op), damage)
        /\ UNCHANGED <<mode, memory, replayed, acked>>

\* The process dies: the memory is gone, the file stays.
Dies ==
    /\ mode'      = "down"
    /\ passports' = NoEntries
    /\ profiles'  = NoEntries
    /\ bindings'  = <<>>
    /\ log'       = <<>>
    /\ replayed'  = 0
    /\ UNCHANGED acked

RecordCrash(op) ==
    \E damage \in CrashDamage :
        /\ Fault(damage)
        /\ Leaves(NextRecord(op), damage)
        /\ Dies

Record(op) ==
    /\ mode = "serving"
    /\ Len(log) < MaxLog
    /\ RecordOk(op) \/ RecordErr(op) \/ RecordCrash(op)

--------------------------------------------------------------------------------
(* The mutations.  One that is refused (404, 409, 400) changes nothing.     *)

\* Mutant: the id may be in use.
CreatePassport_Again(id) == Record([type |-> "CreatePassport", passport_id |-> id])

CreatePassport(id) ==
    /\ id \notin DOMAIN passports
    /\ Record([type |-> "CreatePassport", passport_id |-> id])

\* Mutants: no check against the current status; a sequence number from 1.
AppendEvent_NoI6(id, at, payload, signed) ==
    /\ id \in DOMAIN passports
    /\ Constructible(payload)
    /\ Record([type |-> "AppendEvent", passport_id |-> id, signed |-> signed,
               event |-> [seq |-> Len(passports[id].sealed), at |-> at,
                          payload |-> payload]])

AppendEvent_FromOne(id, at, payload, signed) ==
    /\ id \in DOMAIN passports
    /\ Constructible(payload)
    /\ payload.type = "StatusChange" =>
            payload.from = current_status(passports[id].sealed)
    /\ Record([type |-> "AppendEvent", passport_id |-> id, signed |-> signed,
               event |-> [seq |-> Len(passports[id].sealed) + 1, at |-> at,
                          payload |-> payload]])

\* The handler takes seq from the log under the same lock; TypedEvent::new and then
\* Store::append_event check the transition.
AppendEvent(id, at, payload, signed) ==
    /\ id \in DOMAIN passports
    /\ Constructible(payload)
    /\ payload.type = "StatusChange" =>
            payload.from = current_status(passports[id].sealed)
    /\ Record([type |-> "AppendEvent", passport_id |-> id, signed |-> signed,
               event |-> [seq |-> Len(passports[id].sealed), at |-> at,
                          payload |-> payload]])

\* Mutant: the registered version may come again.
RegisterProfile_Same(id, version) ==
    Record([type |-> "RegisterProfile", profile_id |-> id, version |-> version])

RegisterProfile(id, version) ==
    /\ id \in DOMAIN profiles => profiles[id] # version
    /\ Record([type |-> "RegisterProfile", profile_id |-> id, version |-> version])

\* Mutant: any profile id will do.
BindApplicability_Unknown(id) ==
    Record([type |-> "BindApplicability", profile_id |-> id])

BindApplicability(id) ==
    /\ id \in DOMAIN profiles
    /\ Record([type |-> "BindApplicability", profile_id |-> id])

--------------------------------------------------------------------------------
(* Crash, start, replay.                                                    *)

\* A crash outside a write, while serving or during the replay itself.
Crash ==
    /\ mode \in {"serving", "replaying"}
    /\ Fault("none")
    /\ Dies
    /\ UNCHANGED file

\* Store::open builds an empty store and replays the file if it exists.
Start ==
    /\ mode = "down"
    /\ mode' = "replaying"
    /\ UNCHANGED <<memory, file, replayed, acked, crashes, damaged>>

\* One round of the loop in Store::replay.
ReplayLine ==
    /\ mode = "replaying"
    /\ replayed < Len(Lines)
    /\ LET line == Lines[replayed + 1] IN
       CASE Unreadable(line) -> mode' = "refused" /\ UNCHANGED <<memory, replayed>>
         [] ~Unreadable(line) /\ Parses(line) ->
                /\ Apply(line[1].rec)
                /\ replayed' = replayed + 1
                /\ UNCHANGED mode
         [] OTHER -> replayed' = replayed + 1 /\ UNCHANGED <<mode, memory>>
    /\ UNCHANGED <<file, acked, crashes, damaged>>

\* The replay is over; the file is opened for append as it is.
Opened ==
    /\ mode = "replaying"
    /\ replayed = Len(Lines)
    /\ mode' = "serving"
    /\ replayed' = 0
    /\ UNCHANGED <<memory, file, acked, crashes, damaged>>

Init ==
    /\ mode = "down"
    /\ passports = NoEntries /\ profiles = NoEntries /\ bindings = <<>> /\ log = <<>>
    /\ journal = <<>> /\ tail = <<>>
    /\ replayed = 0
    /\ acked = {} /\ crashes = 0 /\ damaged = 0

Mutation ==
    \/ \E id \in PassportId : CreatePassport(id)
    \/ \E id \in PassportId, at \in Time, payload \in Payload, signed \in BOOLEAN :
            AppendEvent(id, at, payload, signed)
    \/ \E id \in ProfileId, version \in Version : RegisterProfile(id, version)
    \/ \E id \in ProfileId : BindApplicability(id)

Next == Mutation \/ Crash \/ Start \/ ReplayLine \/ Opened

Spec == Init /\ [][Next]_vars

--------------------------------------------------------------------------------
(* Properties.                                                              *)

\* Every variable has its type, and the memory is empty while the process is down.
TypeOK ==
    /\ mode \in {"down", "replaying", "serving", "refused"}
    /\ DOMAIN passports \subseteq PassportId
    /\ \A id \in DOMAIN passports : passports[id] \in Document
    /\ DOMAIN profiles \subseteq ProfileId
    /\ \A id \in DOMAIN profiles : profiles[id] \in Version
    /\ bindings \in Seq(ProfileId)
    /\ log \in Seq(AuditRecord)
    /\ journal \in Seq(Seq(Chunk))
    /\ tail \in Seq(Chunk)
    /\ replayed \in Nat
    /\ acked \subseteq AuditRecord
    /\ crashes \in Nat /\ damaged \in Nat
    /\ mode = "down" => /\ passports = NoEntries /\ profiles = NoEntries
                        /\ bindings = <<>> /\ log = <<>> /\ replayed = 0

\* "The log is the storage": while the service answers requests, the file, read
\* line by line, is exactly the audit log it has in memory (record writes the line
\* before it applies, replay applies what it reads, and a failed write does neither).
MemoryIsJournal ==
    mode = "serving" =>
        /\ Len(Lines) = Len(log)
        /\ \A i \in DOMAIN log : Lines[i] = <<Whole(log[i])>>

\* Audit sequence numbers are 1-based and gap-free, within a process and across its
\* restarts, although each is computed from the length of the log in memory.
GapFree == \A i \in DOMAIN log : log[i].seq = i

\* What was answered with success is in the file, to be read by the next start:
\* whatever write was under way at a crash, and whatever error a write returned.
AckedSurvives == acked \subseteq Readable

\* Event n of a log is this one.
Stands(sealed, n, event) == n + 1 \in DOMAIN sealed /\ sealed[n + 1] = event

\* As event n it would be dated before the event it follows, which the log refuses.
DatedBack(sealed, n, event) ==
    /\ "backdated" \in SealRefuses
    /\ n \in DOMAIN sealed /\ event.at < sealed[n].at

\* An event whose append was answered 201 with sequence number n is the n-th event of
\* its passport's log whenever the service answers requests, also after restarts, but
\* for one kind: an event dated before its predecessor, where the log refuses those
\* and apply drops the refusal (store.rs:310).  Its number goes to another event.
AckedEventSealed ==
    mode = "serving" =>
        \A rec \in acked : rec.op.type = "AppendEvent" =>
            LET id == rec.op.passport_id
                event == rec.op.event IN
            /\ id \in DOMAIN passports
            /\ Stands(passports[id].sealed, event.seq, event)
                    <=> ~DatedBack(passports[id].sealed, event.seq, event)

\* A signature a document records verifies, that is, the event with its sequence number
\* is the signed one (what the verdict's audit recomputes), but for exactly the events
\* that were dated back and refused: their signatures are kept (store.rs:311-313) and
\* never match, whatever is appended in their place.
SignaturesVerify ==
    \A id \in DOMAIN passports :
        LET sealed == passports[id].sealed
            signatures == passports[id].event_signatures IN
        \A k \in DOMAIN signatures :
            Stands(sealed, signatures[k].seq, signatures[k].over)
                <=> ~DatedBack(sealed, signatures[k].seq, signatures[k].over)

\* I6: each status change of a log starts from the status its predecessors replay to,
\* also in a log rebuilt from the journal, where nothing checks the transition again.
StatusChain ==
    \A id \in DOMAIN passports :
        LET sealed == passports[id].sealed IN
        \A i \in DOMAIN sealed :
            sealed[i].payload.type = "StatusChange" =>
                sealed[i].payload.from = current_status(SubSeq(sealed, 1, i - 1))

\* Every binding names a profile the store knows, although replay re-applies a
\* binding without the check that admitted it.
BindingsResolve == \A k \in DOMAIN bindings : bindings[k] \in DOMAIN profiles

\* Nothing is edited in place: while the process lives no audit record changes and
\* no passport loses or replaces a sealed event or a signature (HashMap::insert
\* would replace a whole document if a passport id were created twice).
NothingEdited ==
    [][mode' # "down" =>
        /\ IsPrefixOf(log, log')
        /\ \A id \in DOMAIN passports :
            /\ id \in DOMAIN passports'
            /\ IsPrefixOf(passports[id].sealed, passports'[id].sealed)
            /\ IsPrefixOf(passports[id].event_signatures, passports'[id].event_signatures)]_vars

\* After a replay that lost lines the numbers of the audit log repeat or skip, since each
\* is the length of the log when it was made.  They are not arbitrary: a record's number
\* is at least its place, and ahead of it by no more than two for each line left without
\* its newline, which takes the record on it and the next one out of the log.
NumbersDrift ==
    \A i \in DOMAIN log : log[i].seq \in i .. i + 2 * damaged

\* What unfinished writes can cost while the file is valid UTF-8: each line left
\* without its newline takes at most one acknowledged record with it, the one the
\* next write puts on the same line.
LossBound ==
    (\A i \in DOMAIN Lines : ~Unreadable(Lines[i]))
        => Cardinality(acked \ Readable) <= damaged

\* A file whose last line was torn by a crash is replayed: the service starts.
TornTailTolerated == mode # "refused"

\* An append that is answered with success does not precede an event already sealed:
\* the errors the store documents name the non-monotonic append as a conflict.
AckedMonotonic ==
    \A a, b \in acked :
        (/\ a.op.type = "AppendEvent" /\ b.op.type = "AppendEvent"
         /\ a.op.passport_id = b.op.passport_id /\ a.seq < b.seq)
            => a.op.event.at <= b.op.event.at

================================================================================

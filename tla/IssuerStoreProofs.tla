--------------------------- MODULE IssuerStoreProofs ---------------------------
(****************************************************************************)
(* Theorems about IssuerStore, for every value of its constants.            *)
(****************************************************************************)
EXTENDS IssuerStore, FiniteSetTheorems, TLAPS

--------------------------------------------------------------------------------
(* Type correctness.                                                        *)

\* The memory part of TypeOK.
MemoryTyped(ps, fs, bs, l) ==
    /\ DOMAIN ps \subseteq PassportId
    /\ \A id \in DOMAIN ps : ps[id] \in Document
    /\ DOMAIN fs \subseteq ProfileId
    /\ \A id \in DOMAIN fs : fs[id] \in Version
    /\ bs \in Seq(ProfileId)
    /\ l \in Seq(AuditRecord)

\* Store::apply keeps the memory well-typed, on any record.
LEMMA ApplyTyped ==
    ASSUME MemoryTyped(passports, profiles, bindings, log),
           NEW rec \in AuditRecord, Apply(rec)
    PROVE  MemoryTyped(passports, profiles, bindings, log)'
<1>1. rec.op \in Op
  BY DEF AuditRecord
<1>2. log' \in Seq(AuditRecord)
  BY DEF Apply, MemoryTyped
<1>3. CASE rec.op \in [type : {"CreatePassport"}, passport_id : PassportId]
  <2>1. /\ passports' = Insert(passports, rec.op.passport_id, Minted)
        /\ profiles' = profiles /\ bindings' = bindings
    BY <1>3 DEF Apply, PassportsAfter, ProfilesAfter, BindingsAfter
  <2>2. Minted \in Document
    BY DEF Minted, Document
  <2>3. /\ DOMAIN passports' \subseteq PassportId
        /\ \A id \in DOMAIN passports' : passports'[id] \in Document
    <3>1. rec.op.passport_id \in PassportId
      BY <1>3
    <3>2. /\ DOMAIN passports \subseteq PassportId
          /\ \A id \in DOMAIN passports : passports[id] \in Document
      BY DEF MemoryTyped
    <3>. QED BY <2>1, <2>2, <3>1, <3>2 DEF Insert
  <2>. QED BY <1>2, <2>1, <2>3 DEF MemoryTyped
<1>4. CASE rec.op \in [type : {"AppendEvent"}, passport_id : PassportId,
                       event : Event, signed : BOOLEAN]
  <2>1. /\ passports' = IF rec.op.passport_id \in DOMAIN passports
                        THEN [passports EXCEPT ![rec.op.passport_id] =
                                Appended(passports[rec.op.passport_id], rec.op)]
                        ELSE passports
        /\ profiles' = profiles /\ bindings' = bindings
    BY <1>4 DEF Apply, PassportsAfter, ProfilesAfter, BindingsAfter
  <2>2. ASSUME NEW d \in Document PROVE Appended(d, rec.op) \in Document
    <3>1. /\ Append(d.sealed, rec.op.event) \in Seq(Event)
          /\ d.sealed \in Seq(Event)
      BY <1>4 DEF Document
    <3>2. [seq |-> rec.op.event.seq, over |-> rec.op.event] \in EventSignature
      BY <1>4 DEF Event, EventSignature
    <3>3. /\ Append(d.event_signatures, [seq |-> rec.op.event.seq, over |-> rec.op.event])
                \in Seq(EventSignature)
          /\ d.event_signatures \in Seq(EventSignature)
      BY <3>2 DEF Document
    <3>. QED BY <3>1, <3>3 DEF Appended, Document
  <2>3. /\ DOMAIN passports' \subseteq PassportId
        /\ \A id \in DOMAIN passports' : passports'[id] \in Document
    BY <2>1, <2>2 DEF MemoryTyped
  <2>. QED BY <1>2, <2>1, <2>3 DEF MemoryTyped
<1>5. CASE rec.op \in [type : {"RegisterProfile"}, profile_id : ProfileId,
                       version : Version]
  <2>1. /\ profiles' = Insert(profiles, rec.op.profile_id, rec.op.version)
        /\ passports' = passports /\ bindings' = bindings
    BY <1>5 DEF Apply, PassportsAfter, ProfilesAfter, BindingsAfter
  <2>2. /\ DOMAIN profiles' \subseteq ProfileId
        /\ \A id \in DOMAIN profiles' : profiles'[id] \in Version
    <3>1. rec.op.profile_id \in ProfileId /\ rec.op.version \in Version
      BY <1>5
    <3>2. /\ DOMAIN profiles \subseteq ProfileId
          /\ \A id \in DOMAIN profiles : profiles[id] \in Version
      BY DEF MemoryTyped
    <3>. QED BY <2>1, <3>1, <3>2 DEF Insert
  <2>. QED BY <1>2, <2>1, <2>2 DEF MemoryTyped
<1>6. CASE rec.op \in [type : {"BindApplicability"}, profile_id : ProfileId]
  <2>1. /\ bindings' = Append(bindings, rec.op.profile_id)
        /\ passports' = passports /\ profiles' = profiles
    BY <1>6 DEF Apply, PassportsAfter, ProfilesAfter, BindingsAfter
  <2>. QED BY <1>2, <1>6, <2>1 DEF MemoryTyped
<1>. QED BY <1>1, <1>3, <1>4, <1>5, <1>6 DEF Op

\* A new record, the chunk it becomes and the line it ends are well-typed.
LEMMA RecordTyped ==
    ASSUME TypeOK, NEW op \in Op
    PROVE  /\ NextRecord(op) \in AuditRecord
           /\ Whole(NextRecord(op)) \in Chunk
           /\ Append(tail, Whole(NextRecord(op))) \in Seq(Chunk)
<1>1. Len(log) + 1 \in Nat
  BY DEF TypeOK
<1>2. NextRecord(op) \in AuditRecord
  BY <1>1 DEF NextRecord, AuditRecord
<1>3. Whole(NextRecord(op)) \in Chunk
  BY <1>2 DEF Whole, Chunk
<1>. QED BY <1>2, <1>3 DEF TypeOK

\* What a write leaves in the file is well-typed, however it ends.
LEMMA FileTyped ==
    ASSUME TypeOK, NEW op \in Op, NEW damage \in Damage,
           Leaves(NextRecord(op), damage)
    PROVE  journal' \in Seq(Seq(Chunk)) /\ tail' \in Seq(Chunk)
<1>1. journal \in Seq(Seq(Chunk)) /\ tail \in Seq(Chunk)
  BY DEF TypeOK
<1>2. /\ Append(tail, Torn) \in Seq(Chunk)
      /\ Append(tail, Cut) \in Seq(Chunk)
  BY <1>1 DEF Chunk
<1>3. Append(tail, Whole(NextRecord(op))) \in Seq(Chunk)
  BY RecordTyped
<1>4. CASE damage = "none"
  BY <1>1, <1>4 DEF Leaves, file
<1>5. CASE damage \in {"torn", "cut", "unterminated"}
  BY <1>1, <1>2, <1>3, <1>5 DEF Leaves
<1>6. CASE damage = "complete"
  <2>1. /\ journal' = Append(journal, Append(tail, Whole(NextRecord(op))))
        /\ tail' = <<>>
    BY <1>6 DEF Leaves
  <2>. QED BY <1>1, <1>3, <2>1
<1>. QED BY <1>4, <1>5, <1>6 DEF Damage

\* The three ways Store::record can end keep the state well-typed.
LEMMA RecordKeepsType ==
    ASSUME TypeOK, NEW op \in Op, Record(op)
    PROVE  TypeOK'
<1>. USE IssuerStoreAssumption
<1>m. MemoryTyped(passports, profiles, bindings, log)
  BY DEF TypeOK, MemoryTyped
<1>1. CASE RecordOk(op)
  <2>1. MemoryTyped(passports, profiles, bindings, log)'
    BY <1>1, <1>m, RecordTyped, ApplyTyped DEF RecordOk
  <2>2. journal' \in Seq(Seq(Chunk)) /\ tail' \in Seq(Chunk)
    BY <1>1, FileTyped DEF RecordOk, Damage
  <2>3. acked' \subseteq AuditRecord
    BY <1>1, RecordTyped DEF RecordOk, TypeOK
  <2>4. mode' = "serving"
    BY <1>1 DEF RecordOk, Record
  <2>. QED BY <1>1, <2>1, <2>2, <2>3, <2>4 DEF RecordOk, TypeOK, MemoryTyped
<1>2. CASE RecordErr(op)
  <2>1. PICK damage \in ErrorDamage :
            Fault(damage) /\ Leaves(NextRecord(op), damage)
            /\ UNCHANGED <<mode, memory, replayed, acked>>
    BY <1>2 DEF RecordErr
  <2>2. journal' \in Seq(Seq(Chunk)) /\ tail' \in Seq(Chunk)
    BY <2>1, FileTyped DEF Damage
  <2>3. crashes' \in Nat /\ damaged' \in Nat
    BY <2>1 DEF Fault, TypeOK
  <2>. QED BY <2>1, <2>2, <2>3 DEF TypeOK, memory
<1>3. CASE RecordCrash(op)
  <2>1. PICK damage \in CrashDamage :
            Fault(damage) /\ Leaves(NextRecord(op), damage) /\ Dies
    BY <1>3 DEF RecordCrash
  <2>2. journal' \in Seq(Seq(Chunk)) /\ tail' \in Seq(Chunk)
    BY <2>1, FileTyped DEF Damage
  <2>3. crashes' \in Nat /\ damaged' \in Nat
    BY <2>1 DEF Fault, TypeOK
  <2>. QED BY <2>1, <2>2, <2>3 DEF TypeOK, Dies, NoEntries
<1>. QED BY <1>1, <1>2, <1>3 DEF Record

\* What a mutation has checked, against the maps, of the operation it records.
Guarded(op) ==
    /\ op.type = "CreatePassport" => op.passport_id \notin DOMAIN passports
    /\ op.type = "BindApplicability" => op.profile_id \in DOMAIN profiles

\* Every mutation is Record of some operation that passed its checks.
LEMMA MutationRecords ==
    ASSUME TypeOK, Mutation
    PROVE  \E op \in Op : Record(op) /\ Guarded(op)
<1>1. ASSUME NEW id \in PassportId, CreatePassport(id)
      PROVE  \E op \in Op : Record(op) /\ Guarded(op)
  BY <1>1 DEF CreatePassport, Op, Guarded
<1>2. ASSUME NEW id \in PassportId, NEW at \in Time, NEW payload \in Payload,
             NEW signed \in BOOLEAN, AppendEvent(id, at, payload, signed)
      PROVE  \E op \in Op : Record(op) /\ Guarded(op)
  <2>1. Len(passports[id].sealed) \in Nat
    BY <1>2 DEF AppendEvent, TypeOK, Document
  <2>. QED BY <1>2, <2>1 DEF AppendEvent, Op, Event, Guarded
<1>3. ASSUME NEW id \in ProfileId, NEW version \in Version, RegisterProfile(id, version)
      PROVE  \E op \in Op : Record(op) /\ Guarded(op)
  BY <1>3 DEF RegisterProfile, Op, Guarded
<1>4. ASSUME NEW id \in ProfileId, BindApplicability(id)
      PROVE  \E op \in Op : Record(op) /\ Guarded(op)
  BY <1>4 DEF BindApplicability, Op, Guarded
<1>. QED BY <1>1, <1>2, <1>3, <1>4 DEF Mutation

\* The type invariant, whatever the faults leave in the file.
THEOREM TypeCorrect == Spec => []TypeOK
<1>1. Init => TypeOK
  BY DEF Init, TypeOK, NoEntries
<1>2. TypeOK /\ [Next]_vars => TypeOK'
  <2> SUFFICES ASSUME TypeOK, [Next]_vars PROVE TypeOK'
    OBVIOUS
  <2>1. CASE Mutation
    <3>1. PICK op \in Op : Record(op)
      BY <2>1, MutationRecords
    <3>. QED BY <3>1, RecordKeepsType
  <2>2. CASE Crash
    BY <2>2 DEF Crash, Dies, Fault, TypeOK, NoEntries, file
  <2>3. CASE Start
    BY <2>3 DEF Start, TypeOK, memory, file
  <2>4. CASE ReplayLine
    <3>. DEFINE line == Lines[replayed + 1]
    <3>1. line \in Seq(Chunk)
      <4>1. Lines \in Seq(Seq(Chunk))
        BY DEF TypeOK, Lines
      <4>2. replayed + 1 \in 1 .. Len(Lines)
        BY <2>4, <4>1 DEF ReplayLine, TypeOK
      <4>. QED BY <4>1, <4>2
    <3>2. CASE Unreadable(line)
      BY <2>4, <3>2 DEF ReplayLine, TypeOK, memory, file
    <3>3. CASE ~Unreadable(line) /\ Parses(line)
      <4>1. /\ Apply(line[1].rec) /\ replayed' = replayed + 1
            /\ UNCHANGED <<mode, file, acked, crashes, damaged>>
        BY <2>4, <3>3 DEF ReplayLine
      <4>2. line[1] \in Chunk /\ line[1].kind = "whole"
        BY <3>1, <3>3 DEF Parses
      <4>3. line[1].rec \in AuditRecord
        BY <4>2 DEF Chunk, Torn, Cut
      <4>4. MemoryTyped(passports, profiles, bindings, log)'
        BY <4>1, <4>3, ApplyTyped DEF TypeOK, MemoryTyped
      <4>. QED BY <2>4, <4>1, <4>4 DEF ReplayLine, TypeOK, MemoryTyped, file
    <3>4. CASE ~Unreadable(line) /\ ~Parses(line)
      BY <2>4, <3>4 DEF ReplayLine, TypeOK, memory, file
    <3>. QED BY <3>2, <3>3, <3>4
  <2>5. CASE Opened
    BY <2>5 DEF Opened, TypeOK, memory, file
  <2>6. CASE UNCHANGED vars
    BY <2>6 DEF vars, memory, file, TypeOK
  <2>. QED BY <2>1, <2>2, <2>3, <2>4, <2>5, <2>6 DEF Next
<1>. QED BY <1>1, <1>2, PTL DEF Spec
--------------------------------------------------------------------------------
(* Durability, when a write leaves nothing or a whole line.                 *)

AtomicWrites ==
    CrashDamage \subseteq {"none", "complete"} /\ ErrorDamage \subseteq {"none"}

RecordOf(line) == line[1].rec

\* The inductive invariant: the file is a sequence of whole lines with their numbers,
\* the memory is its beginning, as far as the replay has come, and all of it once the
\* service serves.  Without the clauses about "replaying" the properties below would
\* not survive a restart.
JournalInv ==
    /\ mode # "refused"
    /\ tail = <<>>
    /\ \A i \in DOMAIN journal : /\ journal[i] = <<Whole(RecordOf(journal[i]))>>
                                 /\ RecordOf(journal[i]) \in AuditRecord
                                 /\ RecordOf(journal[i]).seq = i
    /\ Len(log) <= Len(journal)
    /\ \A i \in DOMAIN log : log[i] = RecordOf(journal[i])
    /\ mode = "serving" => Len(log) = Len(journal)
    /\ mode = "replaying" => replayed = Len(log)
    /\ \A rec \in acked : \E i \in DOMAIN journal : rec = RecordOf(journal[i])

\* With atomic writes a finished write adds the line of the next record.
LEMMA WholeLineAdded ==
    ASSUME TypeOK, JournalInv, NEW op \in Op, mode = "serving",
           Leaves(NextRecord(op), "complete")
    PROVE  /\ tail' = <<>>
           /\ journal' = Append(journal, <<Whole(NextRecord(op))>>)
           /\ Len(journal') = Len(log) + 1
           /\ \A i \in DOMAIN journal' : /\ journal'[i] = <<Whole(RecordOf(journal'[i]))>>
                                         /\ RecordOf(journal'[i]) \in AuditRecord
                                         /\ RecordOf(journal'[i]).seq = i
           /\ \A i \in DOMAIN journal : i \in DOMAIN journal' /\ RecordOf(journal'[i]) = RecordOf(journal[i])
           /\ Len(log) + 1 \in DOMAIN journal'
           /\ RecordOf(journal'[Len(log) + 1]) = NextRecord(op)
<1>1. tail' = <<>> /\ journal' = Append(journal, Append(tail, Whole(NextRecord(op))))
  BY DEF Leaves
<1>2. Append(tail, Whole(NextRecord(op))) = <<Whole(NextRecord(op))>>
  BY DEF JournalInv
<1>3. journal' = Append(journal, <<Whole(NextRecord(op))>>)
  BY <1>1, <1>2
<1>4. journal \in Seq(Seq(Chunk)) /\ Len(journal) = Len(log) /\ Len(log) \in Nat
  BY DEF TypeOK, JournalInv
<1>5. NextRecord(op) \in AuditRecord /\ NextRecord(op).seq = Len(log) + 1
  BY RecordTyped DEF NextRecord
<1>6. Whole(NextRecord(op)).rec = NextRecord(op)
  BY DEF Whole
<1>7. <<Whole(NextRecord(op))>> \in Seq(Chunk)
  BY RecordTyped
<1>8. /\ Len(journal') = Len(log) + 1
      /\ DOMAIN journal' = 1 .. Len(log) + 1
      /\ DOMAIN journal = 1 .. Len(log)
      /\ \A i \in 1 .. Len(log) : journal'[i] = journal[i]
      /\ journal'[Len(log) + 1] = <<Whole(NextRecord(op))>>
  BY <1>3, <1>4, <1>7
<1>9. \A i \in DOMAIN journal : RecordOf(journal'[i]) = RecordOf(journal[i])
  BY <1>8 DEF RecordOf
<1>10. RecordOf(journal'[Len(log) + 1]) = NextRecord(op)
  BY <1>6, <1>8 DEF RecordOf
<1>11. ASSUME NEW i \in DOMAIN journal'
       PROVE  /\ journal'[i] = <<Whole(RecordOf(journal'[i]))>>
              /\ RecordOf(journal'[i]) \in AuditRecord
              /\ RecordOf(journal'[i]).seq = i
  <2>1. CASE i \in DOMAIN journal
    BY <1>8, <1>9, <2>1 DEF JournalInv
  <2>2. CASE i = Len(log) + 1
    BY <1>5, <1>8, <1>10, <2>2
  <2>. QED BY <1>4, <1>8, <2>1, <2>2
<1>. QED BY <1>1, <1>3, <1>4, <1>8, <1>9, <1>10, <1>11

\* The three ways Store::record can end keep the journal invariant.
LEMMA RecordKeepsJournal ==
    ASSUME AtomicWrites, TypeOK, JournalInv, NEW op \in Op, Record(op)
    PROVE  JournalInv'
<1>1. mode = "serving" /\ Len(log) = Len(journal) /\ Len(log) \in Nat
  BY DEF Record, JournalInv, TypeOK
<1>2. CASE RecordOk(op)
  <2>1. /\ Leaves(NextRecord(op), "complete") /\ mode' = mode
        /\ log' = Append(log, NextRecord(op))
        /\ acked' \subseteq acked \cup {NextRecord(op)}
    BY <1>2 DEF RecordOk, Apply
  <2>2. log \in Seq(AuditRecord) /\ NextRecord(op) \in AuditRecord
    BY RecordTyped DEF TypeOK
  <2>3. /\ Len(log') = Len(log) + 1 /\ DOMAIN log' = 1 .. Len(log) + 1
        /\ \A i \in 1 .. Len(log) : log'[i] = log[i]
        /\ log'[Len(log) + 1] = NextRecord(op)
    BY <2>1, <2>2
  <2>4. ASSUME NEW i \in DOMAIN log' PROVE log'[i] = RecordOf(journal'[i])
    <3>1. CASE i \in DOMAIN log
      <4>1. i \in DOMAIN journal
        BY <1>1, <3>1, <2>2 DEF TypeOK
      <4>. QED BY <1>1, <2>1, <2>2, <2>3, <3>1, <4>1, WholeLineAdded DEF JournalInv
    <3>2. CASE i = Len(log) + 1
      BY <1>1, <2>1, <2>3, <3>2, WholeLineAdded
    <3>. QED BY <2>2, <2>3, <3>1, <3>2
  <2>5. ASSUME NEW rec \in acked' PROVE \E i \in DOMAIN journal' : rec = RecordOf(journal'[i])
    <3>1. CASE rec \in acked
      BY <1>1, <2>1, <3>1, WholeLineAdded DEF JournalInv
    <3>2. CASE rec = NextRecord(op)
      BY <1>1, <2>1, <3>2, WholeLineAdded
    <3>. QED BY <2>1, <3>1, <3>2
  <2>6. /\ tail' = <<>>
        /\ Len(journal') = Len(log) + 1
        /\ \A i \in DOMAIN journal' : /\ journal'[i] = <<Whole(RecordOf(journal'[i]))>>
                                      /\ RecordOf(journal'[i]) \in AuditRecord
                                      /\ RecordOf(journal'[i]).seq = i
    BY <1>1, <2>1, WholeLineAdded
  <2>. QED BY <1>1, <2>1, <2>3, <2>4, <2>5, <2>6 DEF JournalInv
<1>3. CASE RecordErr(op)
  <2>1. UNCHANGED <<mode, memory, replayed, acked>> /\ Leaves(NextRecord(op), "none")
    BY <1>3 DEF RecordErr, AtomicWrites
  <2>. QED BY <2>1 DEF Leaves, memory, file, JournalInv
<1>4. CASE RecordCrash(op)
  <2>1. /\ Dies
        /\ \/ Leaves(NextRecord(op), "none")
           \/ Leaves(NextRecord(op), "complete")
    BY <1>4 DEF RecordCrash, AtomicWrites
  <2>2. CASE Leaves(NextRecord(op), "none")
    BY <1>1, <2>1, <2>2 DEF Leaves, Dies, file, JournalInv
  <2>3. CASE Leaves(NextRecord(op), "complete")
    <3>1. ASSUME NEW rec \in acked'
          PROVE  \E i \in DOMAIN journal' : rec = RecordOf(journal'[i])
      BY <1>1, <2>1, <2>3, WholeLineAdded DEF Dies, JournalInv
    <3>2. /\ tail' = <<>>
          /\ Len(journal') = Len(log) + 1
          /\ \A i \in DOMAIN journal' : /\ journal'[i] = <<Whole(RecordOf(journal'[i]))>>
                                        /\ RecordOf(journal'[i]) \in AuditRecord
                                        /\ RecordOf(journal'[i]).seq = i
      BY <1>1, <2>3, WholeLineAdded
    <3>. QED BY <1>1, <2>1, <3>1, <3>2 DEF Dies, JournalInv
  <2>. QED BY <2>1, <2>2, <2>3
<1>. QED BY <1>2, <1>3, <1>4 DEF Record

\* With atomic writes every line parses, and the replay's next line is the record that
\* follows the ones in memory.
LEMMA ReplayReadsNext ==
    ASSUME TypeOK, JournalInv, ReplayLine
    PROVE  /\ mode = "replaying" /\ replayed = Len(log)
           /\ Len(log) + 1 \in DOMAIN journal
           /\ RecordOf(journal[Len(log) + 1]) \in AuditRecord
           /\ Apply(RecordOf(journal[Len(log) + 1]))
           /\ replayed' = replayed + 1
           /\ UNCHANGED <<mode, file, acked, crashes, damaged>>
<1>. DEFINE line == Lines[replayed + 1]
<1>1. Lines = journal /\ mode = "replaying" /\ replayed = Len(log)
  BY DEF Lines, JournalInv, ReplayLine
<1>2. replayed + 1 \in DOMAIN journal
  BY <1>1 DEF ReplayLine, TypeOK
<1>3. line = <<Whole(RecordOf(line))>> /\ RecordOf(line) \in AuditRecord
  BY <1>1, <1>2 DEF JournalInv
<1>4. ~Unreadable(line) /\ Parses(line)
  <2>1. Len(line) = 1 /\ line[1].kind = "whole" /\ DOMAIN line = {1}
    BY <1>3 DEF Whole
  <2>. QED BY <2>1 DEF Unreadable, Parses
<1>5. Apply(line[1].rec) /\ replayed' = replayed + 1
      /\ UNCHANGED <<mode, file, acked, crashes, damaged>>
  BY <1>4 DEF ReplayLine
<1>. QED BY <1>1, <1>2, <1>3, <1>5 DEF RecordOf

\* The journal invariant is inductive.
LEMMA JournalStep ==
    ASSUME AtomicWrites, TypeOK, JournalInv, [Next]_vars
    PROVE  JournalInv'
<1>1. CASE Mutation
  BY <1>1, MutationRecords, RecordKeepsJournal
<1>2. CASE Crash
  BY <1>2 DEF Crash, Dies, file, JournalInv, TypeOK
<1>3. CASE Start
  BY <1>3 DEF Start, JournalInv, TypeOK, memory, file
<1>4. CASE ReplayLine
  <2>1. /\ log' = Append(log, RecordOf(journal[Len(log) + 1]))
        /\ replayed' = replayed + 1 /\ mode' = mode /\ mode = "replaying"
        /\ journal' = journal /\ tail' = tail /\ acked' = acked
        /\ replayed = Len(log)
    BY <1>4, ReplayReadsNext DEF Apply, file
  <2>2. log \in Seq(AuditRecord) /\ RecordOf(journal[Len(log) + 1]) \in AuditRecord
        /\ Len(log) + 1 <= Len(journal)
    BY <1>4, ReplayReadsNext DEF TypeOK
  <2>3. /\ Len(log') = Len(log) + 1 /\ DOMAIN log' = 1 .. Len(log) + 1
        /\ \A i \in 1 .. Len(log) : log'[i] = log[i]
        /\ log'[Len(log) + 1] = RecordOf(journal[Len(log) + 1])
    BY <2>1, <2>2
  <2>4. \A i \in DOMAIN log' : log'[i] = RecordOf(journal[i])
    BY <2>2, <2>3 DEF JournalInv
  <2>. QED BY <2>1, <2>2, <2>3, <2>4 DEF JournalInv
<1>5. CASE Opened
  <2>1. Lines = journal
    BY DEF Lines, JournalInv
  <2>. QED BY <1>5, <2>1 DEF Opened, JournalInv, memory, file
<1>6. CASE UNCHANGED vars
  BY <1>6 DEF vars, memory, file, JournalInv
<1>. QED BY <1>1, <1>2, <1>3, <1>4, <1>5, <1>6 DEF Next

\* The invariant gives the three promises of the audit log.
LEMMA JournalInvImplies ==
    ASSUME TypeOK, JournalInv
    PROVE  MemoryIsJournal /\ GapFree /\ AckedSurvives
<1>1. Lines = journal /\ journal \in Seq(Seq(Chunk)) /\ log \in Seq(AuditRecord)
  BY DEF Lines, JournalInv, TypeOK
<1>2. MemoryIsJournal
  BY <1>1 DEF MemoryIsJournal, JournalInv
<1>3. GapFree
  BY <1>1 DEF GapFree, JournalInv
<1>4. AckedSurvives
  <2>1. ASSUME NEW i \in DOMAIN journal PROVE Parses(journal[i]) /\ ~Unreadable(journal[i])
    <3>1. /\ Len(journal[i]) = 1 /\ DOMAIN journal[i] = {1}
          /\ journal[i][1].kind = "whole"
      BY DEF JournalInv, Whole
    <3>. QED BY <3>1 DEF Parses, Unreadable
  <2>2. \A i \in DOMAIN journal : Replayable(i)
    BY <1>1, <2>1 DEF Replayable
  <2>. QED BY <1>1, <2>2 DEF AckedSurvives, Readable, JournalInv, RecordOf
<1>. QED BY <1>2, <1>3, <1>4

\* While it serves, the store's audit log is the file, numbered without a gap, and
\* what was answered with success is in the file, through every crash and restart,
\* provided a write leaves nothing or a whole line.
THEOREM Durability ==
    ASSUME AtomicWrites
    PROVE  Spec => [](MemoryIsJournal /\ GapFree /\ AckedSurvives)
<1>1. Init => JournalInv
  BY DEF Init, JournalInv
<1>2. TypeOK /\ JournalInv /\ [Next]_vars => JournalInv'
  BY JournalStep
<1>3. TypeOK /\ JournalInv => MemoryIsJournal /\ GapFree /\ AckedSurvives
  BY JournalInvImplies
<1>. QED BY <1>1, <1>2, <1>3, TypeCorrect, PTL DEF Spec

\* The file, read line by line, is the audit log in memory while the service answers.
THEOREM FileIsTheLog ==
    ASSUME AtomicWrites
    PROVE  Spec => []MemoryIsJournal
BY Durability, PTL

\* Audit numbers are 1-based and gap-free within a process and across restarts.
THEOREM NumbersAreGapFree ==
    ASSUME AtomicWrites
    PROVE  Spec => []GapFree
BY Durability, PTL

--------------------------------------------------------------------------------
(* What unfinished writes cost, whatever they leave.                        *)

\* The records on the whole lines of the file.
OnWholeLines == {journal[i][1].rec : i \in {j \in DOMAIN journal : Parses(journal[j])}}

\* Each answered record that is on no whole line is paid for by a damaged line, and a
\* pending tail by one more: the record that its line will cost.
LossInv ==
    /\ IsFiniteSet(acked)
    /\ Cardinality(acked \ OnWholeLines) + (IF tail = <<>> THEN 0 ELSE 1) <= damaged

\* A finished write adds its record to the whole lines or uses up the pending tail.
LEMMA LineFinished ==
    ASSUME TypeOK, NEW op \in Op, Leaves(NextRecord(op), "complete")
    PROVE  /\ tail' = <<>>
           /\ OnWholeLines \subseteq OnWholeLines'
           /\ tail = <<>> => NextRecord(op) \in OnWholeLines'
<1>. DEFINE line == Append(tail, Whole(NextRecord(op)))
            n    == Len(journal)
<1>1. journal' = Append(journal, line) /\ tail' = <<>>
  BY DEF Leaves
<1>2. journal \in Seq(Seq(Chunk)) /\ line \in Seq(Chunk)
  BY RecordTyped DEF TypeOK
<1>3. /\ n \in Nat /\ DOMAIN journal = 1 .. n /\ DOMAIN journal' = 1 .. n + 1
      /\ \A i \in 1 .. n : journal'[i] = journal[i]
      /\ journal'[n + 1] = line
  <2>. HIDE DEF line
  <2>. QED BY <1>1, <1>2
<1>4. OnWholeLines \subseteq OnWholeLines'
  BY <1>3 DEF OnWholeLines
<1>5. ASSUME tail = <<>> PROVE NextRecord(op) \in OnWholeLines'
  <2>1. line = <<Whole(NextRecord(op))>>
    BY <1>5
  <2>2. Parses(line) /\ line[1].rec = NextRecord(op)
    BY <2>1 DEF Parses, Whole
  <2>3. n + 1 \in DOMAIN journal' /\ journal'[n + 1] = line
    BY <1>3
  <2>. HIDE DEF line
  <2>. QED BY <2>2, <2>3 DEF OnWholeLines
<1>. QED BY <1>1, <1>4, <1>5

\* A write that damages a line leaves a tail and the whole lines as they are.
LEMMA LineDamaged ==
    ASSUME TypeOK, NEW op \in Op, NEW damage \in Damage \ {"complete"},
           Leaves(NextRecord(op), damage)
    PROVE  OnWholeLines' = OnWholeLines /\ (damage = "none" => tail' = tail)
BY DEF Leaves, Damage, file, OnWholeLines

\* The loss invariant is inductive, for every damage.
LEMMA LossStep ==
    ASSUME TypeOK, LossInv, [Next]_vars
    PROVE  LossInv'
<1>. USE IssuerStoreAssumption
<1>. DEFINE lost == acked \ OnWholeLines
<1>1. IsFiniteSet(acked) /\ IsFiniteSet(lost) /\ Cardinality(lost) \in Nat
      /\ damaged \in Nat
      /\ Cardinality(lost) + (IF tail = <<>> THEN 0 ELSE 1) <= damaged
  <2>1. lost \in SUBSET acked
    OBVIOUS
  <2>. QED BY <2>1, FS_Subset, FS_CardinalityType DEF LossInv, TypeOK
<1>2. ASSUME UNCHANGED acked, OnWholeLines \subseteq OnWholeLines'
      PROVE  IsFiniteSet(acked') /\ Cardinality(lost') \in Nat
             /\ Cardinality(lost') <= Cardinality(lost)
  <2>1. lost' \in SUBSET lost
    BY <1>2
  <2>. QED BY <1>1, <1>2, <2>1, FS_Subset, FS_CardinalityType
<1>3. CASE Mutation
  <2>1. PICK op \in Op : Record(op)
    BY <1>3, MutationRecords
  <2>2. CASE RecordOk(op)
    <3>1. /\ tail' = <<>> /\ damaged' = damaged
          /\ OnWholeLines \subseteq OnWholeLines'
          /\ tail = <<>> => NextRecord(op) \in OnWholeLines'
      BY <2>2, LineFinished DEF RecordOk
    <3>2. acked' = acked \/ acked' = acked \cup {NextRecord(op)}
      BY <2>2 DEF RecordOk
    <3>3. IsFiniteSet(acked')
      BY <1>1, <3>2, FS_AddElement
    <3>4. IsFiniteSet(lost \cup {NextRecord(op)})
          /\ Cardinality(lost \cup {NextRecord(op)}) <= Cardinality(lost) + 1
      <4>. HIDE DEF lost
      <4>1. \A x : /\ IsFiniteSet(lost \cup {x})
                   /\ Cardinality(lost \cup {x}) =
                        IF x \in lost THEN Cardinality(lost) ELSE Cardinality(lost) + 1
        BY <1>1, FS_AddElement
      <4>2. /\ IsFiniteSet(lost \cup {NextRecord(op)})
            /\ \/ Cardinality(lost \cup {NextRecord(op)}) = Cardinality(lost)
               \/ Cardinality(lost \cup {NextRecord(op)}) = Cardinality(lost) + 1
        BY <4>1, Zenon
      <4>. QED BY <1>1, <4>2
    <3>5. CASE tail = <<>>
      <4>1. lost' \in SUBSET lost
        BY <3>1, <3>2, <3>5
      <4>2. Cardinality(lost') <= Cardinality(lost) /\ Cardinality(lost') \in Nat
        BY <1>1, <4>1, FS_Subset, FS_CardinalityType
      <4>. QED BY <1>1, <3>1, <3>3, <3>5, <4>2 DEF LossInv
    <3>6. CASE tail # <<>>
      <4>1. lost' \in SUBSET (lost \cup {NextRecord(op)})
        BY <3>1, <3>2
      <4>2. Cardinality(lost') <= Cardinality(lost) + 1 /\ Cardinality(lost') \in Nat
        <5>1. /\ IsFiniteSet(lost')
              /\ Cardinality(lost') <= Cardinality(lost \cup {NextRecord(op)})
          BY <3>4, <4>1, FS_Subset
        <5>2. Cardinality(lost') \in Nat /\ Cardinality(lost \cup {NextRecord(op)}) \in Nat
          BY <3>4, <5>1, FS_CardinalityType
        <5>. QED BY <1>1, <3>4, <5>1, <5>2
      <4>. QED BY <1>1, <3>1, <3>3, <3>6, <4>2 DEF LossInv
    <3>. QED BY <3>5, <3>6
  <2>3. ASSUME NEW damage \in Damage, Fault(damage), Leaves(NextRecord(op), damage),
               UNCHANGED acked
        PROVE  LossInv'
    <3>1. CASE damage = "complete"
      <4>1. tail' = <<>> /\ damaged' = damaged /\ OnWholeLines \subseteq OnWholeLines'
        BY <2>3, <3>1, LineFinished DEF Fault
      <4>. QED BY <1>1, <1>2, <2>3, <4>1 DEF LossInv
    <3>2. CASE damage = "none"
      <4>1. tail' = tail /\ damaged' = damaged /\ OnWholeLines = OnWholeLines'
        BY <2>3, <3>2, LineDamaged DEF Fault
      <4>. QED BY <1>1, <1>2, <2>3, <4>1 DEF LossInv
    <3>3. CASE damage \notin {"none", "complete"}
      <4>1. damaged' = damaged + 1 /\ OnWholeLines = OnWholeLines'
        BY <2>3, <3>3, LineDamaged DEF Fault
      <4>. QED BY <1>1, <1>2, <2>3, <4>1 DEF LossInv
    <3>. QED BY <3>1, <3>2, <3>3
  <2>4. CASE RecordErr(op)
    BY <2>3, <2>4 DEF RecordErr
  <2>5. CASE RecordCrash(op)
    BY <2>3, <2>5 DEF RecordCrash, Dies
  <2>. QED BY <2>1, <2>2, <2>4, <2>5 DEF Record
<1>4. CASE Crash \/ Start \/ ReplayLine \/ Opened \/ UNCHANGED vars
  <2>1. UNCHANGED <<file, acked, damaged>>
    BY <1>4 DEF Crash, Fault, Dies, Start, ReplayLine, Opened, vars
  <2>. QED BY <2>1 DEF LossInv, OnWholeLines, file
<1>. QED BY <1>3, <1>4 DEF Next

\* Whatever crashes and failed writes leave in the file, as long as it stays readable each
\* damaged line costs at most one of the records that were answered with success.
THEOREM LossIsBounded == Spec => []LossBound
<1>1. Init => LossInv
  <2>. SUFFICES ASSUME Init PROVE LossInv
    OBVIOUS
  <2>1. acked = {} /\ tail = <<>> /\ damaged = 0
    BY DEF Init
  <2>2. acked \ OnWholeLines = {} /\ IsFiniteSet({}) /\ Cardinality({}) = 0
    BY <2>1, FS_EmptySet
  <2>. QED BY <2>1, <2>2 DEF LossInv
<1>2. TypeOK /\ LossInv /\ [Next]_vars => LossInv'
  BY LossStep
<1>3. TypeOK /\ LossInv => LossBound
  <2>. SUFFICES ASSUME TypeOK, LossInv, \A i \in DOMAIN Lines : ~Unreadable(Lines[i])
                PROVE  Cardinality(acked \ Readable) <= damaged
    BY DEF LossBound
  <2>1. \A i \in DOMAIN journal : i \in DOMAIN Lines /\ Lines[i] = journal[i]
    BY DEF TypeOK, Lines
  <2>2. DOMAIN Lines = 1 .. Len(Lines)
    BY DEF TypeOK, Lines
  <2>3. \A i \in DOMAIN Lines : Parses(Lines[i]) => Replayable(i)
    BY <2>2 DEF Replayable
  <2>4. OnWholeLines \subseteq Readable
    BY <2>1, <2>3 DEF OnWholeLines, Readable
  <2>5. acked \ Readable \in SUBSET (acked \ OnWholeLines)
        /\ acked \ OnWholeLines \in SUBSET acked
    BY <2>4
  <2>6. IsFiniteSet(acked \ OnWholeLines)
    BY <2>5, FS_Subset DEF LossInv
  <2>7. /\ Cardinality(acked \ Readable) <= Cardinality(acked \ OnWholeLines)
        /\ IsFiniteSet(acked \ Readable)
    BY <2>5, <2>6, FS_Subset
  <2>8. Cardinality(acked \ Readable) \in Nat /\ Cardinality(acked \ OnWholeLines) \in Nat
    BY <2>6, <2>7, FS_CardinalityType
  <2>. QED BY <2>7, <2>8 DEF LossInv, TypeOK
<1>. QED BY <1>1, <1>2, <1>3, TypeCorrect, PTL DEF Spec

--------------------------------------------------------------------------------
(* Admission order: what the journal says of creations and registrations,   *)
(* and what the maps make of it while they are rebuilt.                     *)

Creates(rec, id)   == rec.op.type = "CreatePassport" /\ rec.op.passport_id = id
Registers(rec, id) == rec.op.type = "RegisterProfile" /\ rec.op.profile_id = id
Binds(rec, id)     == rec.op.type = "BindApplicability" /\ rec.op.profile_id = id

\* In the file, no passport is created twice, and every binding comes after a
\* registration of its profile.
JournalOrder ==
    /\ \A i, j \in DOMAIN journal : \A id \in PassportId :
            Creates(RecordOf(journal[i]), id) /\ Creates(RecordOf(journal[j]), id) => i = j
    /\ \A i \in DOMAIN journal : \A id \in ProfileId :
            Binds(RecordOf(journal[i]), id) =>
                \E j \in 1 .. i - 1 : Registers(RecordOf(journal[j]), id)

\* The maps hold the passports created, and the profiles registered, by the records
\* applied so far.
MapsFollowLog ==
    /\ \A id \in PassportId :
            id \in DOMAIN passports <=> \E i \in DOMAIN log : Creates(log[i], id)
    /\ \A id \in ProfileId :
            id \in DOMAIN profiles <=> \E i \in DOMAIN log : Registers(log[i], id)

OrderInv == JournalOrder /\ MapsFollowLog /\ BindingsResolve

\* Applying an operation that passed its checks, in a mutation or again in a replay,
\* keeps the maps in step with the log and replaces no document.
LEMMA ApplyGuarded ==
    ASSUME TypeOK, MapsFollowLog, BindingsResolve,
           NEW rec \in AuditRecord, Apply(rec), Guarded(rec.op)
    PROVE  /\ MapsFollowLog' /\ BindingsResolve'
           /\ IsPrefixOf(log, log')
           /\ \A id \in DOMAIN passports :
                /\ id \in DOMAIN passports'
                /\ IsPrefixOf(passports[id].sealed, passports'[id].sealed)
                /\ IsPrefixOf(passports[id].event_signatures,
                              passports'[id].event_signatures)
<1>1. rec.op \in Op /\ log \in Seq(AuditRecord) /\ bindings \in Seq(ProfileId)
  BY DEF AuditRecord, TypeOK
<1>2. /\ DOMAIN log = 1 .. Len(log) /\ Len(log) \in Nat
      /\ Len(log') = Len(log) + 1 /\ DOMAIN log' = 1 .. Len(log) + 1
      /\ \A i \in 1 .. Len(log) : log'[i] = log[i]
      /\ log'[Len(log) + 1] = rec
  BY <1>1 DEF Apply
<1>3. IsPrefixOf(log, log')
  BY <1>2 DEF IsPrefixOf
<1>4. \A id \in PassportId :
        (\E i \in DOMAIN log' : Creates(log'[i], id))
            <=> (\E i \in DOMAIN log : Creates(log[i], id)) \/ Creates(rec, id)
  BY <1>2
<1>5. \A id \in ProfileId :
        (\E i \in DOMAIN log' : Registers(log'[i], id))
            <=> (\E i \in DOMAIN log : Registers(log[i], id)) \/ Registers(rec, id)
  BY <1>2
<1>7. /\ DOMAIN passports' = IF rec.op.type = "CreatePassport"
                             THEN DOMAIN passports \cup {rec.op.passport_id}
                             ELSE DOMAIN passports
      /\ DOMAIN profiles' = IF rec.op.type = "RegisterProfile"
                            THEN DOMAIN profiles \cup {rec.op.profile_id}
                            ELSE DOMAIN profiles
  BY <1>1 DEF Apply, PassportsAfter, ProfilesAfter, Insert, Op
<1>8. MapsFollowLog'
  BY <1>4, <1>5, <1>7 DEF MapsFollowLog, Creates, Registers
<1>9. BindingsResolve'
  <2>1. CASE rec.op.type = "BindApplicability"
    <3>1. bindings' = Append(bindings, rec.op.profile_id)
          /\ rec.op.profile_id \in DOMAIN profiles' /\ DOMAIN profiles' = DOMAIN profiles
      BY <1>7, <2>1 DEF Apply, BindingsAfter, Guarded
    <3>. QED BY <1>1, <3>1 DEF BindingsResolve
  <2>2. CASE rec.op.type # "BindApplicability"
    BY <1>7, <2>2 DEF Apply, BindingsAfter, BindingsResolve
  <2>. QED BY <2>1, <2>2
<1>10. ASSUME NEW id \in DOMAIN passports
       PROVE  /\ id \in DOMAIN passports'
              /\ IsPrefixOf(passports[id].sealed, passports'[id].sealed)
              /\ IsPrefixOf(passports[id].event_signatures,
                            passports'[id].event_signatures)
  <2>1. /\ passports[id].sealed \in Seq(Event)
        /\ passports[id].event_signatures \in Seq(EventSignature)
    BY DEF TypeOK, Document
  <2>2. /\ IsPrefixOf(passports[id].sealed, passports[id].sealed)
        /\ IsPrefixOf(passports[id].event_signatures, passports[id].event_signatures)
    BY <2>1 DEF IsPrefixOf
  <2>3. CASE passports'[id] = passports[id]
    BY <1>7, <2>2, <2>3
  <2>4. CASE rec.op.type = "AppendEvent" /\ rec.op.passport_id = id
    <3>1. passports'[id] = Appended(passports[id], rec.op)
      BY <2>4 DEF Apply, PassportsAfter
    <3>2. \A s : s \in Seq(Event) => IsPrefixOf(s, Append(s, rec.op.event))
      BY DEF IsPrefixOf
    <3>3. \A s, e : s \in Seq(EventSignature) => IsPrefixOf(s, Append(s, e))
      BY DEF IsPrefixOf
    <3>. QED BY <1>7, <2>1, <2>2, <2>4, <3>1, <3>2, <3>3 DEF Appended
  <2>5. CASE ~(rec.op.type = "AppendEvent" /\ rec.op.passport_id = id)
    <3>1. passports'[id] = passports[id]
      <4>1. CASE rec.op.type = "CreatePassport"
        BY <4>1 DEF Apply, PassportsAfter, Insert, Guarded
      <4>2. CASE rec.op.type = "AppendEvent"
        BY <2>5, <4>2 DEF Apply, PassportsAfter
      <4>3. CASE rec.op.type \notin {"CreatePassport", "AppendEvent"}
        BY <4>3 DEF Apply, PassportsAfter
      <4>. QED BY <4>1, <4>2, <4>3
    <3>. QED BY <3>1, <2>3
  <2>. QED BY <2>4, <2>5
<1>. QED BY <1>3, <1>8, <1>9, <1>10

\* A whole line written for an operation that passed its checks keeps the file in order:
\* the maps it was checked against are those of the whole file.
LEMMA OrderedLineAdded ==
    ASSUME TypeOK, JournalInv, JournalOrder, MapsFollowLog, mode = "serving",
           NEW op \in Op, Guarded(op), Leaves(NextRecord(op), "complete")
    PROVE  JournalOrder'
<1>1. /\ Len(journal) = Len(log) /\ Len(log) \in Nat
      /\ DOMAIN journal = 1 .. Len(log) /\ DOMAIN log = 1 .. Len(log)
      /\ journal' \in Seq(Seq(Chunk))
  BY FileTyped DEF JournalInv, TypeOK, Damage
<1>2. /\ DOMAIN journal' = 1 .. Len(log) + 1
      /\ \A i \in DOMAIN journal : RecordOf(journal'[i]) = RecordOf(journal[i])
      /\ RecordOf(journal'[Len(log) + 1]) = NextRecord(op)
  BY <1>1, WholeLineAdded
<1>3. \A i \in DOMAIN log : log[i] = RecordOf(journal[i])
  BY DEF JournalInv
<1>4. NextRecord(op).op = op
  BY DEF NextRecord
<1>5. ASSUME NEW i \in DOMAIN journal', NEW j \in DOMAIN journal', NEW id \in PassportId,
             Creates(RecordOf(journal'[i]), id), Creates(RecordOf(journal'[j]), id)
      PROVE  i = j
  <2>1. CASE i \in DOMAIN journal /\ j \in DOMAIN journal
    BY <1>2, <1>5, <2>1 DEF JournalOrder
  <2>2. ASSUME NEW k \in DOMAIN journal, Creates(RecordOf(journal[k]), id), Creates(NextRecord(op), id)
        PROVE  FALSE
    BY <1>1, <1>3, <1>4, <2>2 DEF Creates, MapsFollowLog, Guarded
  <2>3. CASE i \notin DOMAIN journal \/ j \notin DOMAIN journal
    <3>1. /\ i \in DOMAIN journal \/ i = Len(log) + 1
          /\ j \in DOMAIN journal \/ j = Len(log) + 1
      BY <1>1, <1>2
    <3>. QED BY <1>2, <1>5, <2>2, <2>3, <3>1
  <2>. QED BY <2>1, <2>3
<1>6. ASSUME NEW i \in DOMAIN journal', NEW id \in ProfileId, Binds(RecordOf(journal'[i]), id)
      PROVE  \E j \in 1 .. i - 1 : Registers(RecordOf(journal'[j]), id)
  <2>1. CASE i \in DOMAIN journal
    <3>1. PICK j \in 1 .. i - 1 : Registers(RecordOf(journal[j]), id)
      BY <1>2, <1>6, <2>1 DEF JournalOrder
    <3>2. j \in DOMAIN journal
      BY <1>1, <2>1
    <3>. QED BY <1>2, <3>1, <3>2
  <2>2. CASE i = Len(log) + 1
    <3>1. id \in DOMAIN profiles
      BY <1>2, <1>4, <1>6, <2>2 DEF Binds, Guarded
    <3>2. PICK j \in DOMAIN log : Registers(log[j], id)
      BY <3>1 DEF MapsFollowLog
    <3>3. j \in DOMAIN journal /\ j \in 1 .. i - 1
      BY <1>1, <2>2
    <3>. QED BY <1>2, <1>3, <3>2, <3>3
  <2>. QED BY <1>1, <1>2, <2>1, <2>2
<1>. QED BY <1>5, <1>6 DEF JournalOrder

\* The record a replay applies next passes the checks again, although nothing makes
\* them: the file is in order and the maps are those of the lines before.
LEMMA ReplayGuarded ==
    ASSUME TypeOK, JournalInv, OrderInv, ReplayLine
    PROVE  Guarded(RecordOf(journal[Len(log) + 1]).op)
<1>. DEFINE n == Len(log) + 1
            rec == RecordOf(journal[n])
<1>1. /\ n \in DOMAIN journal /\ rec \in AuditRecord
      /\ Len(log) \in Nat /\ DOMAIN log = 1 .. Len(log)
      /\ DOMAIN journal = 1 .. Len(journal) /\ Len(journal) \in Nat
  BY ReplayReadsNext DEF TypeOK
<1>2. rec.op \in Op
  BY <1>1 DEF AuditRecord
<1>3. \A i \in DOMAIN log : i \in DOMAIN journal /\ i # n /\ log[i] = RecordOf(journal[i])
  <2>1. Len(log) <= Len(journal) /\ \A i \in DOMAIN log : log[i] = RecordOf(journal[i])
    BY DEF JournalInv
  <2>2. ASSUME NEW i \in DOMAIN log PROVE i \in DOMAIN journal /\ i # n
    BY <1>1, <2>1
  <2>. QED BY <2>1, <2>2
<1>4. ASSUME rec.op.type = "CreatePassport" PROVE rec.op.passport_id \notin DOMAIN passports
  <2>. DEFINE id == rec.op.passport_id
  <2>1. id \in PassportId /\ Creates(rec, id)
    BY <1>2, <1>4 DEF Op, Creates
  <2>2. ASSUME NEW i \in DOMAIN log, Creates(log[i], id) PROVE FALSE
    BY <1>1, <1>3, <2>1, <2>2 DEF OrderInv, JournalOrder
  <2>. QED BY <2>1, <2>2 DEF OrderInv, MapsFollowLog
<1>5. ASSUME rec.op.type = "BindApplicability" PROVE rec.op.profile_id \in DOMAIN profiles
  <2>. DEFINE id == rec.op.profile_id
  <2>1. id \in ProfileId /\ Binds(rec, id)
    BY <1>2, <1>5 DEF Op, Binds
  <2>2. PICK j \in 1 .. n - 1 : Registers(RecordOf(journal[j]), id)
    BY <1>1, <2>1 DEF OrderInv, JournalOrder
  <2>3. j \in DOMAIN log
    BY <1>1, <2>2
  <2>. QED BY <1>3, <2>1, <2>2, <2>3 DEF OrderInv, MapsFollowLog
<1>. QED BY <1>4, <1>5 DEF Guarded

\* After the end of the process the maps are empty, and so is the log they follow.
LEMMA DeadMaps ==
    ASSUME Dies
    PROVE  MapsFollowLog' /\ BindingsResolve'
BY DEF Dies, MapsFollowLog, BindingsResolve, NoEntries

\* What a step may never do to the memory of a living process.
StepEditsNothing ==
    mode' # "down" =>
        /\ IsPrefixOf(log, log')
        /\ \A id \in DOMAIN passports :
            /\ id \in DOMAIN passports'
            /\ IsPrefixOf(passports[id].sealed, passports'[id].sealed)
            /\ IsPrefixOf(passports[id].event_signatures, passports'[id].event_signatures)

\* A step that leaves the maps and the log alone.
LEMMA MemoryKept ==
    ASSUME TypeOK, MapsFollowLog, BindingsResolve, UNCHANGED memory
    PROVE  MapsFollowLog' /\ BindingsResolve' /\ StepEditsNothing
<1>1. /\ log \in Seq(AuditRecord)
      /\ \A id \in DOMAIN passports :
            /\ passports[id].sealed \in Seq(Event)
            /\ passports[id].event_signatures \in Seq(EventSignature)
  BY DEF TypeOK, Document
<1>2. StepEditsNothing
  BY <1>1 DEF StepEditsNothing, memory, IsPrefixOf
<1>. QED BY <1>2 DEF MapsFollowLog, BindingsResolve, memory

\* The order invariant is inductive, and no step edits the memory in place.
LEMMA OrderStep ==
    ASSUME AtomicWrites, TypeOK, JournalInv, OrderInv, [Next]_vars
    PROVE  OrderInv' /\ StepEditsNothing
<1>1. CASE Mutation
  <2>1. PICK op \in Op : Record(op) /\ Guarded(op)
    BY <1>1, MutationRecords
  <2>2. mode = "serving"
    BY <2>1 DEF Record
  <2>3. CASE RecordOk(op)
    <3>1. /\ Leaves(NextRecord(op), "complete") /\ Apply(NextRecord(op))
      BY <2>3 DEF RecordOk
    <3>2. NextRecord(op) \in AuditRecord /\ Guarded(NextRecord(op).op)
      BY <2>1, RecordTyped DEF NextRecord
    <3>3. JournalOrder'
      BY <2>1, <2>2, <3>1, OrderedLineAdded DEF OrderInv
    <3>4. MapsFollowLog' /\ BindingsResolve' /\ StepEditsNothing
      BY <3>1, <3>2, ApplyGuarded DEF OrderInv, StepEditsNothing
    <3>. QED BY <3>3, <3>4 DEF OrderInv
  <2>4. CASE RecordErr(op)
    <3>1. UNCHANGED memory /\ UNCHANGED file
      BY <2>4 DEF RecordErr, AtomicWrites, Leaves
    <3>. QED BY <3>1, MemoryKept DEF OrderInv, JournalOrder, file
  <2>5. CASE RecordCrash(op)
    <3>1. /\ Dies
          /\ UNCHANGED file \/ Leaves(NextRecord(op), "complete")
      BY <2>5 DEF RecordCrash, AtomicWrites, Leaves
    <3>2. MapsFollowLog' /\ BindingsResolve' /\ StepEditsNothing
      BY <3>1, DeadMaps DEF Dies, StepEditsNothing
    <3>3. CASE UNCHANGED file
      BY <3>2, <3>3 DEF OrderInv, JournalOrder, file
    <3>4. CASE Leaves(NextRecord(op), "complete")
      BY <2>1, <2>2, <3>2, <3>4, OrderedLineAdded DEF OrderInv
    <3>. QED BY <3>1, <3>3, <3>4
  <2>. QED BY <2>1, <2>3, <2>4, <2>5 DEF Record
<1>2. CASE Crash
  <2>1. Dies /\ UNCHANGED file
    BY <1>2 DEF Crash
  <2>. QED BY <2>1, DeadMaps DEF Dies, StepEditsNothing, OrderInv, JournalOrder, file
<1>3. CASE ReplayLine
  <2>1. /\ RecordOf(journal[Len(log) + 1]) \in AuditRecord
        /\ Apply(RecordOf(journal[Len(log) + 1]))
        /\ UNCHANGED file
    BY <1>3, ReplayReadsNext
  <2>2. MapsFollowLog' /\ BindingsResolve' /\ StepEditsNothing
    BY <1>3, <2>1, ReplayGuarded, ApplyGuarded DEF OrderInv, StepEditsNothing
  <2>. QED BY <2>1, <2>2 DEF OrderInv, JournalOrder, file
<1>4. CASE Start \/ Opened \/ UNCHANGED vars
  <2>1. UNCHANGED memory /\ UNCHANGED file
    BY <1>4 DEF Start, Opened, vars
  <2>. QED BY <2>1, MemoryKept DEF OrderInv, JournalOrder, file
<1>. QED BY <1>1, <1>2, <1>3, <1>4 DEF Next

\* The three invariants together, from Init on.
LEMMA InvariantHolds ==
    ASSUME AtomicWrites
    PROVE  Spec => [](TypeOK /\ JournalInv /\ OrderInv)
<1>1. Init => JournalInv /\ OrderInv
  BY DEF Init, JournalInv, OrderInv, JournalOrder, MapsFollowLog, BindingsResolve, NoEntries
<1>2. TypeOK /\ JournalInv /\ OrderInv /\ [Next]_vars => (JournalInv /\ OrderInv)'
  BY JournalStep, OrderStep
<1>. QED BY <1>1, <1>2, TypeCorrect, PTL DEF Spec

\* Every binding the store holds names a profile it holds, also in the middle of a
\* replay that makes no such check.
THEOREM BindingsAlwaysResolve ==
    ASSUME AtomicWrites
    PROVE  Spec => []BindingsResolve
<1>1. OrderInv => BindingsResolve
  BY DEF OrderInv
<1>. QED BY <1>1, InvariantHolds, PTL

\* No step of a living process changes an audit record, loses a passport or replaces
\* its sealed events or signatures, the steps of a replay included.
THEOREM NothingIsEdited ==
    ASSUME AtomicWrites
    PROVE  Spec => NothingEdited
<1>1. TypeOK /\ JournalInv /\ OrderInv /\ [Next]_vars => [StepEditsNothing]_vars
  BY OrderStep
<1>2. Spec => [][StepEditsNothing]_vars
  BY <1>1, InvariantHolds, PTL DEF Spec
<1>. QED BY <1>2, PTL DEF NothingEdited, StepEditsNothing
================================================================================

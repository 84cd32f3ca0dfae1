------------------------- MODULE IssuerStoreTrailProofs -------------------------
(****************************************************************************)
(* Theorems about what the store's documents say (their events, signatures  *)
(* and status changes), and that IssuerStore implements AuditTrail: both    *)
(* rest on one fact, that each operation of the journal was admissible in   *)
(* the light of the lines before it.                                        *)
(****************************************************************************)
EXTENDS IssuerStoreTrail, IssuerStoreProofs, OrdinalsProofs

--------------------------------------------------------------------------------
(* The events a sequence of audit records leaves a passport with.           *)

AppendsTo(rec, id) == rec.op.type = "AppendEvent" /\ rec.op.passport_id = id

OpsOf(records) == [i \in DOMAIN records |-> records[i].op]

\* Those the trail of these records would have for it.
EventsIn(records, id) == Abstract!Taken(OpsOf(records), id)[Len(records)]

\* What an event that is appended makes of a log.
Sealing(sealed, event) == IF Seals(sealed, event) THEN Append(sealed, event) ELSE sealed

\* What an operation makes of the events of a passport.
AfterOp(events, op, id) ==
    IF op.type = "AppendEvent" /\ op.passport_id = id /\ Seals(events, op.event)
    THEN Append(events, op.event)
    ELSE events

\* The records on the first n lines of the file.
FirstLines(n) == [i \in 1 .. n |-> RecordOf(journal[i])]

--------------------------------------------------------------------------------
(* The invariant.                                                           *)

\* An append was admissible, given the records before it.
Fits(op, records, id) ==
    /\ \E i \in DOMAIN records : Creates(records[i], id)
    /\ op.event.seq = Len(EventsIn(records, id))
    /\ op.event.payload.type = "StatusChange" =>
            /\ <<op.event.payload.from, op.event.payload.to>> \in Legal
            /\ op.event.payload.from = current_status(EventsIn(records, id))

\* In the file, each append fits the lines before it.
JournalFits ==
    \A i \in DOMAIN journal : \A id \in PassportId :
        AppendsTo(RecordOf(journal[i]), id) =>
            Fits(RecordOf(journal[i]).op, FirstLines(i - 1), id)

\* A document has the events that its log took of those its records append, and no record
\* appends to a passport the store does not know.
SealedFollowsLog ==
    \A id \in PassportId :
        EventsIn(log, id) = IF id \in DOMAIN passports THEN passports[id].sealed ELSE <<>>

\* An event stands at its sequence number unless the log refused it as dated back.
Settled(sealed, n, event) == Stands(sealed, n, event) <=> ~DatedBack(sealed, n, event)

\* Each appended event is settled in the log of a known passport.
EventsInPlace ==
    \A i \in DOMAIN log : \A id \in PassportId :
        AppendsTo(log[i], id) =>
            /\ id \in DOMAIN passports
            /\ Settled(passports[id].sealed, log[i].op.event.seq, log[i].op.event)

\* The registered version of a profile is that of its last registration in the log.
VersionsFollowLog ==
    \A id \in DOMAIN profiles :
        \E i \in DOMAIN log :
            /\ Registers(log[i], id) /\ log[i].op.version = profiles[id]
            /\ \A j \in i + 1 .. Len(log) : ~Registers(log[j], id)

MemoryInv == /\ SealedFollowsLog /\ EventsInPlace /\ VersionsFollowLog
             /\ SignaturesVerify /\ StatusChain

DocumentInv == JournalFits /\ MemoryInv
--------------------------------------------------------------------------------
(* What EventsIn does.                                                      *)

\* One pass of the definition of Taken over f.
Pass(ops, id, f) ==
    [n \in 0 .. Len(ops) |-> IF n = 0 THEN <<>> ELSE AfterOp(f[n - 1], ops[n], id)]

\* The events are defined after each of the operations.
LEMMA TakenDefined ==
    ASSUME NEW S, NEW ops \in Seq(S), NEW id
    PROVE  Abstract!Taken(ops, id) = Pass(ops, id, Abstract!Taken(ops, id))
<1>. DEFINE Upto(m, f) == f = [n \in 0 .. m |->
                                IF n = 0 THEN <<>> ELSE AfterOp(f[n - 1], ops[n], id)]
            Runs(m) == \E f : Upto(m, f)
<1>0. Len(ops) \in Nat
  OBVIOUS
<1>1. Runs(0)
  <2>1. Upto(0, [n \in 0 .. 0 |-> <<>>])
    BY SMTT(20)
  <2>. QED BY <2>1
<1>2. ASSUME NEW m \in Nat, Runs(m) PROVE Runs(m + 1)
  <2>1. PICK f : Upto(m, f)
    BY <1>2
  <2>. DEFINE g == [n \in 0 .. m + 1 |->
                        IF n = m + 1 THEN AfterOp(f[m], ops[m + 1], id) ELSE f[n]]
              h == [n \in 0 .. m + 1 |->
                        IF n = 0 THEN <<>> ELSE AfterOp(g[n - 1], ops[n], id)]
  <2>2. ASSUME NEW n \in 0 .. m + 1 PROVE g[n] = h[n]
    <3>1. CASE n = m + 1
      <4>1. g[n] = AfterOp(f[m], ops[m + 1], id) /\ g[n - 1] = f[m]
        BY <3>1
      <4>2. h[n] = AfterOp(g[n - 1], ops[n], id)
        BY <3>1
      <4>. QED BY <3>1, <4>1, <4>2
    <3>2. CASE n = 0
      BY <2>1, <3>2
    <3>3. CASE n \in 1 .. m
      <4>1. g[n] = f[n] /\ g[n - 1] = f[n - 1]
        BY <3>3
      <4>2. f[n] = AfterOp(f[n - 1], ops[n], id)
        BY <2>1, <3>3
      <4>3. h[n] = AfterOp(g[n - 1], ops[n], id)
        BY <3>3
      <4>. QED BY <4>1, <4>2, <4>3
    <3>. QED BY <3>1, <3>2, <3>3
  <2>3. g = h
    <3>1. g = [n \in 0 .. m + 1 |-> g[n]] /\ h = [n \in 0 .. m + 1 |-> h[n]]
      OBVIOUS
    <3>. HIDE DEF g, h
    <3>. QED BY <2>2, <3>1
  <2>. QED BY <2>3
<1>3. Runs(Len(ops))
  <2>. DEFINE Bad == {m \in Nat : ~Runs(m)}
  <2>. HIDE DEF Runs
  <2>. SUFFICES ASSUME Len(ops) \in Bad PROVE FALSE
    BY <1>0
  <2>1. PICK m \in Bad : \A q \in Bad : m <= q
    BY LeastNat
  <2>2. m \in Nat /\ m # 0 /\ m - 1 \in Nat /\ m - 1 \notin Bad
    BY <1>1, <2>1
  <2>. QED BY <1>2, <2>1, <2>2
<1>4. Abstract!Taken(ops, id) = CHOOSE f : Upto(Len(ops), f)
  BY DEF Abstract!Taken, AfterOp
<1>5. Upto(Len(ops), Abstract!Taken(ops, id))
  <2>. HIDE DEF Upto
  <2>. QED BY <1>3, <1>4
<1>. QED BY <1>5 DEF Pass

\* One more operation is one more pass.
LEMMA TakenGrows ==
    ASSUME NEW S, NEW ops \in Seq(S), NEW op \in S, NEW id
    PROVE  Abstract!Taken(Append(ops, op), id)[Len(ops) + 1]
                = AfterOp(Abstract!Taken(ops, id)[Len(ops)], op, id)
<1>. DEFINE more == Append(ops, op)
            a == Abstract!Taken(ops, id)
            b == Abstract!Taken(more, id)
            n == Len(ops)
<1>1. /\ n \in Nat /\ more \in Seq(S) /\ Len(more) = n + 1
      /\ more[n + 1] = op /\ \A i \in 1 .. n : more[i] = ops[i]
  OBVIOUS
<1>2. a = Pass(ops, id, a) /\ b = Pass(more, id, b)
  BY <1>1, TakenDefined
<1>. HIDE DEF a, b, n, more
<1>3. /\ a[0] = <<>> /\ b[0] = <<>>
      /\ \A i \in 1 .. n : a[i] = AfterOp(a[i - 1], ops[i], id)
      /\ \A i \in 1 .. n + 1 : b[i] = AfterOp(b[i - 1], more[i], id)
  <2>1. \A i \in 0 .. n : a[i] = IF i = 0 THEN <<>> ELSE AfterOp(a[i - 1], ops[i], id)
    <3>1. \A i \in 0 .. n : Pass(ops, id, a)[i] =
                                IF i = 0 THEN <<>> ELSE AfterOp(a[i - 1], ops[i], id)
      BY DEF Pass, n
    <3>. QED BY <1>2, <3>1
  <2>2. \A i \in 0 .. n + 1 : b[i] = IF i = 0 THEN <<>> ELSE AfterOp(b[i - 1], more[i], id)
    <3>1. \A i \in 0 .. n + 1 : Pass(more, id, b)[i] =
                                IF i = 0 THEN <<>> ELSE AfterOp(b[i - 1], more[i], id)
      BY <1>1 DEF Pass
    <3>. QED BY <1>2, <3>1
  <2>. QED BY <1>1, <2>1, <2>2
<1>4. \A i \in 0 .. n : a[i] = b[i]
  <2>. DEFINE Bad == {i \in 0 .. n : a[i] # b[i]}
  <2>. SUFFICES ASSUME Bad # {} PROVE FALSE
    OBVIOUS
  <2>1. PICK m \in Bad : \A q \in Bad : m <= q
    <3>1. Bad \subseteq Nat
      BY <1>1
    <3>. HIDE DEF Bad
    <3>. QED BY <3>1, LeastNat
  <2>2. m \in 1 .. n /\ m - 1 \in 0 .. n
    BY <1>1, <1>3, <2>1
  <2>3. a[m - 1] = b[m - 1]
    BY <1>1, <2>1, <2>2
  <2>4. m \in 1 .. n + 1
    BY <1>1, <2>2
  <2>5. a[m] = AfterOp(a[m - 1], ops[m], id) /\ b[m] = AfterOp(b[m - 1], more[m], id)
        /\ more[m] = ops[m]
    BY <1>1, <1>3, <2>2, <2>4
  <2>. QED BY <2>1, <2>3, <2>5
<1>5. b[n + 1] = AfterOp(b[n + 1 - 1], more[n + 1], id) /\ n + 1 - 1 = n
  BY <1>1, <1>3
<1>6. b[n + 1] = AfterOp(a[n], op, id)
  BY <1>1, <1>4, <1>5
<1>. QED BY <1>6 DEF a, b, n, more

\* The operations of some records.
LEMMA OpsOfRecords ==
    ASSUME NEW records \in Seq(AuditRecord), NEW rec \in AuditRecord
    PROVE  /\ OpsOf(records) \in Seq(Op) /\ Len(OpsOf(records)) = Len(records)
           /\ OpsOf(Append(records, rec)) = Append(OpsOf(records), rec.op)
           /\ rec.op \in Op
<1>. DEFINE n == Len(records)
            more == Append(records, rec)
            ops == OpsOf(records)
            left == OpsOf(more)
            right == Append(ops, rec.op)
<1>1. /\ n \in Nat /\ DOMAIN records = 1 .. n /\ DOMAIN more = 1 .. n + 1
      /\ \A i \in 1 .. n : records[i] \in AuditRecord /\ more[i] = records[i]
      /\ more[n + 1] = rec
  OBVIOUS
<1>2. rec.op \in Op /\ \A i \in 1 .. n : records[i].op \in Op
  BY <1>1 DEF AuditRecord
<1>. HIDE DEF n, more
<1>3. ops = [i \in 1 .. n |-> records[i].op] /\ left = [i \in 1 .. n + 1 |-> more[i].op]
  BY <1>1 DEF OpsOf
<1>4. ops \in Seq(Op) /\ Len(ops) = n
  BY <1>1, <1>2, <1>3
<1>5. /\ right = [i \in 1 .. n + 1 |-> right[i]]
      /\ \A i \in 1 .. n : right[i] = ops[i]
      /\ right[n + 1] = rec.op
  <2>. HIDE DEF ops
  <2>1. right \in Seq(Op) /\ Len(right) = n + 1
    BY <1>1, <1>2, <1>4
  <2>2. \A s \in Seq(Op) : s = [i \in 1 .. Len(s) |-> s[i]]
    OBVIOUS
  <2>3. right = [i \in 1 .. n + 1 |-> right[i]]
    <3>. HIDE DEF right
    <3>. QED BY <2>1, <2>2
  <2>. QED BY <1>1, <1>2, <1>4, <2>3
<1>6. \A i \in 1 .. n + 1 : more[i].op = right[i]
  <2>1. \A i \in 1 .. n + 1 : i \in 1 .. n \/ i = n + 1
    BY <1>1
  <2>2. \A i \in 1 .. n : ops[i] = records[i].op
    BY <1>3
  <2>. HIDE DEF right, ops
  <2>. QED BY <1>1, <1>5, <2>1, <2>2
<1>7. left = right
  <2>. HIDE DEF left, right
  <2>. QED BY <1>3, <1>5, <1>6
<1>. QED BY <1>2, <1>4, <1>7 DEF n, more

\* No record leaves no event, and one more record is one more operation.
LEMMA EventsGrow ==
    ASSUME NEW id
    PROVE  /\ EventsIn(<<>>, id) = <<>>
           /\ \A records \in Seq(AuditRecord) : \A rec \in AuditRecord :
                EventsIn(Append(records, rec), id)
                    = AfterOp(EventsIn(records, id), rec.op, id)
<1>1. EventsIn(<<>>, id) = <<>>
  <2>. DEFINE none == <<>>
  <2>1. none \in Seq(Op) /\ Len(none) = 0 /\ OpsOf(none) = none
    BY DEF OpsOf
  <2>. HIDE DEF none
  <2>2. Abstract!Taken(none, id) = Pass(none, id, Abstract!Taken(none, id))
    BY <2>1, TakenDefined
  <2>3. Pass(none, id, Abstract!Taken(none, id))[0] = <<>>
    BY <2>1 DEF Pass
  <2>4. EventsIn(none, id) = <<>>
    BY <2>1, <2>2, <2>3 DEF EventsIn
  <2>. QED BY <2>4 DEF none
<1>2. ASSUME NEW records \in Seq(AuditRecord), NEW rec \in AuditRecord
      PROVE  EventsIn(Append(records, rec), id) = AfterOp(EventsIn(records, id), rec.op, id)
  <2>1. /\ OpsOf(records) \in Seq(Op) /\ Len(OpsOf(records)) = Len(records)
        /\ OpsOf(Append(records, rec)) = Append(OpsOf(records), rec.op)
        /\ rec.op \in Op
    BY OpsOfRecords
  <2>2. Len(Append(records, rec)) = Len(records) + 1
    OBVIOUS
  <2>3. Abstract!Taken(Append(OpsOf(records), rec.op), id)[Len(OpsOf(records)) + 1]
            = AfterOp(Abstract!Taken(OpsOf(records), id)[Len(OpsOf(records))], rec.op, id)
    BY <2>1, TakenGrows
  <2>. QED BY <2>1, <2>2, <2>3 DEF EventsIn
<1>. QED BY <1>1, <1>2
--------------------------------------------------------------------------------
(* What sealing does to what is settled.                                    *)

\* What is settled stays so: the event that takes a refused one's number is dated later.
LEMMA SettledKept ==
    ASSUME NEW sealed \in Seq(Event), NEW event \in Event, NEW n \in Nat, NEW old \in Event,
           Settled(sealed, n, old)
    PROVE  Settled(Sealing(sealed, event), n, old)
<1>. DEFINE longer == Append(sealed, event)
            m == Len(sealed)
<1>1. /\ m \in Nat /\ DOMAIN sealed = 1 .. m /\ DOMAIN longer = 1 .. m + 1
      /\ \A i \in 1 .. m : longer[i] = sealed[i] /\ sealed[i] \in Event
      /\ longer[m + 1] = event
  OBVIOUS
<1>2. \A e \in Event : e.at \in Nat
  BY PassportLogAssumption DEF PassportLogAssumption, Event
<1>. SUFFICES ASSUME Seals(sealed, event) PROVE Settled(longer, n, old)
  BY DEF Sealing
<1>. HIDE DEF longer
<1>3. CASE n + 1 \in 1 .. m
  <2>1. n + 1 \in DOMAIN longer /\ longer[n + 1] = sealed[n + 1]
    BY <1>1, <1>3
  <2>2. n \in DOMAIN longer <=> n \in DOMAIN sealed
    BY <1>1, <1>3
  <2>3. n \in DOMAIN sealed => longer[n] = sealed[n]
    BY <1>1
  <2>. HIDE DEF m
  <2>. QED BY <1>1, <1>3, <2>1, <2>2, <2>3 DEF Settled, Stands, DatedBack
<1>4. CASE n + 1 \notin 1 .. m
  <2>1. DatedBack(sealed, n, old)
    BY <1>1, <1>4 DEF Settled, Stands
  <2>2. /\ "backdated" \in SealRefuses /\ n \in 1 .. m /\ n = m
        /\ old.at < sealed[m].at /\ longer[m] = sealed[m] /\ sealed[m] \in Event
    <3>1. "backdated" \in SealRefuses /\ n \in 1 .. m /\ old.at < sealed[n].at
      BY <1>1, <2>1 DEF DatedBack
    <3>2. n = m
      <4>. HIDE DEF m
      <4>. QED BY <1>1, <1>4, <3>1
    <3>. QED BY <1>1, <3>1, <3>2
  <2>3. DatedBack(longer, n, old)
    BY <1>1, <2>2 DEF DatedBack
  <2>4. sealed # <<>>
    BY <2>2
  <2>5. event.at >= sealed[m].at
    BY <2>2, <2>4 DEF Seals
  <2>6. event # old
    BY <1>2, <2>2, <2>5
  <2>7. ~Stands(longer, n, old)
    BY <1>1, <2>2, <2>6 DEF Stands
  <2>. QED BY <2>3, <2>7 DEF Settled
<1>. QED BY <1>3, <1>4

\* An event appended with the next number is settled, whether the log takes it or not.
LEMMA SettledNew ==
    ASSUME NEW sealed \in Seq(Event), NEW event \in Event, event.seq = Len(sealed)
    PROVE  Settled(Sealing(sealed, event), event.seq, event)
<1>. DEFINE longer == Append(sealed, event)
            m == Len(sealed)
<1>1. /\ m \in Nat /\ DOMAIN sealed = 1 .. m /\ DOMAIN longer = 1 .. m + 1
      /\ \A i \in 1 .. m : longer[i] = sealed[i] /\ sealed[i] \in Event
      /\ longer[m + 1] = event
  OBVIOUS
<1>2. \A e \in Event : e.at \in Nat
  BY PassportLogAssumption DEF PassportLogAssumption, Event
<1>. HIDE DEF longer
<1>3. CASE Seals(sealed, event)
  <2>1. Stands(longer, m, event)
    BY <1>1 DEF Stands
  <2>2. ASSUME DatedBack(longer, m, event) PROVE FALSE
    <3>1. /\ "backdated" \in SealRefuses /\ m \in 1 .. m /\ longer[m] = sealed[m]
          /\ event.at < sealed[m].at /\ sealed[m] \in Event
      BY <1>1, <2>2 DEF DatedBack
    <3>2. sealed # <<>>
      BY <3>1
    <3>3. event.at >= sealed[m].at
      BY <1>3, <3>1, <3>2 DEF Seals
    <3>. QED BY <1>2, <3>1, <3>3
  <2>. QED BY <1>3, <2>1, <2>2 DEF Settled, Sealing, longer
<1>4. CASE ~Seals(sealed, event)
  <2>1. ~Stands(sealed, m, event)
    BY <1>1 DEF Stands
  <2>2. "backdated" \in SealRefuses /\ sealed # <<>> /\ ~(event.at >= sealed[m].at)
    BY <1>4 DEF Seals
  <2>3. m \in DOMAIN sealed /\ sealed[m] \in Event
    BY <1>1, <2>2
  <2>4. event.at < sealed[m].at
    BY <1>2, <2>2, <2>3
  <2>5. DatedBack(sealed, m, event)
    BY <2>2, <2>3, <2>4 DEF DatedBack
  <2>. QED BY <1>4, <2>1, <2>5 DEF Settled, Sealing
<1>. QED BY <1>3, <1>4
--------------------------------------------------------------------------------
(* Applying a record keeps the memory part of the invariant.                *)

\* What holds of a record when it is applied: in a mutation because the store checks
\* it, in a replay because of the lines before it.
Applicable(op) ==
    /\ op.type = "CreatePassport" => op.passport_id \notin DOMAIN passports
    /\ op.type = "AppendEvent" =>
        /\ op.passport_id \in DOMAIN passports
        /\ op.event.seq = Len(passports[op.passport_id].sealed)
        /\ op.event.payload.type = "StatusChange" =>
                op.event.payload.from = current_status(passports[op.passport_id].sealed)

\* The status changes of a sequence of events start where the events before them end.
Chained(sealed) ==
    \A i \in DOMAIN sealed :
        sealed[i].payload.type = "StatusChange" =>
            sealed[i].payload.from = current_status(SubSeq(sealed, 1, i - 1))

Verified(document) ==
    \A k \in DOMAIN document.event_signatures :
        LET sig == document.event_signatures[k] IN
        Settled(document.sealed, sig.seq, sig.over)

\* A change from the current status extends the chain.
LEMMA ChainExtended ==
    ASSUME NEW sealed \in Seq(Event), NEW event \in Event, Chained(sealed),
           event.payload.type = "StatusChange" => event.payload.from = current_status(sealed)
    PROVE  Chained(Append(sealed, event))
<1>. DEFINE longer == Append(sealed, event)
            n == Len(sealed)
<1>1. /\ n \in Nat /\ DOMAIN sealed = 1 .. n /\ DOMAIN longer = 1 .. n + 1
      /\ longer \in Seq(Event) /\ Len(longer) = n + 1
      /\ \A i \in 1 .. n : longer[i] = sealed[i]
      /\ longer[n + 1] = event
  OBVIOUS
<1>2. ASSUME NEW i \in 1 .. n + 1
      PROVE  SubSeq(longer, 1, i - 1) = SubSeq(sealed, 1, i - 1)
  <2>1. i - 1 \in Nat /\ i - 1 <= n
    BY <1>1
  <2>2. SubSeq(longer, 1, i - 1) = [j \in 1 .. i - 1 |-> longer[j]]
    BY <1>1, <2>1
  <2>3. SubSeq(sealed, 1, i - 1) = [j \in 1 .. i - 1 |-> sealed[j]]
    BY <1>1, <2>1
  <2>4. \A j \in 1 .. i - 1 : longer[j] = sealed[j]
    BY <1>1, <2>1
  <2>. HIDE DEF longer, n
  <2>. QED BY <2>2, <2>3, <2>4
<1>3. SubSeq(sealed, 1, n) = sealed
  BY <1>1
<1>4. ASSUME NEW i \in DOMAIN longer, longer[i].payload.type = "StatusChange"
      PROVE  longer[i].payload.from = current_status(SubSeq(longer, 1, i - 1))
  <2>. HIDE DEF longer, n
  <2>1. i \in 1 .. n \/ i = n + 1
    BY <1>1
  <2>2. CASE i \in 1 .. n
    BY <1>1, <1>2, <1>4, <2>2 DEF Chained
  <2>3. CASE i = n + 1
    <3>1. i - 1 = n
      BY <1>1, <2>3
    <3>. QED BY <1>1, <1>2, <1>3, <1>4, <2>3, <3>1
  <2>. QED BY <2>1, <2>2, <2>3
<1>. QED BY <1>4 DEF Chained

\* An append gives its event to the log and settles the signature over it.
LEMMA AppendSettles ==
    ASSUME NEW document \in Document,
           NEW op \in [type : {"AppendEvent"}, passport_id : PassportId,
                       event : Event, signed : BOOLEAN],
           op.event.seq = Len(document.sealed)
    PROVE  /\ Appended(document, op).sealed = Sealing(document.sealed, op.event)
           /\ Verified(document) => Verified(Appended(document, op))
<1>. DEFINE new  == [seq |-> op.event.seq, over |-> op.event]
            sigs == Appended(document, op).event_signatures
            more == Sealing(document.sealed, op.event)
<1>1. /\ document.sealed \in Seq(Event) /\ op.event \in Event /\ op.event.seq \in Nat
      /\ document.event_signatures \in Seq(EventSignature)
      /\ new \in EventSignature
  BY DEF Document, Event, EventSignature
<1>2. Appended(document, op).sealed = more
  BY DEF Appended, Sealing
<1>3. ASSUME NEW k \in DOMAIN sigs
      PROVE  \/ /\ k \in DOMAIN document.event_signatures
                /\ sigs[k] = document.event_signatures[k]
                /\ sigs[k] \in EventSignature
             \/ sigs[k] = new
  <2>1. CASE op.signed
    <3>1. sigs = Append(document.event_signatures, new)
      BY <2>1 DEF Appended
    <3>. HIDE DEF sigs, new
    <3>. QED BY <1>1, <1>3, <3>1
  <2>2. CASE ~op.signed
    <3>1. sigs = document.event_signatures
      BY <2>2 DEF Appended
    <3>. HIDE DEF sigs, new
    <3>. QED BY <1>1, <1>3, <3>1
  <2>. QED BY <2>1, <2>2
<1>4. ASSUME Verified(document), NEW k \in DOMAIN sigs
      PROVE  Settled(more, sigs[k].seq, sigs[k].over)
  <2>1. CASE /\ k \in DOMAIN document.event_signatures
             /\ sigs[k] = document.event_signatures[k]
             /\ sigs[k] \in EventSignature
    <3>1. Settled(document.sealed, sigs[k].seq, sigs[k].over)
      BY <1>4, <2>1 DEF Verified
    <3>2. sigs[k].seq \in Nat /\ sigs[k].over \in Event
      BY <2>1 DEF EventSignature
    <3>. HIDE DEF sigs
    <3>. QED BY <1>1, <3>1, <3>2, SettledKept
  <2>2. CASE sigs[k] = new
    <3>1. Settled(more, op.event.seq, op.event)
      BY <1>1, SettledNew
    <3>2. sigs[k].seq = op.event.seq /\ sigs[k].over = op.event
      BY <2>2
    <3>. HIDE DEF sigs, more
    <3>. QED BY <3>1, <3>2
  <2>. HIDE DEF sigs, new, more
  <2>. QED BY <1>3, <2>1, <2>2
<1>5. ASSUME Verified(document) PROVE Verified(Appended(document, op))
  <2>. HIDE DEF more
  <2>. QED BY <1>2, <1>4, <1>5 DEF Verified
<1>. QED BY <1>2, <1>5
\* Applying an applicable record keeps what the documents and the profiles owe the log.
LEMMA ApplyKeepsMemory ==
    ASSUME TypeOK, MapsFollowLog, MemoryInv,
           NEW rec \in AuditRecord, Apply(rec), Applicable(rec.op)
    PROVE  MemoryInv'
<1>1. rec.op \in Op /\ log \in Seq(AuditRecord) /\ log' = Append(log, rec)
      /\ passports' = PassportsAfter(rec.op) /\ profiles' = ProfilesAfter(rec.op)
  BY DEF AuditRecord, TypeOK, Apply
<1>2. /\ DOMAIN log = 1 .. Len(log) /\ Len(log) \in Nat
      /\ Len(log') = Len(log) + 1 /\ DOMAIN log' = 1 .. Len(log) + 1
      /\ \A i \in 1 .. Len(log) : log'[i] = log[i]
      /\ log'[Len(log) + 1] = rec
  BY <1>1
<1>3. \A id : EventsIn(log', id) = AfterOp(EventsIn(log, id), rec.op, id)
  BY <1>1, EventsGrow
<1>4. CASE rec.op.type = "AppendEvent"
  <2>. DEFINE p   == rec.op.passport_id
              old == passports[p]
              new == passports'[p]
              e   == rec.op.event
  <2>1. /\ rec.op \in [type : {"AppendEvent"}, passport_id : PassportId,
                        event : Event, signed : BOOLEAN]
        /\ p \in DOMAIN passports /\ old \in Document
        /\ e \in Event /\ e.seq = Len(old.sealed) /\ old.sealed \in Seq(Event)
    BY <1>1, <1>4 DEF Op, Applicable, TypeOK, Document
  <2>2. /\ passports' = [passports EXCEPT ![p] = Appended(old, rec.op)]
        /\ profiles' = profiles
    BY <1>1, <1>4, <2>1 DEF PassportsAfter, ProfilesAfter
  <2>3. /\ DOMAIN passports' = DOMAIN passports
        /\ new = Appended(old, rec.op)
        /\ \A id \in DOMAIN passports : id # p => passports'[id] = passports[id]
    BY <2>1, <2>2
  <2>4. new.sealed = Sealing(old.sealed, e) /\ (Verified(old) => Verified(new))
    BY <2>1, <2>3, AppendSettles
  <2>5. \A id : AppendsTo(rec, id) <=> id = p
    BY <1>4 DEF AppendsTo
  <2>. HIDE DEF p, old, new, e
  <2>6. SealedFollowsLog'
    <3>1. \A id : id # p => EventsIn(log', id) = EventsIn(log, id)
      BY <1>3, <2>5 DEF AfterOp, AppendsTo
    <3>2. EventsIn(log, p) = old.sealed /\ p \in PassportId
      BY <2>1 DEF MemoryInv, SealedFollowsLog, TypeOK, old
    <3>3. EventsIn(log', p) = new.sealed
      BY <1>3, <1>4, <2>4, <3>2 DEF AfterOp, Sealing, p, e
    <3>. QED BY <2>1, <2>3, <3>1, <3>3 DEF MemoryInv, SealedFollowsLog, new
  <2>7. EventsInPlace'
    <3>. SUFFICES ASSUME NEW i \in DOMAIN log', NEW id \in PassportId, AppendsTo(log'[i], id)
                  PROVE  /\ id \in DOMAIN passports'
                         /\ Settled(passports'[id].sealed, log'[i].op.event.seq,
                                    log'[i].op.event)
      BY DEF EventsInPlace, Settled, Stands, DatedBack
    <3>1. CASE i \in 1 .. Len(log)
      <4>1. /\ id \in DOMAIN passports /\ log'[i] = log[i]
            /\ Settled(passports[id].sealed, log[i].op.event.seq, log[i].op.event)
        BY <1>2, <3>1 DEF MemoryInv, EventsInPlace
      <4>2. CASE id # p
        BY <2>3, <4>1, <4>2
      <4>3. CASE id = p
        <5>1. log[i].op.event \in Event /\ log[i].op.event.seq \in Nat
          <6>1. log[i] \in AuditRecord
            BY <1>1, <1>2, <3>1
          <6>2. AppendsTo(log[i], id)
            BY <4>1
          <6>. QED BY <6>1, <6>2 DEF AuditRecord, Op, AppendsTo, Event
        <5>2. passports[id].sealed = old.sealed /\ passports'[id].sealed = new.sealed
          BY <4>3 DEF old, new
        <5>3. Settled(Sealing(old.sealed, e), log[i].op.event.seq, log[i].op.event)
          BY <2>1, <4>1, <5>1, <5>2, SettledKept
        <5>. QED BY <2>3, <2>4, <4>1, <5>2, <5>3
      <4>. QED BY <4>2, <4>3
    <3>2. CASE i = Len(log) + 1
      <4>1. id = p /\ log'[i] = rec /\ passports'[id] = new /\ log'[i].op.event = e
        BY <1>2, <2>5, <3>2 DEF new, e
      <4>2. Settled(Sealing(old.sealed, e), e.seq, e)
        BY <2>1, SettledNew
      <4>. QED BY <2>1, <2>3, <2>4, <4>1, <4>2
    <3>. QED BY <1>2, <3>1, <3>2
  <2>8. VersionsFollowLog'
    <3>1. \A id : ~Registers(rec, id)
      BY <1>4 DEF Registers
    <3>. QED BY <1>2, <2>2, <3>1 DEF MemoryInv, VersionsFollowLog
  <2>9. SignaturesVerify'
    <3>1. \A id \in DOMAIN passports : Verified(passports[id])
      BY DEF MemoryInv, SignaturesVerify, Verified, Settled
    <3>2. \A id \in DOMAIN passports' : Verified(passports'[id])
      BY <2>1, <2>3, <2>4, <3>1 DEF old, new
    <3>. QED BY <3>2 DEF SignaturesVerify, Verified, Settled, Stands, DatedBack
  <2>10. StatusChain'
    <3>1. \A id \in DOMAIN passports : Chained(passports[id].sealed)
      BY DEF MemoryInv, StatusChain, Chained
    <3>2. Chained(new.sealed)
      <4>1. e.payload.type = "StatusChange" => e.payload.from = current_status(old.sealed)
        BY <1>4 DEF Applicable, e, old, p
      <4>2. Chained(old.sealed)
        BY <2>1, <3>1 DEF old
      <4>3. Chained(Append(old.sealed, e))
        BY <2>1, <4>1, <4>2, ChainExtended
      <4>. QED BY <2>4, <4>2, <4>3 DEF Sealing
    <3>3. \A id \in DOMAIN passports' : Chained(passports'[id].sealed)
      BY <2>1, <2>3, <3>1, <3>2 DEF new
    <3>. QED BY <3>3 DEF StatusChain, Chained
  <2>. QED BY <2>6, <2>7, <2>8, <2>9, <2>10 DEF MemoryInv
<1>5. CASE rec.op.type # "AppendEvent"
  <2>1. \A id : ~AppendsTo(rec, id)
    BY <1>5 DEF AppendsTo
  <2>2. /\ DOMAIN passports \subseteq DOMAIN passports'
        /\ \A id \in DOMAIN passports : passports'[id] = passports[id]
        /\ \A id \in DOMAIN passports' \ DOMAIN passports : passports'[id] = Minted
    BY <1>1, <1>5 DEF PassportsAfter, Insert, Applicable
  <2>3. SealedFollowsLog'
    <3>1. Minted.sealed = <<>>
      BY DEF Minted
    <3>2. \A id : EventsIn(log', id) = EventsIn(log, id)
      BY <1>3, <2>1 DEF AfterOp, AppendsTo
    <3>. QED BY <2>2, <3>1, <3>2 DEF MemoryInv, SealedFollowsLog
  <2>4. EventsInPlace'
    <3>1. \A i \in DOMAIN log' : \A id \in PassportId : AppendsTo(log'[i], id) =>
                i \in DOMAIN log /\ log'[i] = log[i]
      BY <1>2, <2>1
    <3>. QED BY <2>2, <3>1 DEF MemoryInv, EventsInPlace, Settled, Stands, DatedBack
  <2>5. VersionsFollowLog'
    <3>. SUFFICES ASSUME NEW id \in DOMAIN profiles'
                  PROVE  \E i \in DOMAIN log' :
                            /\ Registers(log'[i], id) /\ log'[i].op.version = profiles'[id]
                            /\ \A j \in i + 1 .. Len(log') : ~Registers(log'[j], id)
      BY DEF VersionsFollowLog
    <3>1. CASE Registers(rec, id)
      <4>1. profiles'[id] = rec.op.version
        BY <1>1, <3>1 DEF Registers, ProfilesAfter, Insert
      <4>2. \A j \in Len(log) + 2 .. Len(log') : FALSE
        BY <1>2
      <4>. QED BY <1>2, <3>1, <4>1, <4>2
    <3>2. CASE ~Registers(rec, id)
      <4>1. id \in DOMAIN profiles /\ profiles'[id] = profiles[id]
        BY <1>1, <3>2 DEF Registers, ProfilesAfter, Insert
      <4>2. PICK i \in DOMAIN log :
                /\ Registers(log[i], id) /\ log[i].op.version = profiles[id]
                /\ \A j \in i + 1 .. Len(log) : ~Registers(log[j], id)
        BY <4>1 DEF MemoryInv, VersionsFollowLog
      <4>3. ASSUME NEW j \in i + 1 .. Len(log') PROVE ~Registers(log'[j], id)
        <5>1. j \in i + 1 .. Len(log) \/ j = Len(log) + 1
          BY <1>2, <4>2
        <5>2. i \in 1 .. Len(log)
          BY <1>2, <4>2
        <5>. QED BY <1>2, <3>2, <4>2, <5>1, <5>2
      <4>. QED BY <1>2, <4>1, <4>2, <4>3
    <3>. QED BY <3>1, <3>2
  <2>6. SignaturesVerify'
    <3>1. Minted.event_signatures = <<>>
      BY DEF Minted
    <3>. QED BY <2>2, <3>1 DEF MemoryInv, SignaturesVerify, Stands, DatedBack
  <2>7. StatusChain'
    <3>1. Minted.sealed = <<>>
      BY DEF Minted
    <3>. QED BY <2>2, <3>1 DEF MemoryInv, StatusChain
  <2>. QED BY <2>3, <2>4, <2>5, <2>6, <2>7 DEF MemoryInv
<1>. QED BY <1>4, <1>5
--------------------------------------------------------------------------------
(* The journal part: what is written fits, and fits again when it is read.  *)

\* What a mutation has checked of the operation it records.
Admitted(op) ==
    /\ Applicable(op) /\ Guarded(op)
    /\ (op.type = "AppendEvent" /\ op.event.payload.type = "StatusChange") =>
            <<op.event.payload.from, op.event.payload.to>> \in Legal
    /\ (op.type = "RegisterProfile" /\ op.profile_id \in DOMAIN profiles) =>
            profiles[op.profile_id] # op.version

\* Every mutation is Record of some operation it has admitted.
LEMMA MutationAdmits ==
    ASSUME TypeOK, Mutation
    PROVE  \E op \in Op : Record(op) /\ Admitted(op)
<1>1. ASSUME NEW id \in PassportId, CreatePassport(id)
      PROVE  \E op \in Op : Record(op) /\ Admitted(op)
  <2>. DEFINE op == [type |-> "CreatePassport", passport_id |-> id]
  <2>1. op \in Op
    BY DEF Op
  <2>2. Record(op) /\ Admitted(op)
    BY <1>1 DEF CreatePassport, Guarded, Applicable, Admitted
  <2>. QED BY <2>1, <2>2
<1>2. ASSUME NEW id \in PassportId, NEW at \in Time, NEW payload \in Payload,
             NEW signed \in BOOLEAN, AppendEvent(id, at, payload, signed)
      PROVE  \E op \in Op : Record(op) /\ Admitted(op)
  <2>1. Len(passports[id].sealed) \in Nat
    BY <1>2 DEF AppendEvent, TypeOK, Document
  <2>. DEFINE op == [type |-> "AppendEvent", passport_id |-> id, signed |-> signed,
                     event |-> [seq |-> Len(passports[id].sealed), at |-> at,
                                payload |-> payload]]
  <2>2. op \in Op
    BY <2>1 DEF Op, Event
  <2>3. Record(op) /\ Admitted(op)
    BY <1>2 DEF AppendEvent, Constructible, Guarded, Applicable, Admitted
  <2>. QED BY <2>2, <2>3
<1>3. ASSUME NEW id \in ProfileId, NEW version \in Version, RegisterProfile(id, version)
      PROVE  \E op \in Op : Record(op) /\ Admitted(op)
  <2>. DEFINE op == [type |-> "RegisterProfile", profile_id |-> id, version |-> version]
  <2>1. op \in Op
    BY DEF Op
  <2>2. Record(op) /\ Admitted(op)
    BY <1>3 DEF RegisterProfile, Guarded, Applicable, Admitted
  <2>. QED BY <2>1, <2>2
<1>4. ASSUME NEW id \in ProfileId, BindApplicability(id)
      PROVE  \E op \in Op : Record(op) /\ Admitted(op)
  <2>. DEFINE op == [type |-> "BindApplicability", profile_id |-> id]
  <2>1. op \in Op
    BY DEF Op
  <2>2. Record(op) /\ Admitted(op)
    BY <1>4 DEF BindApplicability, Guarded, Applicable, Admitted
  <2>. QED BY <2>1, <2>2
<1>. QED BY <1>1, <1>2, <1>3, <1>4 DEF Mutation

\* The audit log in memory is the beginning of the file.
LEMMA LogIsFirstLines ==
    ASSUME TypeOK, JournalInv
    PROVE  log = FirstLines(Len(log))
<1>1. log \in Seq(AuditRecord) /\ \A i \in DOMAIN log : log[i] = RecordOf(journal[i])
  BY DEF TypeOK, JournalInv
<1>2. log = [i \in 1 .. Len(log) |-> log[i]]
  BY <1>1
<1>. QED BY <1>1, <1>2 DEF FirstLines

\* An admitted append fits the log it is checked against, when that log is the file.
LEMMA AdmittedFits ==
    ASSUME TypeOK, MapsFollowLog, SealedFollowsLog, NEW op \in Op, Admitted(op),
           NEW id \in PassportId, op.type = "AppendEvent", op.passport_id = id
    PROVE  Fits(op, log, id)
<1>1. id \in DOMAIN passports /\ EventsIn(log, id) = passports[id].sealed
  BY DEF Admitted, Applicable, SealedFollowsLog
<1>2. \E i \in DOMAIN log : Creates(log[i], id)
  BY <1>1 DEF MapsFollowLog
<1>. QED BY <1>1, <1>2 DEF Fits, Admitted, Applicable

\* A whole line written for an admitted operation fits the lines before it.
LEMMA FittingLineAdded ==
    ASSUME TypeOK, JournalInv, MapsFollowLog, SealedFollowsLog, JournalFits,
           mode = "serving", NEW op \in Op, Admitted(op),
           Leaves(NextRecord(op), "complete")
    PROVE  JournalFits'
<1>1. /\ Len(journal) = Len(log) /\ Len(log) \in Nat
      /\ DOMAIN journal = 1 .. Len(log)
      /\ DOMAIN journal' = 1 .. Len(log) + 1
      /\ \A i \in DOMAIN journal : RecordOf(journal'[i]) = RecordOf(journal[i])
      /\ RecordOf(journal'[Len(log) + 1]) = NextRecord(op)
  <2>1. journal' \in Seq(Seq(Chunk))
    BY FileTyped DEF Damage
  <2>. QED BY <2>1, WholeLineAdded DEF JournalInv, TypeOK
<1>2. ASSUME NEW i \in 1 .. Len(log) + 1
      PROVE  FirstLines(i - 1)' = FirstLines(i - 1)
  <2>1. \A j \in 1 .. i - 1 : j \in DOMAIN journal
    BY <1>1
  <2>2. \A j \in 1 .. i - 1 : RecordOf(journal'[j]) = RecordOf(journal[j])
    BY <1>1, <2>1
  <2>. QED BY <2>2 DEF FirstLines, RecordOf
<1>3. FirstLines(Len(log)) = log
  BY LogIsFirstLines
<1>4. ASSUME NEW i \in DOMAIN journal', NEW id \in PassportId,
             AppendsTo(RecordOf(journal'[i]), id)
      PROVE  Fits(RecordOf(journal'[i]).op, FirstLines(i - 1)', id)
  <2>1. i \in DOMAIN journal \/ i = Len(log) + 1
    BY <1>1
  <2>2. CASE i \in DOMAIN journal
    <3>1. RecordOf(journal'[i]) = RecordOf(journal[i]) /\ FirstLines(i - 1)' = FirstLines(i - 1)
      BY <1>1, <1>2, <2>2
    <3>2. Fits(RecordOf(journal[i]).op, FirstLines(i - 1), id)
      BY <1>4, <2>2, <3>1 DEF JournalFits
    <3>. QED BY <3>1, <3>2
  <2>3. CASE i = Len(log) + 1
    <3>1. RecordOf(journal'[i]).op = op
      BY <1>1, <2>3 DEF NextRecord
    <3>2. FirstLines(i - 1)' = log
      <4>1. i - 1 = Len(log)
        BY <1>1, <2>3
      <4>. QED BY <1>1, <1>2, <1>3, <2>3, <4>1
    <3>3. Fits(op, log, id)
      BY <1>4, <3>1, AdmittedFits DEF AppendsTo
    <3>. QED BY <3>1, <3>2, <3>3
  <2>. QED BY <2>1, <2>2, <2>3
<1>. QED BY <1>4 DEF JournalFits

\* The record a replay applies next is applicable, although nothing checks it again.
LEMMA ReplayApplicable ==
    ASSUME TypeOK, JournalInv, OrderInv, JournalFits, SealedFollowsLog, ReplayLine
    PROVE  Applicable(RecordOf(journal[Len(log) + 1]).op)
<1>. DEFINE n == Len(log) + 1
            rec == RecordOf(journal[n])
<1>1. n \in DOMAIN journal /\ rec \in AuditRecord /\ n - 1 = Len(log)
  BY ReplayReadsNext DEF TypeOK
<1>2. Guarded(rec.op)
  BY ReplayGuarded
<1>3. ASSUME rec.op.type = "AppendEvent"
      PROVE  /\ rec.op.passport_id \in DOMAIN passports
             /\ rec.op.event.seq = Len(passports[rec.op.passport_id].sealed)
             /\ rec.op.event.payload.type = "StatusChange" =>
                    rec.op.event.payload.from =
                        current_status(passports[rec.op.passport_id].sealed)
  <2>. DEFINE id == rec.op.passport_id
  <2>1. id \in PassportId /\ AppendsTo(rec, id)
    BY <1>1, <1>3 DEF AuditRecord, Op, AppendsTo
  <2>2. Fits(rec.op, FirstLines(n - 1), id)
    BY <1>1, <2>1 DEF JournalFits
  <2>3. Fits(rec.op, log, id)
    BY <1>1, <2>2, LogIsFirstLines
  <2>4. id \in DOMAIN passports /\ EventsIn(log, id) = passports[id].sealed
    BY <2>1, <2>3 DEF Fits, OrderInv, MapsFollowLog, SealedFollowsLog
  <2>. QED BY <2>3, <2>4 DEF Fits
<1>. QED BY <1>2, <1>3 DEF Applicable, Guarded

\* After the end of the process there is no document, and no record that wants one.
LEMMA DeadMemory ==
    ASSUME Dies
    PROVE  MemoryInv'
<1>1. passports' = NoEntries /\ profiles' = NoEntries /\ log' = <<>>
  BY DEF Dies
<1>2. DOMAIN NoEntries = {}
  BY DEF NoEntries
<1>3. \A id : EventsIn(<<>>, id) = <<>>
  BY EventsGrow
<1>. QED BY <1>1, <1>2, <1>3
     DEF MemoryInv, SealedFollowsLog, EventsInPlace, VersionsFollowLog, SignaturesVerify, StatusChain
\* A step that leaves the memory and the file alone keeps the invariant.
LEMMA DocumentsKept ==
    ASSUME DocumentInv, UNCHANGED memory, UNCHANGED file
    PROVE  DocumentInv'
<1>1. \A n : FirstLines(n)' = FirstLines(n)
  BY DEF file, FirstLines
<1>2. JournalFits'
  BY <1>1 DEF DocumentInv, JournalFits, file
<1>3. MemoryInv'
  BY DEF DocumentInv, MemoryInv, SealedFollowsLog, EventsInPlace, VersionsFollowLog,
         SignaturesVerify, StatusChain, memory
<1>. QED BY <1>2, <1>3 DEF DocumentInv

\* The invariant is inductive, next to those of the journal and of its order.
LEMMA DocumentStep ==
    ASSUME AtomicWrites, TypeOK, JournalInv, OrderInv, DocumentInv, [Next]_vars
    PROVE  DocumentInv'
<1>. USE DEF DocumentInv
<1>1. ASSUME UNCHANGED file PROVE JournalFits'
  <2>1. \A n : FirstLines(n)' = FirstLines(n)
    BY <1>1 DEF file, FirstLines
  <2>. QED BY <1>1, <2>1 DEF JournalFits, file
<1>2. CASE Mutation
  <2>1. PICK op \in Op : Record(op) /\ Admitted(op)
    BY <1>2, MutationAdmits
  <2>2. mode = "serving" /\ MapsFollowLog /\ SealedFollowsLog
    BY <2>1 DEF Record, OrderInv, MemoryInv
  <2>3. CASE RecordOk(op)
    <3>1. /\ Leaves(NextRecord(op), "complete") /\ Apply(NextRecord(op))
          /\ NextRecord(op) \in AuditRecord /\ Applicable(NextRecord(op).op)
      BY <2>1, <2>3, RecordTyped DEF RecordOk, NextRecord, Admitted
    <3>2. MemoryInv'
      BY <2>2, <3>1, ApplyKeepsMemory
    <3>3. JournalFits'
      BY <2>1, <2>2, <3>1, FittingLineAdded
    <3>. QED BY <3>2, <3>3
  <2>4. CASE RecordErr(op)
    BY <2>4, DocumentsKept DEF RecordErr, AtomicWrites, Leaves
  <2>5. CASE RecordCrash(op)
    <3>1. /\ Dies
          /\ UNCHANGED file \/ Leaves(NextRecord(op), "complete")
      BY <2>5 DEF RecordCrash, AtomicWrites, Leaves
    <3>2. JournalFits'
      BY <1>1, <2>1, <2>2, <3>1, FittingLineAdded
    <3>. QED BY <3>1, <3>2, DeadMemory
  <2>. QED BY <2>1, <2>3, <2>4, <2>5 DEF Record
<1>3. CASE Crash
  BY <1>1, <1>3, DeadMemory DEF Crash
<1>4. CASE ReplayLine
  <2>1. /\ RecordOf(journal[Len(log) + 1]) \in AuditRecord
        /\ Apply(RecordOf(journal[Len(log) + 1]))
        /\ UNCHANGED file
    BY <1>4, ReplayReadsNext
  <2>2. Applicable(RecordOf(journal[Len(log) + 1]).op)
    BY <1>4, ReplayApplicable DEF MemoryInv
  <2>3. MemoryInv'
    BY <2>1, <2>2, ApplyKeepsMemory DEF OrderInv
  <2>. QED BY <1>1, <2>1, <2>3
<1>5. CASE Start \/ Opened \/ UNCHANGED vars
  BY <1>5, DocumentsKept DEF Start, Opened, vars
<1>. QED BY <1>2, <1>3, <1>4, <1>5 DEF Next

\* All invariants of the store, from Init on.
LEMMA DocumentInvariantHolds ==
    ASSUME AtomicWrites
    PROVE  Spec => [](TypeOK /\ JournalInv /\ OrderInv /\ DocumentInv)
<1>1. Init => DocumentInv
  <2>. SUFFICES ASSUME Init PROVE DocumentInv
    OBVIOUS
  <2>1. passports = NoEntries /\ profiles = NoEntries /\ log = <<>> /\ journal = <<>>
    BY DEF Init
  <2>2. DOMAIN NoEntries = {}
    BY DEF NoEntries
  <2>3. \A id : EventsIn(<<>>, id) = <<>>
    BY EventsGrow
  <2>. QED BY <2>1, <2>2, <2>3
       DEF DocumentInv, JournalFits, MemoryInv, SealedFollowsLog, EventsInPlace,
           VersionsFollowLog, SignaturesVerify, StatusChain
<1>2. TypeOK /\ JournalInv /\ OrderInv /\ DocumentInv /\ [Next]_vars => DocumentInv'
  BY DocumentStep
<1>. QED BY <1>1, <1>2, InvariantHolds, PTL DEF Spec

--------------------------------------------------------------------------------
(* What the invariant promises of the documents.                            *)

\* Every signature a document records is over the sealed event with its number, in the
\* life of the store and in every state of a replay, but for exactly the events that the
\* log refused as dated back: those signatures match no event, ever after.  Whatever else
\* the log may refuse, writes leave nothing or a whole line.
THEOREM SignaturesAlwaysVerify ==
    ASSUME AtomicWrites
    PROVE  Spec => []SignaturesVerify
<1>1. DocumentInv => SignaturesVerify
  BY DEF DocumentInv, MemoryInv
<1>. QED BY <1>1, DocumentInvariantHolds, PTL

\* Each status change starts from the status its predecessors replay to, also in the
\* logs a replay rebuilds without a check.
THEOREM StatusIsChained ==
    ASSUME AtomicWrites
    PROVE  Spec => []StatusChain
<1>1. DocumentInv => StatusChain
  BY DEF DocumentInv, MemoryInv
<1>. QED BY <1>1, DocumentInvariantHolds, PTL

\* An event that was answered 201 with number n is the n-th of its passport's log
\* whenever the service answers, through every crash and restart, if and only if the log
\* did not refuse it as dated back.
THEOREM AckedEventsAreSealed ==
    ASSUME AtomicWrites
    PROVE  Spec => []AckedEventSealed
<1>1. TypeOK /\ JournalInv /\ DocumentInv => AckedEventSealed
  <2>. SUFFICES ASSUME TypeOK, JournalInv, DocumentInv, mode = "serving",
                       NEW rec \in acked, rec.op.type = "AppendEvent"
                PROVE  /\ rec.op.passport_id \in DOMAIN passports
                       /\ Settled(passports[rec.op.passport_id].sealed,
                                  rec.op.event.seq, rec.op.event)
    BY DEF AckedEventSealed, Settled
  <2>1. PICK i \in DOMAIN journal : rec = RecordOf(journal[i])
    BY DEF JournalInv
  <2>2. i \in DOMAIN log /\ log[i] = rec
    BY <2>1 DEF JournalInv, TypeOK
  <2>3. rec.op.passport_id \in PassportId /\ AppendsTo(log[i], rec.op.passport_id)
    <3>1. rec \in AuditRecord
      BY DEF TypeOK
    <3>. QED BY <2>2, <3>1 DEF AuditRecord, Op, AppendsTo
  <2>. QED BY <2>2, <2>3 DEF DocumentInv, MemoryInv, EventsInPlace
<1>. QED BY <1>1, DocumentInvariantHolds, PTL
--------------------------------------------------------------------------------
(* IssuerStore implements AuditTrail.                                       *)

\* While the service answers requests, the trail is the operations of the log.
LEMMA TrailIsLog ==
    ASSUME TypeOK, JournalInv, mode = "serving"
    PROVE  /\ DOMAIN JournalOps = 1 .. Len(log) /\ DOMAIN log = 1 .. Len(log)
           /\ Len(log) \in Nat /\ log \in Seq(AuditRecord)
           /\ JournalOps \in Seq(Op) /\ Len(JournalOps) = Len(log)
           /\ \A i \in 1 .. Len(log) : JournalOps[i] = log[i].op
<1>1. /\ log \in Seq(AuditRecord) /\ DOMAIN log = 1 .. Len(log) /\ Len(log) \in Nat
      /\ DOMAIN journal = 1 .. Len(log)
      /\ \A i \in 1 .. Len(log) : log[i] = RecordOf(journal[i])
  <2>1. log \in Seq(AuditRecord) /\ journal \in Seq(Seq(Chunk)) /\ Len(log) = Len(journal)
    BY DEF TypeOK, JournalInv
  <2>2. \A i \in DOMAIN log : log[i] = RecordOf(journal[i])
    BY DEF JournalInv
  <2>3. DOMAIN journal = 1 .. Len(log)
    BY <2>1
  <2>4. DOMAIN log = 1 .. Len(log) /\ Len(log) \in Nat
    BY <2>1
  <2>. QED BY <2>1, <2>2, <2>3, <2>4
<1>2. JournalOps = [i \in 1 .. Len(log) |-> log[i].op]
  BY <1>1 DEF JournalOps, RecordOf
<1>3. \A i \in 1 .. Len(log) : log[i].op \in Op
  <2>1. \A i \in 1 .. Len(log) : log[i] \in AuditRecord
    BY <1>1
  <2>. QED BY <2>1 DEF AuditRecord
<1>. QED BY <1>1, <1>2, <1>3

\* The events the trail has for a passport are those of the log.
LEMMA TrailEvents ==
    ASSUME TypeOK, JournalInv, mode = "serving", NEW id
    PROVE  Abstract!EventsOf(id) = EventsIn(log, id)
<1>1. JournalOps = OpsOf(log) /\ Len(JournalOps) = Len(log)
  BY TrailIsLog DEF OpsOf
<1>. QED BY <1>1 DEF Abstract!EventsOf, EventsIn

\* What the maps say of passports and profiles is what the trail says.
LEMMA TrailMaps ==
    ASSUME TypeOK, JournalInv, OrderInv, VersionsFollowLog, mode = "serving"
    PROVE  /\ \A id \in PassportId : Abstract!Created(id) <=> id \in DOMAIN passports
           /\ \A id \in ProfileId : \A v :
                Abstract!CurrentVersion(id, v) <=> (id \in DOMAIN profiles /\ profiles[id] = v)
<1>1. \A id : Abstract!Created(id) <=> \E i \in DOMAIN log : Creates(log[i], id)
  BY TrailIsLog DEF Abstract!Created, Creates
<1>2. \A id \in PassportId : Abstract!Created(id) <=> id \in DOMAIN passports
  BY <1>1 DEF OrderInv, MapsFollowLog
<1>3. ASSUME NEW id, NEW v
      PROVE  Abstract!CurrentVersion(id, v) <=>
                \E i \in DOMAIN log :
                    /\ Registers(log[i], id) /\ log[i].op.version = v
                    /\ \A j \in i + 1 .. Len(log) : ~Registers(log[j], id)
  <2>1. \A i \in 1 .. Len(log) : \A j \in i + 1 .. Len(log) : j \in 1 .. Len(log)
    BY TrailIsLog
  <2>. QED BY <2>1, TrailIsLog DEF Abstract!CurrentVersion, Registers
<1>4. ASSUME NEW id \in ProfileId, NEW v
      PROVE  Abstract!CurrentVersion(id, v) <=> (id \in DOMAIN profiles /\ profiles[id] = v)
  <2>1. ASSUME id \in DOMAIN profiles, profiles[id] = v PROVE Abstract!CurrentVersion(id, v)
    BY <1>3, <2>1 DEF VersionsFollowLog
  <2>2. ASSUME Abstract!CurrentVersion(id, v) PROVE id \in DOMAIN profiles /\ profiles[id] = v
    <3>1. PICK i \in DOMAIN log :
            /\ Registers(log[i], id) /\ log[i].op.version = v
            /\ \A j \in i + 1 .. Len(log) : ~Registers(log[j], id)
      BY <1>3, <2>2
    <3>2. id \in DOMAIN profiles
      BY <3>1 DEF OrderInv, MapsFollowLog
    <3>3. PICK k \in DOMAIN log :
            /\ Registers(log[k], id) /\ log[k].op.version = profiles[id]
            /\ \A j \in k + 1 .. Len(log) : ~Registers(log[j], id)
      BY <3>2 DEF VersionsFollowLog
    <3>4. i = k
      <4>1. i \in 1 .. Len(log) /\ k \in 1 .. Len(log) /\ Len(log) \in Nat
        BY TrailIsLog
      <4>2. ~(i < k) /\ ~(k < i)
        BY <3>1, <3>3, <4>1
      <4>. QED BY <4>1, <4>2
    <3>. QED BY <3>1, <3>2, <3>3, <3>4
  <2>. QED BY <2>1, <2>2
<1>. QED BY <1>2, <1>4

\* What the store admits is admissible in the light of the trail.
LEMMA AdmittedIsAdmissible ==
    ASSUME TypeOK, JournalInv, OrderInv, DocumentInv, mode = "serving",
           NEW op \in Op, Admitted(op)
    PROVE  Abstract!Admissible(op)
<1>. USE DEF DocumentInv, MemoryInv
<1>1. CASE op.type = "CreatePassport"
  <2>1. op.passport_id \in PassportId
    BY <1>1 DEF Op
  <2>. QED BY <1>1, <2>1, TrailMaps DEF Abstract!Admissible, Admitted, Applicable
<1>2. CASE op.type = "AppendEvent"
  <2>1. op.passport_id \in PassportId /\ op.passport_id \in DOMAIN passports
    BY <1>2 DEF Op, Admitted, Applicable
  <2>2. Abstract!EventsOf(op.passport_id) = passports[op.passport_id].sealed
    BY <2>1, TrailEvents DEF SealedFollowsLog
  <2>. QED BY <1>2, <2>1, <2>2, TrailMaps DEF Abstract!Admissible, Admitted, Applicable
<1>3. CASE op.type = "RegisterProfile"
  <2>1. op.profile_id \in ProfileId
    BY <1>3 DEF Op
  <2>. QED BY <1>3, <2>1, TrailMaps DEF Abstract!Admissible, Admitted
<1>4. CASE op.type = "BindApplicability"
  <2>1. op.profile_id \in ProfileId /\ op.profile_id \in DOMAIN profiles
    BY <1>4 DEF Op, Admitted, Guarded
  <2>2. profiles[op.profile_id] \in Version
    BY <2>1 DEF TypeOK
  <2>. QED BY <1>4, <2>1, <2>2, TrailMaps DEF Abstract!Admissible
<1>. QED BY <1>1, <1>2, <1>3, <1>4 DEF Op

\* A whole line written for an admitted operation commits it to the trail.
LEMMA LineCommits ==
    ASSUME TypeOK, JournalInv, OrderInv, DocumentInv, mode = "serving",
           NEW op \in Op, Admitted(op), Leaves(NextRecord(op), "complete")
    PROVE  Abstract!Commit
<1>. DEFINE n == Len(log)
<1>1. /\ JournalOps \in Seq(Op) /\ Len(JournalOps) = n /\ n \in Nat
      /\ DOMAIN journal = 1 .. n
  <2>1. DOMAIN journal = 1 .. n
    BY DEF TypeOK, JournalInv
  <2>. QED BY <2>1, TrailIsLog
<1>2. /\ DOMAIN journal' = 1 .. n + 1
      /\ \A i \in 1 .. n : RecordOf(journal'[i]) = RecordOf(journal[i])
      /\ RecordOf(journal'[n + 1]).op = op
  <2>1. journal' \in Seq(Seq(Chunk))
    BY FileTyped DEF Damage
  <2>. QED BY <1>1, <2>1, WholeLineAdded DEF NextRecord
<1>3. JournalOps' = [i \in 1 .. n + 1 |-> RecordOf(journal'[i]).op]
  BY <1>2 DEF JournalOps, RecordOf
<1>4. JournalOps = [i \in 1 .. n |-> RecordOf(journal[i]).op]
  BY <1>1 DEF JournalOps, RecordOf
<1>5. JournalOps' = Append(JournalOps, op)
  <2>. DEFINE longer == Append(JournalOps, op)
  <2>1. /\ longer \in Seq(Op) /\ longer = [i \in 1 .. n + 1 |-> longer[i]]
        /\ \A i \in 1 .. n : longer[i] = JournalOps[i]
        /\ longer[n + 1] = op
    <3>. HIDE DEF n
    <3>1. longer \in Seq(Op) /\ Len(longer) = n + 1 /\ DOMAIN longer = 1 .. n + 1
      BY <1>1
    <3>2. \A s \in Seq(Op) : s = [i \in DOMAIN s |-> s[i]]
      OBVIOUS
    <3>3. longer = [i \in 1 .. n + 1 |-> longer[i]]
      <4>. HIDE DEF longer
      <4>. QED BY <3>1, <3>2
    <3>4. (\A i \in 1 .. n : longer[i] = JournalOps[i]) /\ longer[n + 1] = op
      BY <1>1
    <3>. QED BY <3>1, <3>3, <3>4
  <2>2. \A i \in 1 .. n : longer[i] = RecordOf(journal'[i]).op
    BY <1>2, <1>4, <2>1
  <2>3. \A i \in 1 .. n + 1 : i \in 1 .. n \/ i = n + 1
    BY <1>1
  <2>. HIDE DEF longer, n
  <2>4. \A i \in 1 .. n + 1 : longer[i] = RecordOf(journal'[i]).op
    BY <1>2, <2>1, <2>2, <2>3
  <2>. QED BY <1>3, <2>1, <2>4 DEF longer
<1>6. Len(JournalOps') = n + 1 /\ JournalOps'[Len(JournalOps')] = op
  BY <1>1, <1>5
<1>7. op \in Abstract!TrailOp
  BY DEF Abstract!TrailOp, Op
<1>8. Abstract!Admissible(op)
  BY AdmittedIsAdmissible
<1>. QED BY <1>1, <1>5, <1>6, <1>7, <1>8 DEF Abstract!Commit
\* A step that leaves the file alone stops the service, starts it or is not seen.
LEMMA FileKeptStutters ==
    ASSUME UNCHANGED file
    PROVE  [Abstract!TrailNext]_Abstract!trailVars
<1>1. JournalOps' = JournalOps
  BY DEF JournalOps, file
<1>2. (mode = "serving")' = (mode = "serving") \/ (mode = "serving")' = ~(mode = "serving")
  OBVIOUS
<1>. QED BY <1>1, <1>2 DEF Abstract!TrailNext, Abstract!StopOrStart, Abstract!trailVars

\* Every step of the store is a step of the trail.
LEMMA TrailStep ==
    ASSUME AtomicWrites, TypeOK, JournalInv, OrderInv, DocumentInv, [Next]_vars
    PROVE  [Abstract!TrailNext]_Abstract!trailVars
<1>1. CASE Mutation
  <2>1. PICK op \in Op : Record(op) /\ Admitted(op)
    BY <1>1, MutationAdmits
  <2>2. mode = "serving"
    BY <2>1 DEF Record
  <2>3. UNCHANGED file \/ Leaves(NextRecord(op), "complete")
    BY <2>1 DEF Record, RecordOk, RecordErr, RecordCrash, AtomicWrites, Leaves
  <2>. QED BY <2>1, <2>2, <2>3, FileKeptStutters, LineCommits DEF Abstract!TrailNext
<1>2. CASE Crash \/ Start \/ ReplayLine \/ Opened \/ UNCHANGED vars
  BY <1>2, FileKeptStutters DEF Crash, Start, ReplayLine, Opened, vars, file
<1>. QED BY <1>1, <1>2 DEF Next

\* The store, its file, its crashes and its replays implement the audit trail: what is
\* recorded stays recorded, and was admissible by the whole trail when it was made.
THEOREM StoreImplementsTrail ==
    ASSUME AtomicWrites
    PROVE  Spec => ImplementsTrail
<1>1. Init => Abstract!TrailInit
  BY DEF Init, Abstract!TrailInit, JournalOps
<1>2. TypeOK /\ JournalInv /\ OrderInv /\ DocumentInv /\ [Next]_vars
        => [Abstract!TrailNext]_Abstract!trailVars
  BY TrailStep
<1>. QED BY <1>1, <1>2, DocumentInvariantHolds, PTL
         DEF Spec, ImplementsTrail, Abstract!TrailSpec
================================================================================

------------------------------- MODULE ReadsProofs -------------------------------
(****************************************************************************)
(* Theorems about Reads, for any number of requests and windows and any     *)
(* interleaving of handlers, queries and time.                              *)
(****************************************************************************)
EXTENDS Reads, OrdinalsProofs, SequenceTheorems

--------------------------------------------------------------------------------
(* The inductive invariant.                                                 *)

\* The part of TypeOK that the bindings need.
BindingTypes ==
    /\ clock \in Instant
    /\ bindings \in Seq(BindingRecord)
    /\ pc \in [Request -> {"idle", "awaiting", "done"}]
    /\ binding \in [Request -> BindingRecord \cup {Unbuilt}]
    /\ DOMAIN answered = 0 .. clock - 1

\* A request under way has built its record, stamped with a time that has come; a
\* record that was made is the one its request built.
Stamped ==
    /\ \A r \in Request : pc[r] = "awaiting" =>
        /\ binding[r] \in BindingRecord
        /\ binding[r].req = r /\ binding[r].registered_at <= clock
    /\ \A b \in bindings_for : pc[b.req] = "done" /\ binding[b.req] = b

\* A request under way was so at each moment since its stamp: whoever asked then could
\* know that an answer was pending.
UnderwaySince ==
    \A r \in Request, t \in DOMAIN answered :
        pc[r] = "awaiting" /\ t >= binding[r].registered_at => r \in answered[t].underway

IInv == BindingTypes /\ Stamped /\ UnderwaySince /\ AnswersStand

\* An instant is a natural number.
LEMMA InstantIsNat == Instant \subseteq Nat
BY ReadsAssumption DEF ReadsAssumption, Instant

\* What is in the store after another binding.
LEMMA OneMore ==
    ASSUME bindings \in Seq(BindingRecord), NEW b \in BindingRecord,
           bindings' = Append(bindings, b)
    PROVE  bindings' \in Seq(BindingRecord) /\ bindings_for' = bindings_for \cup {b}
<1>1. /\ bindings' \in Seq(BindingRecord) /\ Len(bindings') = Len(bindings) + 1
      /\ \A i \in 1 .. Len(bindings) : bindings'[i] = bindings[i]
      /\ bindings'[Len(bindings) + 1] = b
  OBVIOUS
<1>2. bindings_for' \subseteq bindings_for \cup {b}
  BY <1>1 DEF bindings_for
<1>3. bindings_for \subseteq bindings_for'
  BY <1>1 DEF bindings_for
<1>4. b \in bindings_for'
  BY <1>1 DEF bindings_for
<1>. QED BY <1>1, <1>2, <1>3, <1>4

\* Only bindings that were recorded are in the store.
LEMMA RecordedTyped ==
    ASSUME bindings \in Seq(BindingRecord)
    PROVE  bindings_for \subseteq BindingRecord
BY DEF bindings_for

\* Nothing is answered and nothing under way.
LEMMA InitIInv == Init => IInv
<1>. SUFFICES ASSUME Init PROVE IInv
  OBVIOUS
<1>. USE DEF Init
<1>1. BindingTypes
  BY ReadsAssumption DEF BindingTypes, Instant, ReadsAssumption
<1>2. bindings_for = {} /\ DOMAIN answered = {}
  BY DEF bindings_for
<1>3. Stamped
  BY <1>2 DEF Stamped
<1>. QED BY <1>1, <1>2, <1>3 DEF IInv, UnderwaySince, AnswersStand

\* A new request is stamped now, later than every moment that was answered for.
LEMMA BindStep ==
    ASSUME IInv, NEW r \in Request, NEW w \in Window, Bind(r, w)
    PROVE  IInv'
<1>. USE DEF IInv, Bind, store
<1>. DEFINE built == binding'[r]
<1>1. built \in BindingRecord /\ built.req = r /\ built.registered_at = clock
  <2>1. w \in Windows /\ clock \in Instant
    BY ReadsAssumption DEF ReadsAssumption, BindingTypes
  <2>2. w.from \in SUBSET Instant /\ w.until \in SUBSET Instant /\ w.retroactive \in BOOLEAN
    BY <2>1 DEF Windows
  <2>3. (IF w.from = {} THEN clock ELSE CHOOSE t \in w.from : TRUE) \in Instant
    BY <2>1, <2>2
  <2>4. built = [req |-> r,
                 effective_from |-> IF w.from = {} THEN clock
                                    ELSE CHOOSE t \in w.from : TRUE,
                 effective_until |-> w.until, retroactive |-> w.retroactive,
                 registered_at |-> clock]
    BY DEF BindingTypes
  <2>. HIDE DEF built
  <2>. QED BY <2>1, <2>2, <2>3, <2>4 DEF BindingRecord
<1>2. /\ pc'[r] = "awaiting"
      /\ \A q \in Request \ {r} : pc'[q] = pc[q] /\ binding'[q] = binding[q]
  BY DEF BindingTypes
<1>3. BindingTypes'
  <2>1. pc' \in [Request -> {"idle", "awaiting", "done"}]
    BY DEF BindingTypes
  <2>2. binding' \in [Request -> BindingRecord \cup {Unbuilt}]
    BY <1>1, <1>2 DEF BindingTypes
  <2>. QED BY <2>1, <2>2 DEF BindingTypes
<1>4. bindings_for' = bindings_for /\ bindings_for \subseteq BindingRecord
  BY RecordedTyped DEF bindings_for, BindingTypes
<1>5. Stamped'
  <2>1. \A q \in Request : pc'[q] = "awaiting" =>
            /\ binding'[q] \in BindingRecord
            /\ binding'[q].req = q /\ binding'[q].registered_at <= clock'
    <3>. SUFFICES ASSUME NEW q \in Request, pc'[q] = "awaiting"
                  PROVE  /\ binding'[q] \in BindingRecord
                         /\ binding'[q].req = q /\ binding'[q].registered_at <= clock'
      OBVIOUS
    <3>1. CASE q = r
      BY <3>1, <1>1, InstantIsNat DEF BindingTypes
    <3>2. CASE q # r
      BY <3>2, <1>2 DEF Stamped
    <3>. QED BY <3>1, <3>2
  <2>2. ASSUME NEW b \in bindings_for PROVE pc'[b.req] = "done" /\ binding'[b.req] = b
    <3>1. b.req \in Request /\ pc[b.req] = "done" /\ binding[b.req] = b
      BY <1>4 DEF Stamped, BindingRecord
    <3>. QED BY <3>1, <1>2
  <2>. QED BY <2>1, <2>2, <1>4 DEF Stamped
<1>6. UnderwaySince'
  <2>. SUFFICES ASSUME NEW q \in Request, NEW t \in DOMAIN answered,
                       pc'[q] = "awaiting", t >= binding'[q].registered_at
                PROVE  q \in answered[t].underway
    BY DEF UnderwaySince
  <2>1. CASE q = r
    BY <2>1, <1>1, InstantIsNat DEF BindingTypes
  <2>2. CASE q # r
    BY <2>2, <1>2 DEF UnderwaySince
  <2>. QED BY <2>1, <2>2
<1>7. AnswersStand'
  BY <1>4 DEF AnswersStand, applicability_query, applies_at
<1>. QED BY <1>3, <1>5, <1>6, <1>7

\* A record is made: it reaches back to moments at which its request was under way.
LEMMA RecordStep ==
    ASSUME IInv, NEW r \in Request, RecordBinding(r)
    PROVE  IInv'
<1>. USE DEF IInv, RecordBinding
<1>1. /\ binding[r] \in BindingRecord
      /\ binding[r].req = r /\ binding[r].registered_at <= clock
  BY DEF Stamped
<1>2. bindings' \in Seq(BindingRecord) /\ bindings_for' = bindings_for \cup {binding[r]}
  BY <1>1, OneMore DEF BindingTypes
<1>3. /\ pc'[r] = "done"
      /\ \A q \in Request \ {r} : pc'[q] = pc[q]
      /\ pc' \in [Request -> {"idle", "awaiting", "done"}]
  BY DEF BindingTypes
<1>4. BindingTypes'
  BY <1>2, <1>3 DEF BindingTypes
<1>5. bindings_for \subseteq BindingRecord
  BY RecordedTyped DEF BindingTypes
<1>6. Stamped'
  <2>1. ASSUME NEW b \in bindings_for' PROVE pc'[b.req] = "done" /\ binding'[b.req] = b
    <3>1. CASE b = binding[r]
      BY <3>1, <1>1, <1>3
    <3>2. CASE b \in bindings_for
      BY <3>2, <1>3, <1>5 DEF Stamped, BindingRecord
    <3>. QED BY <3>1, <3>2, <1>2
  <2>. QED BY <2>1, <1>3 DEF Stamped
<1>7. UnderwaySince'
  BY <1>3 DEF UnderwaySince
<1>8. AnswersStand'
  <2>. SUFFICES ASSUME NEW t \in DOMAIN answered
                PROVE  /\ answered[t].bindings \subseteq applicability_query(t)'
                       /\ \A b \in applicability_query(t)' \ answered[t].bindings :
                            b.retroactive \/ b.req \in answered[t].underway
    BY DEF AnswersStand
  <2>1. applicability_query(t)' = applicability_query(t)
                \cup {b \in {binding[r]} : applies_at(b, t)}
    BY <1>2 DEF applicability_query, applies_at
  <2>2. ASSUME applies_at(binding[r], t), ~binding[r].retroactive
        PROVE  r \in answered[t].underway
    BY <2>2 DEF applies_at, UnderwaySince
  <2>. QED BY <2>1, <2>2, <1>1 DEF AnswersStand
<1>. QED BY <1>4, <1>6, <1>7, <1>8

\* A request that leaves no record changes no answer.
LEMMA UnboundStep ==
    ASSUME IInv, NEW r \in Request, Unbound(r)
    PROVE  IInv'
<1>. USE DEF IInv, Unbound, store
<1>1. /\ pc'[r] = "done"
      /\ \A q \in Request \ {r} : pc'[q] = pc[q]
      /\ pc' \in [Request -> {"idle", "awaiting", "done"}]
  BY DEF BindingTypes
<1>2. bindings_for' = bindings_for /\ bindings_for \subseteq BindingRecord
  BY RecordedTyped DEF bindings_for, BindingTypes
<1>3. BindingTypes'
  BY <1>1 DEF BindingTypes
<1>4. Stamped'
  BY <1>1, <1>2 DEF Stamped, BindingRecord
<1>5. UnderwaySince'
  BY <1>1 DEF UnderwaySince
<1>6. AnswersStand'
  BY <1>2 DEF AnswersStand, applicability_query, applies_at
<1>. QED BY <1>3, <1>4, <1>5, <1>6

\* Time passes: the moment that ends keeps its answer and those under way.
LEMMA TickStep ==
    ASSUME IInv, Tick
    PROVE  IInv'
<1>. USE DEF IInv, Tick, store, binder
<1>1. clock \in Nat /\ clock' = clock + 1 /\ clock' \in Instant /\ MaxTime \in Nat
  BY ReadsAssumption, InstantIsNat DEF BindingTypes, Instant, ReadsAssumption
<1>2. DOMAIN answered = 0 .. clock - 1 /\ DOMAIN answered' = 0 .. clock' - 1
  <2>1. DOMAIN answered' = DOMAIN answered \cup {clock}
    OBVIOUS
  <2>. QED BY <2>1, <1>1 DEF BindingTypes
<1>3. /\ \A t \in DOMAIN answered : t # clock /\ answered'[t] = answered[t]
      /\ answered'[clock] = [bindings |-> applicability_query(clock),
                             underway |-> {r \in Request : pc[r] = "awaiting"}]
      /\ DOMAIN answered' = DOMAIN answered \cup {clock}
  BY <1>1, <1>2
<1>4. BindingTypes'
  BY <1>1, <1>2 DEF BindingTypes
<1>5. bindings_for' = bindings_for /\ bindings_for \subseteq BindingRecord
  BY RecordedTyped DEF bindings_for, BindingTypes
<1>6. Stamped'
  <2>1. ASSUME NEW r \in Request, pc[r] = "awaiting"
        PROVE  /\ binding[r] \in BindingRecord
               /\ binding[r].req = r /\ binding[r].registered_at <= clock'
    <3>1. binding[r].registered_at \in Nat
      BY <2>1, InstantIsNat DEF Stamped, BindingRecord
    <3>. QED BY <2>1, <3>1, <1>1 DEF Stamped
  <2>. QED BY <2>1, <1>5 DEF Stamped
<1>7. UnderwaySince'
  <2>. SUFFICES ASSUME NEW r \in Request, NEW t \in DOMAIN answered',
                       pc[r] = "awaiting", t >= binding[r].registered_at
                PROVE  r \in answered'[t].underway
    BY DEF UnderwaySince
  <2>1. CASE t = clock
    BY <2>1, <1>3
  <2>2. CASE t \in DOMAIN answered
    BY <2>2, <1>3 DEF UnderwaySince
  <2>. QED BY <2>1, <2>2, <1>3
<1>8. AnswersStand'
  <2>. SUFFICES ASSUME NEW t \in DOMAIN answered'
                PROVE  /\ answered'[t].bindings \subseteq applicability_query(t)
                       /\ \A b \in applicability_query(t) \ answered'[t].bindings :
                            b.retroactive \/ b.req \in answered'[t].underway
    BY <1>5 DEF AnswersStand, applicability_query, applies_at
  <2>1. CASE t = clock
    BY <2>1, <1>3
  <2>2. CASE t \in DOMAIN answered
    BY <2>2, <1>3 DEF AnswersStand
  <2>. QED BY <2>1, <2>2, <1>3
<1>. QED BY <1>4, <1>6, <1>7, <1>8

\* Creations and pages leave the bindings, and what was said of them, alone.
LEMMA ElsewhereStep ==
    ASSUME IInv, UNCHANGED <<clock, bindings, pc, binding, answered>>
    PROVE  IInv'
<1>. USE DEF IInv
<1>1. bindings_for' = bindings_for
  BY DEF bindings_for
<1>. QED BY <1>1 DEF BindingTypes, Stamped, UnderwaySince, AnswersStand,
                     applicability_query, applies_at

\* Every step keeps the invariant.
LEMMA StepIInv == IInv /\ [Next]_vars => IInv'
<1>. SUFFICES ASSUME IInv, [Next]_vars PROVE IInv'
  OBVIOUS
<1>1. CASE Tick
  BY <1>1, TickStep
<1>2. ASSUME NEW r \in Request, NEW w \in Window, Bind(r, w) PROVE IInv'
  BY <1>2, BindStep
<1>3. ASSUME NEW r \in Request, RecordBinding(r) PROVE IInv'
  BY <1>3, RecordStep
<1>4. ASSUME NEW r \in Request, Unbound(r) PROVE IInv'
  BY <1>4, UnboundStep
<1>5. ASSUME NEW id \in PassportId, CreatePassport(id) PROVE IInv'
  BY <1>5, ElsewhereStep DEF CreatePassport, binder
<1>6. ASSUME NEW list \in {"passports", "log"}, NEW limit \in Limit, Start(list, limit)
      PROVE  IInv'
  BY <1>6, ElsewhereStep DEF Start, store, binder
<1>7. CASE NextPassports
  BY <1>7, ElsewhereStep DEF NextPassports, store, binder
<1>8. CASE NextRecords
  BY <1>8, ElsewhereStep DEF NextRecords, store, binder
<1>9. CASE UNCHANGED vars
  BY <1>9, ElsewhereStep DEF vars, store, binder
<1>. QED BY <1>1, <1>2, <1>3, <1>4, <1>5, <1>6, <1>7, <1>8, <1>9 DEF Next

--------------------------------------------------------------------------------
(* The walk through the audit log.                                          *)

\* What a client that reads the log keeps track of, and the log itself.
LogWalkTypes ==
    /\ log \in Seq(AuditRecord)
    /\ DOMAIN walk = {"list", "open", "limit", "offset", "seen", "pages", "began"}
    /\ walk.list = "log" => walk.limit \in Nat /\ walk.offset \in Nat

LogInv == LogWalkTypes /\ LogPagesExact

\* The smaller of two naturals is what Min says.
LEMMA MinOfTwo ==
    ASSUME NEW a \in Nat, NEW b \in Nat
    PROVE  Min({a, b}) \in {a, b} /\ Min({a, b}) <= a /\ Min({a, b}) <= b
<1>1. \E x \in {a, b} : \A y \in {a, b} : x <= y
  OBVIOUS
<1>. QED BY <1>1 DEF Min

\* A page after what has been read of a sequence reads on where that ended.
LEMMA PagesJoin ==
    ASSUME NEW S, NEW s \in Seq(S), NEW o \in 0 .. Len(s), NEW m \in o .. Len(s)
    PROVE  /\ SubSeq(s, 1, o) \o SubSeq(s, o + 1, m) = SubSeq(s, 1, m)
           /\ Len(SubSeq(s, o + 1, m)) = m - o
<1>. DEFINE read == SubSeq(s, 1, o)
            page == SubSeq(s, o + 1, m)
            both == SubSeq(s, 1, m)
<1>0. /\ o \in Int /\ m \in Int /\ o + 1 \in Int /\ Len(s) \in Nat
      /\ \A i \in 1 .. Len(s) : s[i] \in S
  OBVIOUS
<1>1. read \in Seq(S) /\ Len(read) = o /\ \A i \in 1 .. o : read[i] = s[i]
  BY <1>0, SubSeqProperties, \A i \in 1 .. o : s[i] \in S
<1>2. page \in Seq(S) /\ Len(page) = m - o /\ \A i \in 1 .. m - o : page[i] = s[o + i]
  BY <1>0, SubSeqProperties, \A i \in o + 1 .. m : s[i] \in S
<1>3. both \in Seq(S) /\ Len(both) = m /\ \A i \in 1 .. m : both[i] = s[i]
  BY <1>0, SubSeqProperties, \A i \in 1 .. m : s[i] \in S
<1>. HIDE DEF read, page, both
<1>4. /\ read \o page \in Seq(S) /\ Len(read \o page) = m
      /\ \A i \in 1 .. m : (read \o page)[i] = IF i <= o THEN read[i] ELSE page[i - o]
  <2>1. Len(read) + Len(page) = m
    BY <1>0, <1>1, <1>2
  <2>2. /\ read \o page \in Seq(S) /\ Len(read \o page) = Len(read) + Len(page)
        /\ \A i \in 1 .. Len(read) + Len(page) :
            (read \o page)[i] = IF i <= Len(read) THEN read[i] ELSE page[i - Len(read)]
    BY <1>1, <1>2, ConcatProperties
  <2>. QED BY <1>1, <2>1, <2>2
<1>5. ASSUME NEW i \in 1 .. m PROVE (read \o page)[i] = both[i]
  <2>1. CASE i <= o
    BY <2>1, <1>0, <1>1, <1>3, <1>4
  <2>2. CASE i > o
    <3>1. i - o \in 1 .. m - o /\ o + (i - o) = i
      BY <2>2, <1>0
    <3>2. (read \o page)[i] = page[i - o]
      BY <2>2, <1>0, <1>4
    <3>3. page[i - o] = s[o + (i - o)]
      BY <3>1, <1>2
    <3>. QED BY <3>1, <3>2, <3>3, <1>3
  <2>3. i <= o \/ i > o
    BY <1>0
  <2>. QED BY <2>1, <2>2, <2>3
<1>6. read \o page = both
  BY <1>3, <1>4, <1>5, SeqEqual
<1>. QED BY <1>2, <1>6 DEF read, page, both

\* What has been read of a log stays what it was when the log grows.
LEMMA ReadStands ==
    ASSUME NEW S, NEW s \in Seq(S), NEW e \in S, NEW o \in 0 .. Len(s)
    PROVE  /\ Append(s, e) \in Seq(S) /\ o <= Len(Append(s, e))
           /\ SubSeq(Append(s, e), 1, o) = SubSeq(s, 1, o)
<1>1. /\ Append(s, e) \in Seq(S) /\ Len(Append(s, e)) = Len(s) + 1
      /\ \A i \in 1 .. Len(s) : Append(s, e)[i] = s[i] /\ s[i] \in S
  OBVIOUS
<1>2. /\ SubSeq(s, 1, o) \in Seq(S) /\ Len(SubSeq(s, 1, o)) = o
      /\ \A i \in 1 .. o : SubSeq(s, 1, o)[i] = s[i]
  BY <1>1, SubSeqProperties, \A i \in 1 .. o : s[i] \in S
<1>3. /\ SubSeq(Append(s, e), 1, o) \in Seq(S) /\ Len(SubSeq(Append(s, e), 1, o)) = o
      /\ \A i \in 1 .. o : SubSeq(Append(s, e), 1, o)[i] = Append(s, e)[i]
  BY <1>1, SubSeqProperties, \A i \in 1 .. o : Append(s, e)[i] \in S
<1>4. SubSeq(Append(s, e), 1, o) = SubSeq(s, 1, o)
  BY <1>1, <1>2, <1>3, SeqEqual
<1>. QED BY <1>1, <1>4

\* Nobody reads at first.
LEMMA InitLogInv == Init => LogInv
BY DEF Init, NoWalk, LogInv, LogWalkTypes, LogPagesExact

\* A record that is added leaves the client where it is.
LEMMA LogGrows ==
    ASSUME LogInv, NEW record \in AuditRecord, log' = Append(log, record), walk' = walk
    PROVE  LogInv'
<1>. USE DEF LogInv, LogWalkTypes
<1>1. log' \in Seq(AuditRecord)
  BY ReadStands
<1>2. ASSUME walk.list = "log"
      PROVE  walk.offset <= Len(log') /\ SubSeq(log', 1, walk.offset) = SubSeq(log, 1, walk.offset)
  <2>1. walk.offset \in 0 .. Len(log)
    BY <1>2 DEF LogPagesExact
  <2>. QED BY <2>1, ReadStands
<1>. QED BY <1>1, <1>2 DEF LogPagesExact

\* A client begins: it has read nothing of the listing.
LEMMA StartLog ==
    ASSUME LogInv, NEW list \in {"passports", "log"}, NEW limit \in Limit,
           Start(list, limit)
    PROVE  LogInv'
<1>. USE DEF LogInv, LogWalkTypes, Start, store
<1>1. LogWalkTypes'
  BY ReadsAssumption DEF ReadsAssumption
<1>2. walk'.offset = 0 /\ walk'.seen = <<>> /\ log' = log
  OBVIOUS
<1>3. SubSeq(log, 1, 0) = <<>>
  BY SubSeqEmpty
<1>. QED BY <1>1, <1>2, <1>3 DEF LogPagesExact

\* The next page of the log.
LEMMA NextRecordsLog ==
    ASSUME LogInv, NextRecords
    PROVE  LogInv'
<1>. USE DEF LogInv, LogWalkTypes
<1>. DEFINE reply == admin_log(walk.limit, walk.offset)
            o == walk.offset
            m == Min({o + Min({walk.limit, LogCap}), Len(log)})
<1>1. /\ walk.list = "log" /\ log' = log
      /\ walk' = [walk EXCEPT !.seen = @ \o reply.page, !.offset = o + Len(reply.page),
                              !.pages = @ + 1, !.open = o + Len(reply.page) < reply.count]
  BY DEF NextRecords, Received, store
<1>2. reply.page = SubSeq(log, o + 1, m)
  BY DEF admin_log, Page
<1>3. o \in 0 .. Len(log) /\ walk.limit \in Nat /\ LogCap \in Nat
  BY <1>1, ReadsAssumption DEF ReadsAssumption, LogPagesExact
<1>4. m \in o .. Len(log)
  <2>. DEFINE l == Min({walk.limit, LogCap})
  <2>1. l \in Nat
    BY <1>3, MinOfTwo
  <2>. HIDE DEF l
  <2>2. o + l \in Nat /\ Len(log) \in Nat
    BY <1>3, <2>1
  <2>3. /\ Min({o + l, Len(log)}) \in {o + l, Len(log)}
        /\ Min({o + l, Len(log)}) <= Len(log)
    BY <2>2, MinOfTwo
  <2>. QED BY <1>3, <2>1, <2>3 DEF l
<1>. HIDE DEF m
<1>5. /\ SubSeq(log, 1, o) \o reply.page = SubSeq(log, 1, m)
      /\ Len(reply.page) = m - o
  BY <1>2, <1>3, <1>4, PagesJoin
<1>. HIDE DEF reply
<1>6. walk'.offset = m /\ walk'.seen = SubSeq(log, 1, m) /\ m <= Len(log) /\ m \in Nat
  <2>1. walk.seen = SubSeq(log, 1, o)
    BY <1>1 DEF LogPagesExact
  <2>2. walk'.offset = o + Len(reply.page) /\ walk'.seen = walk.seen \o reply.page
    BY <1>1
  <2>3. o \in Nat /\ m \in Nat /\ m <= Len(log) /\ o + (m - o) = m
    BY <1>3, <1>4
  <2>. QED BY <2>1, <2>2, <2>3, <1>5
<1>7. LogWalkTypes'
  BY <1>1, <1>6
<1>. QED BY <1>1, <1>6, <1>7 DEF LogPagesExact

\* Whoever reads the passports does not read the log.
LEMMA NextPassportsLog ==
    ASSUME LogInv, NextPassports
    PROVE  LogInv'
<1>1. /\ DOMAIN walk' = DOMAIN walk /\ walk'.list = "passports" /\ log' = log
  BY DEF NextPassports, Received, store, LogInv, LogWalkTypes
<1>. QED BY <1>1 DEF LogInv, LogWalkTypes, LogPagesExact

\* Every step keeps the client's pages a prefix of the log.
LEMMA StepLogInv == LogInv /\ [Next]_vars => LogInv'
<1>. SUFFICES ASSUME LogInv, [Next]_vars PROVE LogInv'
  OBVIOUS
<1>1. ASSUME UNCHANGED <<log, walk>> PROVE LogInv'
  BY <1>1 DEF LogInv, LogWalkTypes, LogPagesExact
<1>2. CASE Tick \/ UNCHANGED vars
  BY <1>1, <1>2 DEF Tick, vars, store
<1>3. ASSUME NEW r \in Request, (\E w \in Window : Bind(r, w)) \/ Unbound(r)
      PROVE  LogInv'
  BY <1>1, <1>3 DEF Bind, Unbound, store
<1>4. ASSUME NEW r \in Request, RecordBinding(r) PROVE LogInv'
  <2>1. [type |-> "BindApplicability", req |-> r] \in AuditRecord
    BY DEF AuditRecord
  <2>. QED BY <1>4, <2>1, LogGrows DEF RecordBinding
<1>5. ASSUME NEW id \in PassportId, CreatePassport(id) PROVE LogInv'
  <2>1. [type |-> "CreatePassport", passport_id |-> id] \in AuditRecord
    BY DEF AuditRecord
  <2>. QED BY <1>5, <2>1, LogGrows DEF CreatePassport
<1>6. ASSUME NEW list \in {"passports", "log"}, NEW limit \in Limit, Start(list, limit)
      PROVE  LogInv'
  BY <1>6, StartLog
<1>. QED BY <1>2, <1>3, <1>4, <1>5, <1>6, NextPassportsLog, NextRecordsLog DEF Next

--------------------------------------------------------------------------------
(* The walk through the passports.                                          *)

\* Where a passport stands in the listing.
Place(id) == Cardinality(UpTo(passports, id))

\* What the client has seen and passed: creations may push what it has seen ahead of it
\* again.
Passed == {id \in Range(walk.seen) : Place(id) <= walk.offset}

\* The part of TypeOK that the walks need.
ReaderTypes ==
    /\ passports \subseteq PassportId
    /\ walk.list \in {"none", "passports", "log"} /\ walk.open \in BOOLEAN
    /\ walk.limit \in Nat /\ walk.offset \in Nat /\ walk.pages \in Nat
    /\ walk.seen \in IF walk.list = "log" THEN Seq(AuditRecord) ELSE Seq(PassportId)
    /\ walk.began \subseteq passports

\* The client has seen whatever was there from the beginning and is behind it, and every
\* entry but as many as were created meanwhile brought it past one more passport.
OnTheWay ==
    /\ walk.offset <= Cardinality(passports)
    /\ \A id \in walk.began : Place(id) <= walk.offset => id \in Range(walk.seen)
    /\ Len(walk.seen) <= Cardinality(Passed) + Cardinality(passports) - Cardinality(walk.began)

WalkInv ==
    /\ ReaderTypes
    /\ walk.list = "passports" => /\ Range(walk.seen) \subseteq passports
                                  /\ walk.open => OnTheWay
    /\ WalkMissesNothing
    /\ EveryPageBringsSomething

\* A set of passports is as finite as that of their ids.
LEMMA PassportsFinite ==
    ASSUME NEW S \in SUBSET PassportId
    PROVE  /\ IsFiniteSet(S) /\ Cardinality(S) \in Nat
           /\ \E n \in Nat : S \in SUBSET (1 .. n)
<1>1. PassportId \in SUBSET (Nat \ {0}) /\ IsFiniteSet(PassportId)
  BY ReadsAssumption DEF ReadsAssumption
<1>2. \E n \in Nat : PassportId \subseteq 1 .. n
  BY <1>1, FiniteBounded
<1>. QED BY <1>1, <1>2, FS_Subset, FS_CardinalityType

\* Each passport has a place in the listing, and each place holds the passport that
\* stands there.
LEMMA Places ==
    ASSUME NEW S \in SUBSET PassportId
    PROVE  /\ \A k \in 1 .. Cardinality(S) :
                Nth(S, k) \in S /\ Cardinality(UpTo(S, Nth(S, k))) = k
           /\ \A id \in S : /\ Cardinality(UpTo(S, id)) \in 1 .. Cardinality(S)
                             /\ Nth(S, Cardinality(UpTo(S, id))) = id
<1>1. PICK n \in Nat : S \in SUBSET (1 .. n)
  BY PassportsFinite
<1>. QED BY <1>1, NthExists, NthCovers

\* Whatever order the map yields, the listing is the passports by their places.
LEMMA ListingSorted ==
    ASSUME passports \subseteq PassportId, NEW order \in values
    PROVE  /\ Len(order) = Cardinality(passports)
           /\ sorted(order) = [k \in 1 .. Cardinality(passports) |-> Nth(passports, k)]
<1>. DEFINE n == Cardinality(passports)
<1>1. IsFiniteSet(passports) /\ n \in Nat
  BY PassportsFinite
<1>2. order \in [1 .. n -> passports] /\ \A i, j \in 1 .. n : i # j => order[i] # order[j]
  BY DEF values, SetToSeqs
<1>3. order \in Injection(1 .. n, passports)
  BY <1>2 DEF Injection, IsInjective
<1>4. Cardinality(1 .. n) = n
  BY <1>1, FS_Interval
<1>5. order \in Surjection(1 .. n, passports)
  BY <1>1, <1>3, <1>4, FS_Injection
<1>6. Range(order) = passports
  BY <1>2, <1>5 DEF Surjection, Range
<1>7. DOMAIN order = 1 .. n /\ Len(order) = n
  BY <1>1, <1>2
<1>. QED BY <1>6, <1>7 DEF sorted

\* A page of the listing holds the passports at its places, each once.
LEMMA PageOfPlaces ==
    ASSUME passports \subseteq PassportId, NEW o \in 0 .. Cardinality(passports), NEW w \in Nat,
           NEW order \in values
    PROVE  LET n == Cardinality(passports)
               page == Page(sorted(order), o, w)
           IN  /\ page \in Seq(PassportId)
               /\ Len(page) = IF o + w <= n THEN w ELSE n - o
               /\ Range(page) = {id \in passports : o < Place(id) /\ Place(id) <= o + w}
               /\ IsFiniteSet(Range(page)) /\ Cardinality(Range(page)) = Len(page)
<1>. DEFINE n == Cardinality(passports)
            all == [k \in 1 .. n |-> Nth(passports, k)]
            m == Min({o + w, n})
            page == SubSeq(all, o + 1, m)
<1>1. n \in Nat /\ IsFiniteSet(passports)
  BY PassportsFinite
<1>2. /\ \A k \in 1 .. n : Nth(passports, k) \in passports /\ Place(Nth(passports, k)) = k
      /\ \A id \in passports : Place(id) \in 1 .. n /\ Nth(passports, Place(id)) = id
  BY Places DEF Place
<1>3. all \in Seq(PassportId) /\ Len(all) = n /\ \A k \in 1 .. n : all[k] = Nth(passports, k)
  <2>1. all \in [1 .. n -> PassportId]
    BY <1>2
  <2>. HIDE DEF n
  <2>. QED BY <1>1, <2>1
<1>. HIDE DEF all
<1>4. m = (IF o + w <= n THEN o + w ELSE n) /\ m \in o .. n
  <2>0. o \in 0 .. n
    OBVIOUS
  <2>. HIDE DEF n
  <2>1. o \in Nat /\ o <= n /\ o + w \in Nat
    BY <1>1, <2>0
  <2>2. Min({o + w, n}) \in {o + w, n} /\ Min({o + w, n}) <= o + w /\ Min({o + w, n}) <= n
    BY <1>1, <2>1, MinOfTwo
  <2>. QED BY <1>1, <2>1, <2>2
<1>5. Page(sorted(order), o, w) = page
  <2>1. sorted(order) = all /\ Len(sorted(order)) = n
    BY <1>3, ListingSorted DEF all
  <2>. QED BY <2>1 DEF Page
<1>. HIDE DEF m
<1>6. /\ page \in Seq(PassportId) /\ Len(page) = m - o
      /\ \A i \in 1 .. m - o : page[i] = all[o + i]
  <2>. HIDE DEF n
  <2>1. /\ o + 1 \in Int /\ m \in Int /\ o \in Nat /\ m - o \in Nat
        /\ m - (o + 1) + 1 = m - o
    BY <1>1, <1>4
  <2>2. \A i \in 1 .. n : all[i] \in PassportId
    BY <1>3
  <2>3. \A i \in o + 1 .. m : all[i] \in PassportId
    BY <1>1, <1>4, <2>1, <2>2
  <2>. QED BY <1>1, <1>3, <1>4, <2>1, <2>3, SubSeqProperties
<1>. HIDE DEF page, n
<1>7. \A i \in 1 .. m - o : /\ o + i \in 1 .. n /\ page[i] = Nth(passports, o + i)
                            /\ page[i] \in passports /\ Place(page[i]) = o + i
  BY <1>1, <1>2, <1>3, <1>4, <1>6
<1>8. Range(page) = {id \in passports : o < Place(id) /\ Place(id) <= o + w}
  <2>1. ASSUME NEW id \in Range(page)
        PROVE  id \in passports /\ o < Place(id) /\ Place(id) <= o + w
    <3>1. PICK i \in 1 .. m - o : id = page[i]
      BY <1>6, <2>1 DEF Range
    <3>. QED BY <1>1, <1>4, <1>7, <3>1
  <2>2. ASSUME NEW id \in passports, o < Place(id), Place(id) <= o + w
        PROVE  id \in Range(page)
    <3>1. Place(id) \in 1 .. n /\ Nth(passports, Place(id)) = id
      BY <1>2
    <3>2. Place(id) - o \in 1 .. m - o /\ o + (Place(id) - o) = Place(id)
      BY <1>1, <1>4, <2>2, <3>1
    <3>3. page[Place(id) - o] = id
      BY <1>7, <3>1, <3>2
    <3>. QED BY <1>6, <3>2, <3>3 DEF Range
  <2>. QED BY <2>1, <2>2
<1>9. IsFiniteSet(Range(page)) /\ Cardinality(Range(page)) = m - o
  <2>1. m - o \in Nat /\ DOMAIN page = 1 .. m - o
    BY <1>1, <1>4, <1>6
  <2>2. \A i, j \in 1 .. m - o : page[i] = page[j] => i = j
    BY <1>1, <1>4, <1>7
  <2>3. page \in [1 .. m - o -> Range(page)]
    BY <1>6, <2>1 DEF Range
  <2>4. page \in Bijection(1 .. m - o, Range(page))
    BY <2>1, <2>2, <2>3 DEF Bijection, Injection, Surjection, IsInjective, Range
  <2>5. ExistsBijection(1 .. m - o, Range(page))
    BY <2>4 DEF ExistsBijection
  <2>6. IsFiniteSet(1 .. m - o)
    BY <2>1, FS_Interval
  <2>. QED BY <2>1, <2>5, <2>6, FS_CountingElements, FS_Bijection
<1>10. Len(page) = IF o + w <= n THEN w ELSE n - o
  BY <1>1, <1>4, <1>6
<1>. QED BY <1>5, <1>6, <1>8, <1>9, <1>10 DEF n

\* The page size that is used is a number and at least 1.
LEMMA WindowPositive ==
    ASSUME NEW limit \in Nat
    PROVE  window(limit) \in Nat \ {0}
<1>. DEFINE l == Min({limit, PageCap})
<1>1. l \in Nat
  BY MinOfTwo, ReadsAssumption DEF ReadsAssumption
<1>. HIDE DEF l
<1>2. \E x \in {1, l} : \A y \in {1, l} : x >= y
  BY <1>1
<1>3. Max({1, l}) \in {1, l} /\ Max({1, l}) >= 1
  BY <1>2 DEF Max
<1>. QED BY <1>1, <1>3 DEF window, l

\* Two parts of what a client has seen are counted apart.
LEMMA CountedApart ==
    ASSUME NEW A, NEW B, IsFiniteSet(A), IsFiniteSet(B), A \cap B = {}
    PROVE  Cardinality(A \cup B) = Cardinality(A) + Cardinality(B)
<1>1. Cardinality(A \cup B) = Cardinality(A) + Cardinality(B) - Cardinality(A \cap B)
  BY FS_Union
<1>2. Cardinality(A \cap B) = 0
  BY EmptyCounted
<1>3. Cardinality(A) \in Nat /\ Cardinality(B) \in Nat
  BY FS_CardinalityType
<1>. QED BY <1>1, <1>2, <1>3

\* What a sequence holds together with what follows it.
LEMMA RangeOfBoth ==
    ASSUME NEW S, NEW a \in Seq(S), NEW b \in Seq(S)
    PROVE  Range(a \o b) = Range(a) \cup Range(b)
<1>1. Len(a) \in Nat /\ Len(b) \in Nat /\ DOMAIN a = 1 .. Len(a) /\ DOMAIN b = 1 .. Len(b)
  OBVIOUS
<1>2. /\ DOMAIN (a \o b) = 1 .. Len(a) + Len(b)
      /\ \A i \in 1 .. Len(a) + Len(b) :
            (a \o b)[i] = IF i <= Len(a) THEN a[i] ELSE b[i - Len(a)]
  BY ConcatProperties
<1>3. ASSUME NEW x \in Range(a \o b) PROVE x \in Range(a) \cup Range(b)
  <2>1. PICK i \in 1 .. Len(a) + Len(b) : x = (a \o b)[i]
    BY <1>2, <1>3 DEF Range
  <2>2. i \in 1 .. Len(a) \/ (i > Len(a) /\ i - Len(a) \in 1 .. Len(b))
    BY <1>1
  <2>. QED BY <1>1, <1>2, <2>1, <2>2 DEF Range
<1>4. ASSUME NEW x \in Range(a) PROVE x \in Range(a \o b)
  <2>1. PICK i \in 1 .. Len(a) : x = a[i]
    BY <1>1, <1>4 DEF Range
  <2>2. i \in 1 .. Len(a) + Len(b) /\ i <= Len(a)
    BY <1>1
  <2>. QED BY <1>2, <2>1, <2>2 DEF Range
<1>5. ASSUME NEW x \in Range(b) PROVE x \in Range(a \o b)
  <2>1. PICK i \in 1 .. Len(b) : x = b[i]
    BY <1>1, <1>5 DEF Range
  <2>2. Len(a) + i \in 1 .. Len(a) + Len(b) /\ ~(Len(a) + i <= Len(a))
        /\ (Len(a) + i) - Len(a) = i
    BY <1>1
  <2>. QED BY <1>2, <2>1, <2>2 DEF Range
<1>. QED BY <1>3, <1>4, <1>5

\* What was seen is a finite number of passports, counted at most once each.
LEMMA SeenFinite ==
    ASSUME WalkInv, walk.list = "passports"
    PROVE  /\ Range(walk.seen) \in SUBSET PassportId /\ IsFiniteSet(Range(walk.seen))
           /\ IsFiniteSet(Passed) /\ Cardinality(Passed) \in Nat
           /\ Cardinality(Passed) <= Cardinality(Range(walk.seen))
           /\ Cardinality(Range(walk.seen)) \in Nat /\ Len(walk.seen) \in Nat
           /\ Cardinality(walk.began) <= Cardinality(passports)
           /\ Cardinality(walk.began) \in Nat /\ Cardinality(passports) \in Nat
<1>1. /\ Range(walk.seen) \in SUBSET PassportId /\ Len(walk.seen) \in Nat
      /\ walk.began \in SUBSET passports /\ passports \in SUBSET PassportId
  BY DEF WalkInv, ReaderTypes
<1>2. Passed \in SUBSET Range(walk.seen)
  BY DEF Passed
<1>3. /\ IsFiniteSet(Range(walk.seen)) /\ IsFiniteSet(passports)
      /\ Cardinality(Range(walk.seen)) \in Nat /\ Cardinality(passports) \in Nat
  BY <1>1, PassportsFinite
<1>. QED BY <1>1, <1>2, <1>3, FS_Subset, FS_CardinalityType

\* Nobody has begun.
LEMMA InitWalk == Init => WalkInv
<1>. SUFFICES ASSUME Init PROVE WalkInv
  OBVIOUS
<1>1. ReaderTypes
  <2>1. <<>> \in Seq(PassportId)
    OBVIOUS
  <2>. QED BY <2>1 DEF Init, NoWalk, ReaderTypes
<1>2. walk.list = "none"
  BY DEF Init, NoWalk
<1>. QED BY <1>1, <1>2 DEF WalkInv, WalkMissesNothing, EveryPageBringsSomething

\* A passport that is created pushes at most one of those the client has passed ahead of
\* it again.
LEMMA CreatedWalk ==
    ASSUME WalkInv, NEW id \in PassportId, id \notin passports,
           passports' = passports \cup {id}, walk' = walk
    PROVE  WalkInv'
<1>. DEFINE n == Cardinality(passports)
<1>1. /\ passports \in SUBSET PassportId /\ passports' \in SUBSET PassportId
      /\ IsFiniteSet(passports) /\ n \in Nat
      /\ Cardinality(passports') = n + 1
  <2>1. passports \in SUBSET PassportId
    BY DEF WalkInv, ReaderTypes
  <2>. QED BY <2>1, PassportsFinite, FS_AddElement
<1>2. ReaderTypes'
  BY <1>1 DEF WalkInv, ReaderTypes
<1>3. ASSUME walk.list = "passports" PROVE /\ Range(walk.seen) \subseteq passports'
                                           /\ WalkMissesNothing'
  <2>1. Range(walk.seen) \subseteq passports
    BY <1>3 DEF WalkInv
  <2>2. /\ ~walk.open => walk.began \subseteq Range(walk.seen)
        /\ Len(walk.seen) - Cardinality(Range(walk.seen)) <= n - Cardinality(walk.began)
    BY <1>3 DEF WalkInv, WalkMissesNothing
  <2>3. /\ Len(walk.seen) \in Nat /\ Cardinality(Range(walk.seen)) \in Nat
        /\ Cardinality(walk.began) \in Nat
    BY <1>3, SeenFinite
  <2>4. Len(walk.seen) - Cardinality(Range(walk.seen))
            <= Cardinality(passports') - Cardinality(walk.began)
    <3>. HIDE DEF n
    <3>. QED BY <1>1, <2>2, <2>3
  <2>. QED BY <2>1, <2>2, <2>4 DEF WalkMissesNothing
<1>4. ASSUME NEW x \in passports
      PROVE  Place(x) \in Nat /\ Place(x)' \in {Place(x), Place(x) + 1}
  <2>1. PICK top \in Nat : passports \in SUBSET (1 .. top)
    BY <1>1, PassportsFinite
  <2>2. id \in Nat
    BY ReadsAssumption DEF ReadsAssumption
  <2>. QED BY <2>1, <2>2, PlaceOfGrown DEF Place
<1>5. ASSUME walk.list = "passports", walk.open PROVE OnTheWay'
  <2>1. /\ walk.offset \in Nat /\ walk.offset <= n
        /\ walk.began \subseteq passports /\ Range(walk.seen) \subseteq passports
        /\ \A x \in walk.began : Place(x) <= walk.offset => x \in Range(walk.seen)
        /\ Len(walk.seen) <= Cardinality(Passed) + n - Cardinality(walk.began)
    BY <1>5 DEF WalkInv, ReaderTypes, OnTheWay
  <2>2. \A x \in walk.began : Place(x)' <= walk.offset => x \in Range(walk.seen)
    BY <1>4, <2>1
  <2>3. Passed \subseteq Passed' \cup {Nth(passports, walk.offset)}
    <3>. SUFFICES ASSUME NEW x \in Passed, x \notin Passed'
                  PROVE  x = Nth(passports, walk.offset)
      OBVIOUS
    <3>1. x \in Range(walk.seen) /\ x \in passports /\ Place(x) <= walk.offset
      BY <2>1 DEF Passed
    <3>2. ~(Place(x)' <= walk.offset)
      BY <3>1 DEF Passed
    <3>3. Place(x) = walk.offset
      BY <1>4, <2>1, <3>1, <3>2
    <3>. QED BY <1>1, <3>1, <3>3, Places DEF Place
  <2>4. IsFiniteSet(Passed') /\ Cardinality(Passed') \in Nat
    <3>1. Passed' \in SUBSET Range(walk.seen)
      BY DEF Passed
    <3>. QED BY <1>5, <3>1, SeenFinite, FS_Subset, FS_CardinalityType
  <2>5. Cardinality(Passed) <= Cardinality(Passed') + 1
    <3>. DEFINE z == Nth(passports, walk.offset)
    <3>1. /\ IsFiniteSet(Passed' \cup {z})
          /\ Cardinality(Passed' \cup {z}) \in {Cardinality(Passed'), Cardinality(Passed') + 1}
      BY <2>4, FS_AddElement
    <3>2. Cardinality(Passed) <= Cardinality(Passed' \cup {z})
      BY <2>3, <3>1, FS_Subset
    <3>3. Cardinality(Passed) \in Nat
      BY <1>5, SeenFinite
    <3>. QED BY <2>4, <3>1, <3>2, <3>3
  <2>6. Len(walk.seen) <= Cardinality(Passed') + (n + 1) - Cardinality(walk.began)
    <3>1. /\ Cardinality(Passed) \in Nat /\ Cardinality(walk.began) \in Nat
          /\ Len(walk.seen) \in Nat
      BY <1>5, SeenFinite
    <3>. HIDE DEF n
    <3>. QED BY <1>1, <2>1, <2>4, <2>5, <3>1
  <2>. QED BY <1>1, <2>1, <2>2, <2>6 DEF OnTheWay
<1>6. EveryPageBringsSomething'
  BY DEF WalkInv, EveryPageBringsSomething
<1>. QED BY <1>2, <1>3, <1>5, <1>6 DEF WalkInv, WalkMissesNothing

\* A client begins: it has seen nothing, and nothing is behind it.
LEMMA StartWalk ==
    ASSUME WalkInv, LogInv, NEW list \in {"passports", "log"}, NEW limit \in Limit,
           Start(list, limit)
    PROVE  WalkInv'
<1>. USE DEF Start, store
<1>1. /\ walk'.list = list /\ walk'.open = TRUE /\ walk'.limit = limit /\ walk'.offset = 0
      /\ walk'.seen = <<>> /\ walk'.pages = 0 /\ passports' = passports
      /\ walk'.began = IF list = "passports" THEN passports ELSE {}
  OBVIOUS
<1>2. passports \in SUBSET PassportId /\ limit \in Nat
  BY ReadsAssumption DEF ReadsAssumption, WalkInv, ReaderTypes
<1>3. ReaderTypes'
  BY <1>1, <1>2 DEF ReaderTypes
<1>4. /\ Range(walk'.seen) = {} /\ Passed' = {} /\ Len(walk'.seen) = 0
  <2>1. Range(walk'.seen) = {} /\ Len(walk'.seen) = 0
    BY <1>1 DEF Range
  <2>. QED BY <2>1 DEF Passed
<1>5. IsFiniteSet(passports) /\ Cardinality(passports) \in Nat /\ Cardinality({}) = 0
  BY <1>2, PassportsFinite, EmptyCounted
<1>6. list = "passports" => OnTheWay'
  <2>. SUFFICES ASSUME list = "passports" PROVE OnTheWay'
    OBVIOUS
  <2>1. walk'.began = passports
    BY <1>1
  <2>2. \A x \in passports : ~(Place(x)' <= walk'.offset)
    <3>1. \A x \in passports : Place(x)' \in 1 .. Cardinality(passports)
      BY <1>1, <1>2, Places DEF Place
    <3>. QED BY <1>1, <1>5, <3>1
  <2>. QED BY <1>1, <1>4, <1>5, <2>1, <2>2 DEF OnTheWay
<1>7. list = "passports" => WalkMissesNothing'
  <2>. SUFFICES ASSUME list = "passports" PROVE WalkMissesNothing'
    OBVIOUS
  <2>1. walk'.began = passports /\ walk'.open /\ Cardinality(Range(walk'.seen)) = 0
    BY <1>1, <1>4, <1>5
  <2>2. 0 - 0 <= Cardinality(passports) - Cardinality(passports)
    BY <1>5
  <2>. QED BY <1>1, <1>4, <2>1, <2>2 DEF WalkMissesNothing
<1>8. EveryPageBringsSomething'
  BY <1>1, <1>4 DEF EveryPageBringsSomething
<1>. QED BY <1>1, <1>3, <1>4, <1>6, <1>7, <1>8 DEF WalkInv, WalkMissesNothing

\* A page of passports: what it brings is what stands behind the client, up to the size
\* of the page, and all of that is behind the client afterwards.
LEMMA NextPassportsWalk ==
    ASSUME WalkInv, LogInv, NextPassports
    PROVE  WalkInv'
<1>. DEFINE n == Cardinality(passports)
            o == walk.offset
            w == window(walk.limit)
            seen == walk.seen
<1>1. /\ walk.open /\ walk.list = "passports" /\ passports' = passports
      /\ \E order \in values :
            LET reply == list_passports(order, walk.limit, o)
            IN  Received(reply.page, o + reply.limit, reply.count)
  BY DEF NextPassports, store
<1>2. PICK order \in values :
            LET reply == list_passports(order, walk.limit, o)
            IN  Received(reply.page, o + reply.limit, reply.count)
  BY <1>1
<1>. DEFINE page == Page(sorted(order), o, w)
<1>3. /\ passports \in SUBSET PassportId /\ passports \subseteq PassportId
      /\ n \in Nat /\ o \in Nat /\ o <= n /\ w \in Nat \ {0} /\ seen \in Seq(PassportId)
      /\ Range(seen) \subseteq passports /\ walk.began \subseteq passports /\ OnTheWay
  BY <1>1, PassportsFinite, WindowPositive DEF WalkInv, ReaderTypes, OnTheWay
<1>4. Len(order) = n
  BY <1>3, ListingSorted
<1>5. walk' = [walk EXCEPT !.seen = seen \o page, !.offset = o + w, !.pages = walk.pages + 1,
                           !.open = o + w < n]
  BY <1>2, <1>4 DEF list_passports, Received
<1>6. DOMAIN walk = {"list", "open", "limit", "offset", "seen", "pages", "began"}
  BY DEF LogInv, LogWalkTypes
<1>. HIDE DEF w, page, n, seen
<1>7. /\ walk'.list = "passports" /\ walk'.limit = walk.limit /\ walk'.began = walk.began
      /\ walk'.seen = seen \o page /\ walk'.offset = o + w
      /\ walk'.pages = walk.pages + 1 /\ walk'.open = (o + w < n)
  BY <1>1, <1>5, <1>6
<1>8. /\ page \in Seq(PassportId)
      /\ Len(page) = IF o + w <= n THEN w ELSE n - o
      /\ Range(page) = {id \in passports : o < Place(id) /\ Place(id) <= o + w}
      /\ IsFiniteSet(Range(page)) /\ Cardinality(Range(page)) = Len(page)
  <2>1. o \in 0 .. Cardinality(passports) /\ w \in Nat
    BY <1>3 DEF n
  <2>. QED BY <1>3, <2>1, PageOfPlaces DEF page, n
<1>9. /\ seen \o page \in Seq(PassportId) /\ Len(seen \o page) = Len(seen) + Len(page)
      /\ Range(seen \o page) = Range(seen) \cup Range(page)
      /\ Len(seen) \in Nat /\ Len(page) \in Nat
  <2>1. Range(seen \o page) = Range(seen) \cup Range(page)
    BY <1>3, <1>8, RangeOfBoth
  <2>2. seen \in Seq(PassportId) /\ page \in Seq(PassportId)
    BY <1>3, <1>8
  <2>3. seen \o page \in Seq(PassportId) /\ Len(seen \o page) = Len(seen) + Len(page)
    BY <2>2
  <2>4. Len(seen) \in Nat /\ Len(page) \in Nat
    BY <2>2
  <2>. QED BY <2>1, <2>3, <2>4
<1>. DEFINE more == o + w < n
<1>9a. (walk'.open <=> more) /\ (more => o + w < n) /\ (~more => ~(o + w < n))
  BY <1>7, Zenon
<1>. HIDE DEF more
<1>10. ReaderTypes'
  BY <1>1, <1>3, <1>7, <1>9 DEF WalkInv, ReaderTypes
<1>11. Range(walk'.seen) \subseteq passports'
  BY <1>1, <1>3, <1>7, <1>8, <1>9
<1>12. \A id \in passports : Place(id) \in Nat /\ Place(id) <= n /\ Place(id)' = Place(id)
  <2>1. \A id \in passports : Place(id) \in 1 .. n
    BY <1>3, Places DEF Place, n
  <2>2. \A id : Place(id)' = Place(id)
    BY <1>1 DEF Place
  <2>. QED BY <1>3, <2>1, <2>2
<1>13. \A id \in walk.began : Place(id) <= o + w => id \in Range(walk'.seen)
  <2>. SUFFICES ASSUME NEW id \in walk.began, Place(id) <= o + w
                PROVE  id \in Range(walk'.seen)
    OBVIOUS
  <2>1. CASE Place(id) <= o
    BY <1>3, <1>7, <1>9, <2>1 DEF OnTheWay, seen
  <2>2. CASE o < Place(id)
    BY <1>3, <1>7, <1>8, <1>9, <2>2
  <2>. QED BY <1>3, <1>12, <2>1, <2>2
<1>14. /\ Passed' = Passed \cup Range(page) /\ Passed \cap Range(page) = {}
  <2>1. Passed' = {id \in Range(seen) \cup Range(page) : Place(id)' <= o + w}
    BY <1>7, <1>9 DEF Passed
  <2>2. Passed = {id \in Range(seen) : Place(id) <= o}
    BY DEF Passed, seen
  <2>3. \A id \in Range(seen) \cup Range(page) :
            id \in passports /\ Place(id) \in Nat /\ Place(id)' = Place(id)
    BY <1>3, <1>8, <1>12
  <2>4. \A id \in Range(page) : o < Place(id) /\ Place(id) <= o + w
    BY <1>8
  <2>5. \A id \in Range(seen) : o < Place(id) /\ Place(id) <= o + w => id \in Range(page)
    BY <1>3, <1>8
  <2>. QED BY <1>3, <2>1, <2>2, <2>3, <2>4, <2>5
<1>15. /\ Cardinality(Passed') = Cardinality(Passed) + Len(page)
       /\ Cardinality(Passed) \in Nat /\ Cardinality(walk.began) \in Nat
  BY <1>1, <1>8, <1>14, CountedApart, SeenFinite
<1>16. Len(walk'.seen) <= Cardinality(Passed') + n - Cardinality(walk.began)
  <2>1. Len(seen) <= Cardinality(Passed) + n - Cardinality(walk.began)
    BY <1>3 DEF OnTheWay, seen, n
  <2>. QED BY <1>3, <1>7, <1>9, <1>15, <2>1
<1>17. walk'.open => OnTheWay'
  <2>. SUFFICES ASSUME walk'.open PROVE OnTheWay'
    OBVIOUS
  <2>1. walk'.offset <= n
    BY <1>3, <1>7, <1>9a
  <2>2. \A id \in walk'.began : Place(id)' <= walk'.offset => id \in Range(walk'.seen)
    BY <1>3, <1>7, <1>12, <1>13
  <2>. QED BY <1>1, <1>7, <1>16, <2>1, <2>2 DEF OnTheWay, n
<1>18. WalkMissesNothing'
  <2>1. ~walk'.open => walk.began \subseteq Range(walk'.seen)
    <3>. SUFFICES ASSUME ~walk'.open, NEW id \in walk.began PROVE id \in Range(walk'.seen)
      OBVIOUS
    <3>1. ~(o + w < n)
      BY <1>9a
    <3>2. id \in passports /\ Place(id) \in Nat /\ Place(id) <= n
      BY <1>3, <1>12
    <3>3. Place(id) <= o + w
      BY <1>3, <3>1, <3>2
    <3>. QED BY <1>13, <3>3
  <2>2. Cardinality(Passed') <= Cardinality(Range(walk'.seen))
        /\ Cardinality(Range(walk'.seen)) \in Nat
    <3>1. Range(walk'.seen) \in SUBSET PassportId /\ Passed' \subseteq Range(walk'.seen)
      BY <1>1, <1>3, <1>11 DEF Passed
    <3>. QED BY <3>1, PassportsFinite, FS_Subset
  <2>3. Len(walk'.seen) - Cardinality(Range(walk'.seen)) <= n - Cardinality(walk.began)
    BY <1>3, <1>7, <1>9, <1>15, <1>16, <2>2
  <2>. QED BY <1>1, <1>7, <2>1, <2>3 DEF WalkMissesNothing, n
<1>19. EveryPageBringsSomething'
  <2>. SUFFICES ASSUME walk'.open PROVE walk'.pages <= Len(walk'.seen)
    BY DEF EveryPageBringsSomething
  <2>1. walk.pages \in Nat /\ walk.pages <= Len(seen)
    BY <1>1 DEF WalkInv, ReaderTypes, EveryPageBringsSomething, seen
  <2>2. Len(page) >= 1
    <3>1. o + w < n
      BY <1>9a
    <3>. QED BY <1>3, <1>8, <3>1
  <2>. QED BY <1>7, <1>9, <2>1, <2>2
<1>. QED BY <1>7, <1>10, <1>11, <1>17, <1>18, <1>19 DEF WalkInv

\* A page of the log leaves the passports and whoever has read them alone.
LEMMA NextRecordsWalk ==
    ASSUME WalkInv, LogInv, LogInv', NextRecords
    PROVE  WalkInv'
<1>. DEFINE page == admin_log(walk.limit, walk.offset).page
<1>1. /\ walk.list = "log" /\ passports' = passports /\ log' = log
      /\ DOMAIN walk = {"list", "open", "limit", "offset", "seen", "pages", "began"}
  BY DEF NextRecords, store, LogInv, LogWalkTypes
<1>2. \E count :
        walk' = [walk EXCEPT !.seen = walk.seen \o page, !.offset = walk.offset + Len(page),
                             !.pages = walk.pages + 1,
                             !.open = walk.offset + Len(page) < count]
  BY DEF NextRecords, Received
<1>. HIDE DEF page
<1>3. /\ walk'.list = "log" /\ walk'.limit = walk.limit /\ walk'.began = walk.began
      /\ walk'.pages = walk.pages + 1 /\ walk'.open \in BOOLEAN
  BY <1>1, <1>2
<1>4. walk'.offset \in Nat /\ walk'.seen \in Seq(AuditRecord)
  <2>1. /\ walk'.offset \in Nat /\ walk'.offset <= Len(log)
        /\ walk'.seen = SubSeq(log, 1, walk'.offset) /\ log \in Seq(AuditRecord)
    BY <1>1, <1>3 DEF LogInv, LogWalkTypes, LogPagesExact
  <2>2. \A i \in 1 .. walk'.offset : log[i] \in AuditRecord
    BY <2>1
  <2>. QED BY <2>1, <2>2, SubSeqProperties
<1>5. ReaderTypes'
  BY <1>1, <1>3, <1>4 DEF WalkInv, ReaderTypes
<1>. QED BY <1>3, <1>5 DEF WalkInv, WalkMissesNothing, EveryPageBringsSomething

\* Whoever leaves the passports and the client alone leaves what was said of them true.
LEMMA ElsewhereWalk ==
    ASSUME WalkInv, UNCHANGED <<passports, walk>>
    PROVE  WalkInv'
<1>1. Passed' = Passed
  BY DEF Passed, Place
<1>2. \A id : Place(id)' = Place(id)
  BY DEF Place
<1>3. ReaderTypes' /\ WalkMissesNothing' /\ EveryPageBringsSomething'
  BY DEF WalkInv, ReaderTypes, WalkMissesNothing, EveryPageBringsSomething
<1>4. OnTheWay => OnTheWay'
  BY <1>1, <1>2 DEF OnTheWay
<1>. QED BY <1>3, <1>4 DEF WalkInv

\* Every step keeps the client on its way.
LEMMA StepWalkInv == LogInv /\ WalkInv /\ [Next]_vars => WalkInv'
<1>. SUFFICES ASSUME LogInv, WalkInv, [Next]_vars PROVE WalkInv'
  OBVIOUS
<1>1. CASE Tick \/ UNCHANGED vars
  BY <1>1, ElsewhereWalk DEF Tick, vars, store
<1>2. ASSUME NEW r \in Request, (\E w \in Window : Bind(r, w)) \/ RecordBinding(r) \/ Unbound(r)
      PROVE  WalkInv'
  BY <1>2, ElsewhereWalk DEF Bind, RecordBinding, Unbound, store
<1>3. ASSUME NEW id \in PassportId, CreatePassport(id) PROVE WalkInv'
  BY <1>3, CreatedWalk DEF CreatePassport
<1>4. ASSUME NEW list \in {"passports", "log"}, NEW limit \in Limit, Start(list, limit)
      PROVE  WalkInv'
  BY <1>4, StartWalk
<1>5. CASE NextRecords
  <2>1. LogInv'
    BY <1>5, NextRecordsLog
  <2>. QED BY <1>5, <2>1, NextRecordsWalk
<1>. QED BY <1>1, <1>2, <1>3, <1>4, <1>5, NextPassportsWalk DEF Next

\* What was answered for a moment names bindings and requests.
AnswersTyped ==
    \A t \in DOMAIN answered :
        answered[t].bindings \subseteq BindingRecord /\ answered[t].underway \subseteq Request

\* Time passing is the only step that answers for a moment.
LEMMA StepAnswersTyped == IInv /\ AnswersTyped /\ [Next]_vars => AnswersTyped'
<1>. SUFFICES ASSUME IInv, AnswersTyped, [Next]_vars PROVE AnswersTyped'
  OBVIOUS
<1>1. CASE Tick
  <2>1. applicability_query(clock) \subseteq BindingRecord
    BY RecordedTyped DEF IInv, BindingTypes, applicability_query
  <2>. QED BY <1>1, <2>1 DEF Tick, AnswersTyped
<1>2. CASE answered' = answered
  BY <1>2 DEF AnswersTyped
<1>. QED BY <1>1, <1>2 DEF Next, vars, Bind, RecordBinding, Unbound, CreatePassport, Start,
                           NextPassports, NextRecords

--------------------------------------------------------------------------------
(* The theorems.                                                            *)

\* What an applicability query answered for a moment, it keeps answering, but for what
\* backdates by right or was under way at that moment.
THEOREM AnswersAlwaysStand == Spec => []AnswersStand
<1>1. IInv => AnswersStand
  BY DEF IInv
<1>. QED BY <1>1, InitIInv, StepIInv, PTL DEF Spec

\* The pages of the audit log, put together, are a prefix of it, whatever their size
\* and whatever is recorded between two of them.
THEOREM LogPagesAreExact == Spec => []LogPagesExact
<1>1. LogInv => LogPagesExact
  BY DEF LogInv
<1>. QED BY <1>1, InitLogInv, StepLogInv, PTL DEF Spec

\* A client that asks for the bindings at the instant it was told finds its own there.
THEOREM OwnWriteIsRead == Spec => []ReadsOwnWrite
<1>1. IInv => ReadsOwnWrite
  <2>. SUFFICES ASSUME IInv, NEW b \in bindings_for,
                       b.effective_from <= binding[b.req].registered_at,
                       \A until \in b.effective_until : binding[b.req].registered_at <= until
                PROVE  b \in applicability_query(binding[b.req].registered_at)
    BY DEF ReadsOwnWrite
  <2>1. b \in BindingRecord /\ binding[b.req] = b
    BY RecordedTyped DEF IInv, BindingTypes, Stamped
  <2>2. b.registered_at \in Nat /\ b.effective_from \in Nat
    BY <2>1, InstantIsNat DEF BindingRecord
  <2>. QED BY <2>1, <2>2 DEF applicability_query, applies_at
<1>. QED BY <1>1, InitIInv, StepIInv, PTL DEF Spec

\* A client that reads the passports to the end has missed none that was there when it
\* began, and has seen no more of them twice than were created meanwhile: for any page
\* sizes and any number of passports, in whatever order the map yields them.
THEOREM WalksMissNothing == Spec => []WalkMissesNothing
<1>1. WalkInv => WalkMissesNothing
  BY DEF WalkInv
<1>. QED BY <1>1, InitLogInv, StepLogInv, InitWalk, StepWalkInv, PTL DEF Spec

\* Each page of passports before the last brings something, also when the client asks for
\* pages of no size.
THEOREM EveryPageBrings == Spec => []EveryPageBringsSomething
<1>1. WalkInv => EveryPageBringsSomething
  BY DEF WalkInv
<1>. QED BY <1>1, InitLogInv, StepLogInv, InitWalk, StepWalkInv, PTL DEF Spec

\* Each variable has its type.
THEOREM TypeCorrect == Spec => []TypeOK
<1>1. Init => AnswersTyped
  BY DEF Init, AnswersTyped
<1>2. IInv /\ LogInv /\ WalkInv /\ AnswersTyped => TypeOK
  BY DEF IInv, BindingTypes, LogInv, LogWalkTypes, WalkInv, ReaderTypes, AnswersTyped, TypeOK
<1>. QED BY <1>1, <1>2, InitIInv, StepIInv, InitLogInv, StepLogInv, InitWalk, StepWalkInv,
            StepAnswersTyped, PTL DEF Spec
================================================================================

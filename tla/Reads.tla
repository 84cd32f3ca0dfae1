---------------------------------- MODULE Reads ----------------------------------
(****************************************************************************)
(* What the read handlers answer while the store changes under them: the    *)
(* bindings in force at a moment (applicability_query, applies_at) and the  *)
(* paged listings of the passports and of the audit log (list_passports,    *)
(* window, admin_log, log_json), from src/src/api.rs and src/src/store.rs.  *)
(*                                                                          *)
(* A binding is stamped when its handler begins and recorded after the      *)
(* registry's await: here two steps, with any time in between.  A client    *)
(* reads a listing page by page, each page under a lock of its own.         *)
(*                                                                          *)
(* Left out: the forwarding itself and the check of the profile             *)
(* (RegistryForwarding), the fields of a listed passport, bindings of other *)
(* product types, which bindings_for filters out, the journal (IssuerStore: *)
(* a restart gives the same store back), and a clock that is set back.      *)
(****************************************************************************)
EXTENDS Ordinals, SequencesExt

CONSTANTS
    PassportId,   \* passport ids; their order is that of the strings
    Request,      \* the bindings that are asked for
    Window,       \* the windows they ask for: see Windows
    Limit,        \* page sizes a client asks for
    PageCap,      \* the largest page of passports: 500 in the code
    LogCap,       \* the largest page of the audit log: 10 000 in the code
    MaxTime,      \* bound: the clock
    MaxLog        \* bound: audit records

Instant == 0 .. MaxTime

\* An optional instant is a set of one element, or {} for None.
Windows == [from : SUBSET Instant, until : SUBSET Instant, retroactive : BOOLEAN]

ASSUME ReadsAssumption ==
    /\ PassportId \subseteq Nat \ {0} /\ IsFiniteSet(PassportId)
    /\ Window \subseteq Windows
    /\ \A w \in Window : Cardinality(w.from) <= 1 /\ Cardinality(w.until) <= 1
    /\ Limit \subseteq Nat
    /\ PageCap \in Nat \ {0} /\ LogCap \in Nat \ {0}
    /\ MaxTime \in Nat /\ MaxLog \in Nat

VARIABLES
    clock,      \* Timestamp::now
    passports,  \* the keys of Store::passports
    bindings,   \* Store::bindings, each with the request that made it as history
    log,        \* Store::log
    pc,         \* per request: "idle", "awaiting" or "done"
    binding,    \* per request: the BindingRecord its handler has built
    answered,   \* history: what a query answered last while the clock showed t
    walk        \* a client on its way through a listing

binder == <<pc, binding>>
store  == <<passports, bindings, log>>
vars   == <<clock, store, binder, answered, walk>>

BindingRecord ==
    [req : Request, effective_from : Instant, effective_until : SUBSET Instant,
     retroactive : BOOLEAN, registered_at : Instant]

Unbuilt == [registered_at |-> {}]

AuditRecord == [type : {"CreatePassport"}, passport_id : PassportId]
               \cup [type : {"BindApplicability"}, req : Request]

--------------------------------------------------------------------------------
(* Bindings and the moments they are in force at.                           *)

\* Mutant: every binding reaches back to the beginning of its window.
applies_at_Always(b, at) ==
    at >= b.effective_from /\ \A until \in b.effective_until : at <= until

\* Both ends of the window belong to it, and so does the instant of registration.
applies_at(b, at) ==
    /\ at >= b.effective_from
    /\ \A until \in b.effective_until : at <= until
    /\ b.retroactive \/ at >= b.registered_at

bindings_for == {bindings[i] : i \in DOMAIN bindings}

\* GET /admin/applicability with ?at=; without it, `at` is the clock.
applicability_query(at) == {b \in bindings_for : applies_at(b, at)}

\* bind_applicability up to its await.  A window that ends before it begins is refused,
\* which changes nothing.
Bind(r, w) ==
    LET from == IF w.from = {} THEN clock ELSE CHOOSE t \in w.from : TRUE IN
    /\ pc[r] = "idle"
    /\ \A until \in w.until : until >= from
    /\ pc' = [pc EXCEPT ![r] = "awaiting"]
    /\ binding' = [binding EXCEPT ![r] =
            [req |-> r, effective_from |-> from, effective_until |-> w.until,
             retroactive |-> w.retroactive, registered_at |-> clock]]
    /\ UNCHANGED <<clock, store, answered, walk>>

\* Mutant: the record is stamped when it is made.
RecordBinding_Restamped(r) ==
    /\ pc[r] = "awaiting"
    /\ Len(log) < MaxLog
    /\ pc' = [pc EXCEPT ![r] = "done"]
    /\ bindings' = Append(bindings, [binding[r] EXCEPT !.registered_at = clock])
    /\ log' = Append(log, [type |-> "BindApplicability", req |-> r])
    /\ UNCHANGED <<clock, passports, binding, answered, walk>>

\* Mutant: the operation is journaled under the tag of another one.
RecordBinding_AsCreation(r) ==
    /\ pc[r] = "awaiting"
    /\ Len(log) < MaxLog
    /\ pc' = [pc EXCEPT ![r] = "done"]
    /\ bindings' = Append(bindings, binding[r])
    /\ log' = Append(log, [type |-> "CreatePassport", req |-> r])
    /\ UNCHANGED <<clock, passports, binding, answered, walk>>

\* The rest of it: Store::bind_applicability and Store::record under the lock.
RecordBinding(r) ==
    /\ pc[r] = "awaiting"
    /\ Len(log) < MaxLog
    /\ pc' = [pc EXCEPT ![r] = "done"]
    /\ bindings' = Append(bindings, binding[r])
    /\ log' = Append(log, [type |-> "BindApplicability", req |-> r])
    /\ UNCHANGED <<clock, passports, binding, answered, walk>>

\* The registry rejects it, the client goes away at the await, or the journal fails.
Unbound(r) ==
    /\ pc[r] = "awaiting"
    /\ pc' = [pc EXCEPT ![r] = "done"]
    /\ UNCHANGED <<clock, store, binding, answered, walk>>

\* Time passes; what was answered until then, and who was under way, is kept.
Tick ==
    /\ clock < MaxTime
    /\ clock' = clock + 1
    /\ answered' = [t \in DOMAIN answered \cup {clock} |->
            IF t = clock
            THEN [bindings |-> applicability_query(clock),
                  underway |-> {r \in Request : pc[r] = "awaiting"}]
            ELSE answered[t]]
    /\ UNCHANGED <<store, binder, walk>>

--------------------------------------------------------------------------------
(* The listings.                                                            *)

\* Store::create_passport.
CreatePassport(id) ==
    /\ id \notin passports
    /\ Len(log) < MaxLog
    /\ passports' = passports \cup {id}
    /\ log' = Append(log, [type |-> "CreatePassport", passport_id |-> id])
    /\ UNCHANGED <<clock, bindings, binder, answered, walk>>

\* HashMap::values: the keys in an order of its own, another one on every call.
values == SetToSeqs(passports)

\* Mutant: the listing is in the map's order.
sorted_Unsorted(order) == order

\* Store::passports sorts what the map yields.
sorted(order) == [n \in DOMAIN order |-> Nth(Range(order), n)]

\* Iterator::skip and take.
Page(seq, offset, limit) == SubSeq(seq, offset + 1, Min({offset + limit, Len(seq)}))

\* Mutant: a page may be of size 0.
window_NoFloor(limit) == Min({limit, PageCap})

\* The page size that is used, between 1 and the cap.
window(limit) == Max({1, Min({limit, PageCap})})

\* GET /passports: the page, the number of all passports, the page size.
list_passports(order, limit, offset) ==
    [page |-> Page(sorted(order), offset, window(limit)), count |-> Len(order),
     limit |-> window(limit)]

\* Mutant: the newest record comes first.
admin_log_NewestFirst(limit, offset) ==
    [page |-> Page(Reverse(log), offset, Min({limit, LogCap})), count |-> Len(log)]

\* GET /admin/log: this page size has no floor.
admin_log(limit, offset) ==
    [page |-> Page(log, offset, Min({limit, LogCap})), count |-> Len(log)]

\* A client that reads a listing from its beginning, until it has come to the count it
\* was last told: it adds the page size to its offset, or what the page held.
Start(list, limit) ==
    /\ ~walk.open
    /\ list = "log" => limit > 0
    /\ walk' = [list |-> list, open |-> TRUE, limit |-> limit, offset |-> 0, seen |-> <<>>,
                pages |-> 0, began |-> IF list = "passports" THEN passports ELSE {}]
    /\ UNCHANGED <<clock, store, binder, answered>>

Received(page, offset, count) ==
    walk' = [walk EXCEPT !.seen = @ \o page, !.offset = offset, !.pages = @ + 1,
                         !.open = offset < count]

NextPassports ==
    /\ walk.open /\ walk.list = "passports"
    /\ \E order \in values :
        LET reply == list_passports(order, walk.limit, walk.offset)
        IN  Received(reply.page, walk.offset + reply.limit, reply.count)
    /\ UNCHANGED <<clock, store, binder, answered>>

NextRecords ==
    /\ walk.open /\ walk.list = "log"
    /\ LET reply == admin_log(walk.limit, walk.offset)
       IN  Received(reply.page, walk.offset + Len(reply.page), reply.count)
    /\ UNCHANGED <<clock, store, binder, answered>>

NoWalk == [list |-> "none", open |-> FALSE, limit |-> 0, offset |-> 0, seen |-> <<>>,
           pages |-> 0, began |-> {}]

Init ==
    /\ clock = 0
    /\ passports = {} /\ bindings = <<>> /\ log = <<>>
    /\ pc = [r \in Request |-> "idle"]
    /\ binding = [r \in Request |-> Unbuilt]
    /\ answered = [t \in {} |-> t]
    /\ walk = NoWalk

Next ==
    \/ Tick
    \/ \E r \in Request : (\E w \in Window : Bind(r, w)) \/ RecordBinding(r) \/ Unbound(r)
    \/ \E id \in PassportId : CreatePassport(id)
    \/ \E list \in {"passports", "log"}, limit \in Limit : Start(list, limit)
    \/ NextPassports \/ NextRecords

Spec == Init /\ [][Next]_vars

--------------------------------------------------------------------------------
(* Properties.                                                              *)

\* Every variable has its type.
TypeOK ==
    /\ clock \in Instant
    /\ passports \subseteq PassportId
    /\ bindings \in Seq(BindingRecord)
    /\ log \in Seq(AuditRecord)
    /\ pc \in [Request -> {"idle", "awaiting", "done"}]
    /\ binding \in [Request -> BindingRecord \cup {Unbuilt}]
    /\ DOMAIN answered = 0 .. clock - 1
    /\ \A t \in DOMAIN answered :
        answered[t].bindings \subseteq BindingRecord /\ answered[t].underway \subseteq Request
    /\ walk.list \in {"none", "passports", "log"} /\ walk.open \in BOOLEAN
    /\ walk.offset \in Nat /\ walk.pages \in Nat
    /\ walk.began \subseteq passports
    /\ walk.seen \in IF walk.list = "log" THEN Seq(AuditRecord) ELSE Seq(PassportId)

\* "Legal as-of semantics": what a query for a moment answered at that moment stands.
\* Asked again later, it shows no binding less, and none more but those that backdate
\* by right and those whose request was under way then: these are stamped before the
\* await, recorded after it, and change answers already given.
AnswersStand ==
    \A t \in DOMAIN answered :
        /\ answered[t].bindings \subseteq applicability_query(t)
        /\ \A b \in applicability_query(t) \ answered[t].bindings :
            b.retroactive \/ b.req \in answered[t].underway

\* The reply to a binding is stamped with the instant its handler began.  A client that
\* asks again at the stamp it was given finds its own binding, however long the registry
\* took, unless the window it asked for does not hold that instant.
ReadsOwnWrite ==
    \A b \in bindings_for :
        LET as_of == binding[b.req].registered_at
            holds == /\ b.effective_from <= as_of
                     /\ \A until \in b.effective_until : as_of <= until
        IN  holds => b \in applicability_query(as_of)

\* A client that reads the passports to the end has seen each one that was there when it
\* began, although each page sorts the map anew and creations shift the pages; and sees
\* one twice at most as often as a passport was created meanwhile.
WalkMissesNothing ==
    walk.list = "passports" =>
        /\ ~walk.open => walk.began \subseteq Range(walk.seen)
        /\ Len(walk.seen) - Cardinality(Range(walk.seen))
                <= Cardinality(passports) - Cardinality(walk.began)

\* Whatever page size a client asks for, each page before the last brings something:
\* nobody who reads a listing to its end is kept asking.
EveryPageBringsSomething ==
    walk.list = "passports" /\ walk.open => walk.pages <= Len(walk.seen)

\* The pages of the audit log, put together, are the audit log up to where the client
\* has come: no record missing, none twice, whatever is recorded in between.
LogPagesExact ==
    walk.list = "log" => walk.offset <= Len(log) /\ walk.seen = SubSeq(log, 1, walk.offset)
================================================================================

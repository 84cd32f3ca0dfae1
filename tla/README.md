# A TLA+ model of unidpp-issuer

unidpp-issuer is an HTTP service that issues digital product passports. It
keeps passports, profiles and applicability bindings behind an append-only
JSONL audit journal, appends events to a passport's log, signs events and
offline packs with its keyring, and forwards its admin mutations to a registry.

This directory holds TLA+ modules translated from the Rust sources, the
configurations that model-check them with TLC, and theorems checked by TLAPS.
Names follow the source: a definition called `append_event` or `derive_pack_keys`
models the function of that name. `PROJECT.json` gives the source lines of every
definition, the hazards each property is for, and a mutant for every property: a
plausible slip in the code that makes TLC report the property violated.

Paths below are relative to the repository, which lies in `src/` here, so the
crate's own sources appear as `src/src/*.rs`.

## 1. Inventory

| component | state | operations | interacts with |
|---|---|---|---|
| **Store and journal** `store.rs` | `passports`, `profiles`, `bindings`, `log`; the journal file | `open`/`replay`, `record`, `apply`, `create_passport`, `append_event`, `register_profile`, `bind_applicability` | called by every handler under one `Mutex`; the file is all that survives the process |
| **Passport log and replayed state** `store.rs` `replay_state` | a sealed event log per passport (in `unidpp_event`) | append; replay to (status, safety flag, custodian) | the store checks status changes (I6) against it; passport reads replay a prefix of it |
| **Admin handlers, registry forwarding** `api.rs`, `registry.rs` | one handler per request, suspended at an `await` | `register_profile`, `bind_applicability`, `RegistryClient::forward` | HTTP client, registry, store; the lock is *not* held while awaiting |
| **HTTP client** `http.rs` | one request: bytes read, time-out | `request`, `decode_chunked_body` | called by `forward`; talks to the registry |
| **Keyring, pack suites, environment** `keyring.rs`, `api.rs` `Config::from_env` | event key, pack keys, suite policy, mode | `PackSuites::parse`, `derive_pack_keys`, the two constructors, the exits of `from_env` | made once per start; every signature and pack |
| **Event signing, packs, verdict** `api.rs` | the record cloned under the lock | `append_event` (signature), `mint_pack`, `passport_verdict` (two locks) | store, keyring, `unidpp_cli`, `unidpp_tier_a` |
| **Point-in-time reads and listings** `api.rs` `passport_view`, `applicability_query`, `list_passports`, `admin_log`; `store.rs` `applies_at` | none of their own | reads with `?at=`, pages | each read takes the lock once; a client's walk through a listing does not |
| **Event payload parsing** `events.rs`; **request parsing, bearer check, stamps** `api.rs` | none | stateless shaping of JSON | before any lock is taken |
| **Entry point, router, test server** `main.rs`, `lib.rs`, `api.rs` | none | wiring | everything |

What is hard here, and what makes each part correct:

- **Crashes and failed writes.** `record` writes a line, then applies it. The
  process may die before, inside or after the write, and a write may fail half
  way. The memory must be what the file says; numbers must stay 1-based and
  gap-free; what was acknowledged must be found at the next start.
- **Replay without checks.** `replay` re-applies operations without the checks that
  admitted them. I6 (a status change starts from the current status) and "a
  binding names a known profile" must hold in the rebuilt store all the same.
- **A dropped result.** `apply` ignores what `EventLog::append` returns, and keeps
  the event's signature either way.
- **Await between check and use.** `bind_applicability` looks the profile up under
  one lock and records the binding under another, with up to two seconds of
  network in between; `register_profile` records after the same await. Other
  requests, the time-out, a lost connection, a disconnecting client or the end of
  the process can come in between.
- **Byte-stream framing.** The client decides from every prefix of the bytes,
  however they were cut, whether the response is complete.
- **Restart with other settings.** Signatures and packs of an earlier start are
  judged by the keys and the suite policy of this one.
- **Two locks in one verdict.** The config leg is computed later than the others.
- **Stamped, then recorded.** A binding carries the instant at which its handler
  began, and is recorded after the registry's await. What a query said of the moments
  in between can change.
- **Pages of a moving listing.** Each page sorts the passports anew, and passports
  are created between two pages.
- **Two orders.** The registry accepts re-registrations of one profile in one
  order, the local store records them in another.

The `hazards` of `PROJECT.json` list these one by one at their lines. Those no
property covers yet say why.

## 2. Modules

| module | models | used by |
|---|---|---|
| `PassportLog` | `replay_state` and what the issuer uses of `unidpp_event` | `PassportLogReplay`, `IssuerStore`, `AuditTrail` |
| `PassportLogReplay` | one growing log, its replay and its point-in-time views | run `passport_log` |
| `IssuerStore` | `store.rs`: mutations, journal, crash, replay | runs `store_*`, and three of the findings |
| `AuditTrail` | abstract: one growing trail of admissible operations | refined by `IssuerStore`, kept by `RegistryForwarding` |
| `IssuerStoreTrail` | the refinement mapping | run `store_atomic` |
| `RegistryForwarding` | the two forwarding handlers with registry and network | runs `fwd_*`, `promotion` |
| `Reads` | bindings in force at a moment; paged listings | run `reads` |
| `HttpClient` | `request` of `http.rs` | run `http_client` |
| `SigningKeys` | keyring, suite policy, event signing, packs, verdict | run `signing_keys` |
| `Ordinals` | the n-th member of a set of numbers, what a sequence holds at the places in a set | `PassportLogReplay`, `Reads`, `SigningKeys` |
| `OrdinalsProofs` | lemmas about `Ordinals`, and induction as the least counterexample | the proofs below that count |
| `IssuerStoreProofs`, `IssuerStoreTrailProofs` | theorems on the store; on its documents and the refinement | TLAPS |
| `RegistryForwardingProofs`, `ReadsProofs`, `PassportLogReplayProofs`, `SigningKeysProofs`, `HttpClientProofs` | theorems on the module of that name | TLAPS |
| `MC...` | instances and symmetry sets for TLC | the runs |

### IssuerStore

The variables `passports`, `profiles`, `bindings` and `log` are the fields of
`Store`; `journal` holds the file's newline-terminated lines and `tail` what follows
the last newline. A line is a sequence of chunks, because the file is opened for
append: what an unfinished write leaves is continued by the next one. `replayed` is
the position of the replay loop; `acked`, `crashes`, `damaged` are history.

A mutation is one step, as it is under the mutex: its checks, then `record`, which
succeeds (`RecordOk`), returns an error (`RecordErr`) or is cut short by the end of
the process (`RecordCrash`). `Leaves` says what a write that does not run to its end
can leave: nothing, part of the bytes (valid UTF-8 or cut inside a character), the
record without its newline (`writeln!` writes the two separately), or, for a crash,
everything. `Start`, `ReplayLine`, `Opened` are `Store::open` and its loop. A file
that is not UTF-8 makes `open` return an error: the mode is then `refused`, for good,
since the next attempt reads the same file.

What `unidpp_event` does with a sequence number that is not the next, or with a time
before the last event's, cannot be read off this repository. The constant
`SealRefuses` selects the behaviour, and properties are checked, or shown violated,
under the choices their runs name. The theorems on the store hold for all choices.
`apply` ignores a refusal, so that an event dated back is journaled, answered 201 and left
out, and the next event gets its number. `AckedEventSealed` and `SignaturesVerify` say that
this is the *only* kind of event that is missing from its log, or whose signature matches
nothing, and that it stays so: in the run `store_atomic` such events are refused, and their
numbers taken by others, before and after restarts.

### AuditTrail, the abstract specification

The trail only grows, and each operation on it is admissible in the light of those
before it: ids are created once, an event takes the next number of its passport and
starts from its status, a version is not registered over itself, a binding names a
registered profile. An append that the passport's log refuses stays on the trail, since the
store journals it all the same; the events of a passport are those its log took (`Taken`).
`IssuerStore` with `trail` = the file implements it
(`ImplementsTrail`): the store decides from maps that it updates and rebuilds, and
the decisions are those the file itself would justify. The concurrent handlers of
`RegistryForwarding` keep the same trail (`KeepsTrail`), so that specification is
what the two modules share.

### RegistryForwarding

Per request: `pc` (where the handler is), `op`, `outcome` (what `forward` returned),
`reply`, and `wire`, its exchange with the registry, which goes on whether or not the
handler still waits. `held` is the registry's content. `ReceiveProfile` and `ReceiveBinding` run up
to the await, the second after its look-up under the first lock; `Forward` is what they
share. Both send the whole operation: the fields that the code's bodies leave out (section 3)
are not in the model. `Answered`, `HttpError` and `TimeOut` are the three ways out of `forward`,
`RecordProfile` and `RecordBinding` the rest of the handler under the second lock, with
its refusals and a failing journal. `Disconnect` drops a handler at its await.
`Restart` ends them all; the one that held the lock may have written its record.
The store here is the profile map and the records, persistent as `IssuerStore` shows.
The registry URL is absent, malformed (which `forward` finds out before it sends
anything) or good, and is read anew at a restart. Two history variables serve
`OrdersAgree`: `accepted` is the order in which the registry took the requests, and
`preceded` says for each request which ones had been answered, with the registry's
authority, before it came.

### PassportLogReplay: views

`passport_view` replays the whole log or what had occurred at `at`, and selects the head
by a second `match`. A head is represented by the prefix of the log it commits to, so that
`ViewIsOneLog` can replay what a head stands for and compare it with the state next to it.
`EventLog::as_of` and `state_hash_at` are external; they are taken to be inclusive, as their
use in the code suggests, and the log to refuse backdated events, without which a
state at a moment is not a prefix of the log. `ReplayStates` says where the loop of
`replay_state` stands after n events.

### Reads

`Bind` and `RecordBinding` are the two halves of `bind_applicability` around its await;
`Unbound` stands for every way in which a request leaves no record. At each `Tick` the
history variable `answered` keeps what a query for the elapsed instant had answered and
which requests were under way: `AnswersStand` compares every later answer with it. A
client walks through a listing page by page (`Start`, `NextPassports`, `NextRecords`), in
the way a client has to that knows only the fields of the replies. `values` is any order
of the map's keys, chosen anew for every page.

### HttpClient

The wire carries units (status line, framing header, CRLF, size line, data); data may
look like a CRLF. Each `Read` brings any non-empty piece of what is left, `EndOfStream`
an error of the read itself (`ReadFails`) and `TimeOut` may strike at any point. `Complete` and `Cut` are the three body loops,
`decode_chunked_body` restarts from the first chunk after every read as the code does:
`DecodeChunk` is a pass of its loop, and `Decoding` says where the loop stands after n passes.

### SigningKeys

Cryptography is ideal: a key is a suite and its seed material. `Boot` reads any
environment that `from_env` does not exit on; `Stop` loses the keyring and keeps what
the journal holds. `append_event` signs under the lock; `mint_pack` takes a suite list
of the request or the policy read back from the keys; `passport_verdict` and
`passport_verdict_config` are the two locks of the verdict. Whether a pack fits its budget is
up to an external operator of its slots and of the log, `Fits`: the payload that is packed
(`TierAPayload::from_log`) varies with the head, the status and the safety flag, so that a
policy can fit at one time and not at another. A verdict over budget is answered 413, and no
property says when that may happen.

## 3. Runs

Each passing run reaches every reachable state of its instance.

| run | question | instance and bounds |
|---|---|---|
| `passport_log` | does the fold mean what status, flag and custodian mean? do state and head of a view agree, and stay what they were? | every log of up to 4 events over all payload kinds at 2 times. 4 holds every pair of overwriting events with one before and one after; 2 times give views before, within and after a log |
| `store_atomic` | when a write leaves nothing or a whole line: durability, numbering, signatures, and refinement of the trail, I6 included | 2 passports, 1 profile, 2 versions, 5 records, 2 crashes or failed writes. Two restarts suffice for a replay that is itself interrupted; 5 records for two passports with events, or create, two events, re-registration and binding. 2 instants, and a log that refuses what is dated back, so that an append can be refused and its number be taken by another event |
| `store_torn` | when writes tear: the loss is bounded, I6 survives in rebuilt logs, and how far do the numbers drift? | 1 passport, 4 records, 2 damaged writes of every kind: damage on top of damage on one line |
| `fwd_safety` | authority, one record per created reply, no refusal after forwarding, the order of records against the registry's, the trail | 3 requests (two that conflict and one that binds), 2 versions, 1 restart |
| `fwd_answered` | is each request answered or given up? | 2 requests, 1 restart, no symmetry |
| `http_client` | body integrity, no needless read, termination | up to 2 chunks from a one-unit chunk, a chunk that is a CRLF and one that holds a CRLF; declared length 0..5, below, at and above what is sent |
| `signing_keys` | policy, anchors, self-audit and verdict across a restart | suites with and without a carrier slot; one never fits a pack, two slots fit only for an empty log; lists of 2 tokens in the environment, 1 in a request; 2 starts; appends while the log and the signatures together hold fewer than 2 entries |
| `reads` | do answers for a moment stand? does a client find its own binding? do pages add up to the listing? | 3 passports, 2 binding requests with 7 kinds of windows, a clock of 3 instants, 3 audit records, page sizes 0 and 3 against a cap of 2. A binding can be stamped, queried past and recorded at three different instants; two pages with a creation before, between or behind them |

Mutants name where each property bites; several are single-line slips
(reading a record again under the second lock, numbering from zero, accepting one
byte too few).

**Fairness.** `fwd_answered` assumes that a handler whose
timer has fired or whose lock is free is polled; `http_client` that tokio's timer
fires: `tokio::time::timeout` wraps the whole exchange. Nothing is assumed of the
registry, the network or the server. No other run uses fairness. The replay at start-up has no
liveness property: it is a loop over a finite file, and its one failure is `torn_char`.

**Deadlock** is not checked: every machine may stop, when bounds are used up, when
each request is answered, or when a damaged file refuses the start.

### Where the code and its documents disagree

Four runs are expected to be violated. Each checks what a comment of the
repository says.

- `lost_ack`: "a torn final line is tolerated" (store.rs:269). The line is skipped,
  but the file is not truncated: the next acknowledged record is appended to it and
  lost at the next start. For the same reason the numbers, "1-based, gap-free" by
  store.rs:145, then repeat or skip: they are the length of a log that lost a line.
- `torn_char`: the same sentence; a line torn inside a multi-byte character stops the
  service from starting.
- `backdated`: a "non-monotonic append" is documented as a conflict (store.rs:159-160),
  and answered 201.
- `promotion`: "the caller still journals its local record" (registry.rs:88-89). A
  version first recorded while the registry was unreachable cannot be promoted: the
  registry accepts the retry, the local store answers 409.

Smaller divergences, outside what the runs check: `effective_until` is not part of the body
that is forwarded to the registry (api.rs:1295-1301), so that the registry holds an open
binding where the local one, "mirroring the registry's binding shape" (store.rs:66), ends; a
binding that is not retroactive and whose window ends before the instant of its
registration is accepted and never in force; a view with `?at=` carries the state of then but
the whole document and the event count of now; a view without it shows events dated in the
future although it is stamped with the present; the README's `"suites": [...]` array
is refused, since `opt_str` wants a string (api.rs:989); keyring.rs:28 says
seeded-dev mode is used when at least one seed is missing, but api.rs:177-182 exits when
exactly one is; a failed journal write is answered 400, and its line, if complete but
for the newline, is replayed at the next start.

## 4. Proofs

TLAPS proves the following for every value of the constants that satisfies the named
assumptions of the modules. Each theorem `Spec => []Inv` rests on an inductive invariant; the
invariants are worth reading, since they say *why* the code is right.

Two further assumptions occur, as hypotheses of the theorems that need them:

- **`AtomicWrites`**: a journal write that does not run to its end leaves nothing, or, in a
  crash, everything; an error leaves nothing. It is needed: without it `AckedSurvives`
  fails, as the run `lost_ack` shows, and with one more record before the last start of
  that trace so does `GapFree`.
- **`"backdated" \in SealRefuses`**: the external log refuses to go back in time, as the comment
  at store.rs:159-160 has it. Only `ViewsAreOneLog` and `SettledViewsAlwaysStand` need it: in a
  log that is out of order, the state at a moment is not a prefix of it. The repository does
  not show the code that would decide it, and every theorem on the store does without.

**`IssuerStoreProofs`.**
- Without assumption: `TypeCorrect`, and `LossIsBounded`. `LossBound` is not inductive: the
  loss shows only after a restart. `LossInv` counts the acknowledged records that stand on no
  whole line *now*, plus one if the file ends in a piece of a line, against `damaged`.
- Under `AtomicWrites`:
  - `Durability`, and its parts `FileIsTheLog` and `NumbersAreGapFree`: memory is the journal,
    numbers are gap-free, acknowledged records are in the file. After a crash the memory is
    empty and nothing ties it to the file. `JournalInv` adds that every line is a whole record
    carrying its number, that the memory is a prefix of the file at all times, that the
    replay position is the length of that prefix, and that `acked` lies in the file.
  - `BindingsAlwaysResolve` and `NothingIsEdited`: replay re-applies a binding without
    looking its profile up, and a creation without looking whether the id is in use.
    `OrderInv` adds why this is harmless: the *file* creates each id once and registers
    a profile before any binding to it, and the maps hold exactly what the applied
    prefix of the file created and registered.

**`IssuerStoreTrailProofs`**, under `AtomicWrites`, whatever the log refuses.
`SignaturesAlwaysVerify`, `StatusIsChained`, `AckedEventsAreSealed`, and the refinement
`StoreImplementsTrail`. Replay re-applies an append without its checks. `DocumentInv` says that
it need not make them: each append in the *file* carries the number, and starts from the status,
that the events taken before it give (`JournalFits`), and a document's sealed events are those
that its log took of the applied prefix (`SealedFollowsLog`). A step of the store is then a
step of the trail when it completes a line, and a stutter otherwise; crashes and replay are
stutters. The result that `apply` drops shows in `Settled`: an event stands under its number if
and only if the log did not refuse it as dated back. This survives later appends
(`SettledKept`), since the event that then takes the number of a refused one is dated no
earlier than its predecessor, and the refused one was.

**`RegistryForwardingProofs`**, for any number of requests and restarts. `TypeCorrect`,
`AuthorityIsTrue`, `ForwardedIsKnown`: `NoFalseAuthority` is not inductive since an acceptance
can be under way; `IInv` adds that every acceptance on the wire is held, what each stage of a
handler implies about outcome and reply, and that a forwarded binding names a profile
that is still known. `RecordedOnce` and `OrdersAgreeAlways`: `OrderInv` ties each record to its
request, and says that whatever was confirmed before a request came stands before it in both
orders, as soon as it stands in either (`Precedence`). `TrailIsKept`, the refinement of
`AuditTrail`: the profile map is what the records say (`ProfilesFollowRecords`), so that the check
against the map, made again under the second lock, is the trail's own.

**`PassportLogReplayProofs`**, for logs of any length. `ReplayMeans` and `SafetyNeverCleared` without
assumption: `EndMeaning` speaks of the state the loop ends in, in which both flags are kept,
since the one shown hides the other. `ViewsAreOneLog` and `SettledViewsAlwaysStand` if the log
refuses backdated events: it is then in order (`InOrder`), and what had occurred at a moment
is a prefix of it.

**`SigningKeysProofs`**, for any suites, lists and number of starts. `TypeCorrect`, `PolicyIsAsAsked`,
`SlotsAreAnchored`, `PolicyPacksCoverAnchors`, `AuditIsAlwaysExact`, `VerdictsAreCausal`,
`LegsAlwaysAgree`, from one invariant: the keys of a service that is up are derived from its
policy (`Running`), a signature over a sealed event keeps its place (`Sealed`), the slots of a
pack come from one seed (`Minted`), and each leg of a verdict is computed from the log it
shows (`Judged`). What deduplication keeps (`DistinctKeeps`) and that the policy read
back from the keys is the policy (`UpHasKeys`) are lemmas. The cryptography is ideal, by
the model.

**`ReadsProofs`**, for any number of requests, windows, instants, passports and records, and any
page size. `TypeCorrect`; `AnswersAlwaysStand` and `OwnWriteIsRead`: a request under way has been so at
every moment since its stamp (`UnderwaySince`), so a record can only reach back to moments at
which it was already pending; and the record it makes is the one it built (`Stamped`).
`LogPagesAreExact`: the client's offset lies in the log, and a page joins on to what was
read (`PagesJoin`). `WalksMissNothing` and `EveryPageBrings`: `OnTheWay` says that whatever was
there from the beginning and has its place behind the client's offset has been seen.
Creations push passports towards the end, past the offset, never back before it. These
assume that time does not run backwards.

**`HttpClientProofs`**, for responses with any number of chunks of any length, cut into any
segments. `TypeCorrect`, `BodyIsAlwaysTheServers`, `NeverWaitsWhenComplete`. `Layout` says
where everything is in a chunked response; `Stage` says where the decoding loop stands after n
passes over what has arrived of it: it has put out the first n chunks, or come to the
end of a well-formed response, or found that something is missing. A CRLF in the data does
not mislead it since it is only looked for right after a size line. The invariant then needs
that a client that reads on does so for an incomplete body (`Waiting`).

**Induction over data.** The library's induction theorems cannot be instantiated here. The
lemmas do without: a statement about all n up to a bound is proved by taking the *least*
counterexample (`LeastNat` of `OrdinalsProofs`), and a recursive function is first shown to
satisfy its equation (`DecodingDefined`, `TakenDefined` and the like), the same way. Definitions
that the code writes as a filter or a sort are given through the n-th member of a set
(`Ordinals`), about which the lemmas of `OrdinalsProofs` are.

**Checked by TLC only.** Every liveness property (`RequestAnswered`, `Finishes`: fairness and
`ENABLED` are out of this prover's reach). `NumbersDrift`, and `StatusChain` when writes tear (run
`store_torn`): the theorem on the latter assumes `AtomicWrites`. The four properties shown violated need
no proof. Every other invariant, action property and refinement of the passing runs is
stated by a theorem.

## 5. Not modelled

- The loss of data the operating system had accepted: the code never calls `fsync`, so
  a power failure can lose any suffix of the file. A crash here is that of the process.
- Payload parsing (`events.rs`), request parsing, the bearer check, stamps: stateless.
- `Url::parse` and `encode_query_component`: functions on strings.
- Freshness, coverage and the core verdict, which other crates compute.
- The listing of profiles, which is not paged, and the filter of bindings by product type.
- A clock that is set back: `Timestamp::now` is taken to be monotonic in `Reads`.
- Fields that the model's operations do not have, among them those the forwarded bodies drop.
- The text form of a timestamp: `ReadsOwnWrite` and its theorem take it that an instant comes
  back unchanged when it is formatted for a reply and parsed again from `?at=`, which
  `unidpp_time` decides.
- The key derivation itself: the issuer's anchors and the slots that `unidpp_cli` mints are
  derived by one formula. That the two crates agree on it is assumed by `SlotAnchored`; which
  suites they derive for, and from which seed, is modelled.
- The sizes of packs, beyond the fact that some may not fit.
- A panic under the lock, and the widths of integers: sequence numbers are bounded by
  the number of lines in a file.

## 6. Plan

Done in this order, the most important behaviour first: `PassportLog`, `IssuerStore`
with its refinement of `AuditTrail`, `RegistryForwarding`, `HttpClient`, `SigningKeys`,
the first theorems of section 4, then the views of `PassportLogReplay`, `Reads`, and the
orders of `RegistryForwarding`; then the theorems on the safety properties of every module and
on the two refinements. Still to do:

1. `NumbersDrift` for all constants: its invariant has to count, like `LossInv`, the lines that
   are lost to each record's number.
2. `StatusChain` without `AtomicWrites`: in a log rebuilt from a damaged file the chain holds
   for another reason (an append that does not carry the next number is refused by the
   log), if it refuses gaps.
3. `ViewsAreOneLog` for a log that takes backdated events, as far as it holds.
4. A common theorem for the store and the handlers: the store of `RegistryForwarding` is the
   profile map of `IssuerStore` under its assumptions.

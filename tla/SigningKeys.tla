------------------------------ MODULE SigningKeys ------------------------------
(****************************************************************************)
(* The issuer's keys across restarts, and what is signed and re-verified    *)
(* with them: the pack-suite policy and the keyring (src/src/keyring.rs),   *)
(* the mode decided by the environment (Config::from_env), event signing,   *)
(* minting packs and the verdict of one passport (src/src/api.rs).          *)
(*                                                                          *)
(* A restart may bring other settings, while the log, its signatures and    *)
(* the profiles come back from the journal (IssuerStore).  Cryptography is  *)
(* ideal: a key is the suite and the seed material it comes from, and a     *)
(* signature verifies under the key that made it, over what it was made of. *)
(* The unidpp_signatif, unidpp_cli, unidpp_tier_a and unidpp_event crates   *)
(* are modelled from the calls.  Left out: HTTP parsing, freshness and      *)
(* coverage of a verdict, encodings of a pack.                              *)
(****************************************************************************)
EXTENDS Ordinals, SequencesExt

CONSTANTS
    Suite,       \* the signature suites unidpp_signatif knows
    Carrier,     \* suites with a core carrier slot
    Computed,    \* suites this build computes
    Seed,        \* hex seeds an operator may set
    BadSeed,     \* values that are not hex, or too short
    DevSeed,     \* human-readable development seeds
    Body,        \* bodies of events, as the caller sends them
    Entry,       \* the passport's config vector
    Fits(_, _),  \* the pack made of these slots and this log is in the default QR budget
    MayRefuse,   \* EventLog::append may refuse (the code ignores that it did)
    MaxTokens,   \* bound: tokens of the environment's suite list
    MaxOverride, \* bound: tokens of a request's suite list
    MaxEvents,   \* bound: no append once log and signatures together reach it
    MaxBoots     \* bound: starts of the service

Unset == "unset"
UnknownToken == "unknown"
DEFAULT_DEV_SEED == "unidpp-issuer/dev-1"
DefaultSuite == "ecdsa-p256"
EventSuite == "ed25519"

ASSUME SigningKeysAssumption ==
    /\ {DefaultSuite, EventSuite} \subseteq Suite
    /\ UnknownToken \notin Suite
    /\ DefaultSuite \in Carrier \cap Computed
    /\ Carrier \cup Computed \subseteq Suite
    /\ Seed \cap BadSeed = {}
    /\ DEFAULT_DEV_SEED \in DevSeed
    /\ Unset \notin Seed \cup BadSeed \cup DevSeed
    /\ MayRefuse \in BOOLEAN
    /\ {MaxTokens, MaxOverride, MaxEvents, MaxBoots} \subseteq Nat

VARIABLES
    keyring,     \* the running service's Keyring, or Down
    asked,       \* history: the suite list it was started with
    boots,       \* starts so far (bound)
    log,         \* the passport's sealed events
    signatures,  \* its EventSignature records
    profiles,    \* profiles registered locally, by config entry
    pack,        \* the last pack handed out, or NoPack
    verdict      \* the verdict being computed or last returned

vars == <<keyring, asked, boots, log, signatures, profiles, pack, verdict>>

-------------------------------------------------------------------------------
(* Keys and packs as the crates derive them.                                 *)

Key(suite, material) == [suite |-> suite, material |-> material]

\* P-256 takes the seed as it is, every other suite hashes its name into it.
pack_suite_seed(seed, suite) ==
    IF suite = DefaultSuite THEN seed ELSE Append(seed, suite)

\* One carrier slot per suite, in order.
sign_pack_suites(seed, suites) ==
    [i \in DOMAIN suites |-> Key(suites[i], pack_suite_seed(seed, suites[i]))]

-------------------------------------------------------------------------------
(* PackSuites.  The empty selection stands for the refusal: no selection the *)
(* code hands out is empty.                                                  *)

\* Where a suite is named for the first time.
Firsts(suites) ==
    {i \in DOMAIN suites : \A j \in 1 .. i - 1 : suites[j] # suites[i]}

Distinct(suites) == Picked(Firsts(suites), suites)

\* Mutant: duplicates are kept.
parse_KeepsDuplicates(tokens) ==
    IF Range(tokens) \subseteq Carrier \cap Computed THEN tokens ELSE <<>>

\* An environment variable or a body names suites; blanks are skipped.
parse(tokens) ==
    IF Range(tokens) \subseteq Carrier \cap Computed THEN Distinct(tokens)
    ELSE <<>>

\* Mutant: the policy is taken to be the default suite.
collect_suites_First(keys) == <<keys[1].suite>>

\* keyring_suites: the policy read back from the keys.
collect_suites(keys) == Distinct([i \in DOMAIN keys |-> keys[i].suite])

\* Mutant: every suite takes the seed as it is.
derive_pack_keys_Verbatim(seed, suites) ==
    [i \in DOMAIN suites |-> Key(suites[i], seed)]

derive_pack_keys(seed, suites) ==
    [i \in DOMAIN suites |-> Key(suites[i], pack_suite_seed(seed, suites[i]))]

-------------------------------------------------------------------------------
(* The keyring and the environment.                                          *)

Down == [mode |-> "down", event_key |-> Key(EventSuite, <<>>),
         pack_keys |-> <<>>, pack_seed |-> <<>>]

with_pack_suites(seed, suites) ==
    LET dev_seed == IF seed = Unset THEN DEFAULT_DEV_SEED ELSE seed
    IN  [mode      |-> "seeded-dev",
         event_key |-> Key(EventSuite, <<"event", dev_seed>>),
         pack_keys |-> derive_pack_keys(<<"pack", dev_seed>>, suites),
         pack_seed |-> <<"pack", dev_seed>>]

from_env_seeds_with(event, seed, suites) ==
    [mode      |-> "env-key",
     event_key |-> Key(EventSuite, <<event>>),
     pack_keys |-> derive_pack_keys(<<seed>>, suites),
     pack_seed |-> <<seed>>]

\* A blank UNIDPP_ISSUER_PACK_SUITE counts as unset; a list of separators does
\* not, and is refused.
SuiteList(max) ==
    [set : {FALSE}, tokens : {<<>>}]
    \cup [set : {TRUE},
          tokens : BoundedSeq(Suite \cup {UnknownToken}, max)]

Environment == [event : Seed \cup BadSeed \cup {Unset},
                pack  : Seed \cup BadSeed \cup {Unset},
                dev   : DevSeed \cup {Unset},
                suite : SuiteList(MaxTokens)]

Policy(env) == IF env.suite.set THEN parse(env.suite.tokens)
               ELSE <<DefaultSuite>>

\* Mutant: a list that names no suite is let through.
Refused_NotForEmpty(env) ==
    \/ Policy(env) = <<>> /\ env.suite.tokens # <<>>
    \/ (env.event = Unset) # (env.pack = Unset)
    \/ {env.event, env.pack} \cap BadSeed # {}

\* No usable suite, one seed without the other, or a seed that is no seed.
Refused(env) ==
    \/ Policy(env) = <<>>
    \/ (env.event = Unset) # (env.pack = Unset)
    \/ {env.event, env.pack} \cap BadSeed # {}

from_env(env) ==
    IF env.event = Unset THEN with_pack_suites(env.dev, Policy(env))
    ELSE from_env_seeds_with(env.event, env.pack, Policy(env))

\* pack_anchors, and the suites map of /keyring.
Anchors == Range(keyring.pack_keys)

-------------------------------------------------------------------------------
(* The verdict's legs, computed from the record cloned under the first lock. *)

\* Signatures that verify under the event key over the event they name.
audit_event_signatures ==
    {i \in DOMAIN signatures :
        LET sig == signatures[i]
        IN  /\ sig.seq + 1 \in DOMAIN log
            /\ log[sig.seq + 1].body = sig.body
            /\ sig.key = keyring.event_key}

\* The pack as /pack would mint it, or none when the one made of this log exceeds the
\* budget.
tier_a_verdict_leg ==
    LET slots == sign_pack_suites(keyring.pack_seed,
                                  collect_suites(keyring.pack_keys))
        shown == [slots |-> slots, len |-> Len(log),
                  verified |-> {i \in DOMAIN slots : slots[i] \in Anchors}]
    IN  {t \in {shown} : Fits(slots, log)}

config_resolution == Entry \cap profiles

-------------------------------------------------------------------------------

\* policy_of: the start whose policy and default budget the pack was minted under.
NoPack == [policy_of |-> 0, seed |-> <<>>, slots |-> <<>>]

NoVerdict == [pc |-> "idle", log |-> <<>>, audit |-> {}, tier_a |-> {},
              config |-> {}]

\* Config::from_env, then AppState::new.  A refusal ends the process before it
\* serves anything, which leaves it Down.
Boot ==
    /\ keyring.mode = "down"
    /\ boots < MaxBoots
    /\ boots' = boots + 1
    /\ \E env \in Environment :
        /\ ~Refused(env)
        /\ keyring' = from_env(env)
        /\ asked' = env.suite
    /\ UNCHANGED <<log, signatures, profiles, pack, verdict>>

\* Mutant: profiles are kept in memory only.
Stop_ForgetsProfiles ==
    /\ keyring.mode # "down"
    /\ keyring' = Down
    /\ verdict' = NoVerdict
    /\ profiles' = {}
    /\ UNCHANGED <<asked, boots, log, signatures, pack>>

\* The process ends, and a request in flight with it; what the journal holds
\* comes back with the next start.
Stop ==
    /\ keyring.mode # "down"
    /\ keyring' = Down
    /\ verdict' = NoVerdict
    /\ UNCHANGED <<asked, boots, log, signatures, profiles, pack>>

\* Mutant: the signature counts signatures, not events.
append_event_CountsSignatures(body, sign, sealed) ==
    /\ keyring.mode # "down"
    /\ Len(log) + Len(signatures) < MaxEvents
    /\ sealed \/ MayRefuse
    /\ log' = IF sealed THEN Append(log, [body |-> body, known |-> profiles])
              ELSE log
    /\ signatures' =
        IF sign THEN Append(signatures, [seq |-> Len(signatures), body |-> body,
                                         key |-> keyring.event_key,
                                         sealed |-> sealed])
        ELSE signatures
    /\ UNCHANGED <<keyring, asked, boots, profiles, pack, verdict>>

\* The seq and the signature are made under the lock.  The signature is kept
\* whether or not the log took the event.
append_event(body, sign, sealed) ==
    /\ keyring.mode # "down"
    /\ Len(log) + Len(signatures) < MaxEvents
    /\ sealed \/ MayRefuse
    /\ log' = IF sealed THEN Append(log, [body |-> body, known |-> profiles])
              ELSE log
    /\ signatures' =
        IF sign THEN Append(signatures, [seq |-> Len(log), body |-> body,
                                         key |-> keyring.event_key,
                                         sealed |-> sealed])
        ELSE signatures
    /\ UNCHANGED <<keyring, asked, boots, profiles, pack, verdict>>

register_profile(entry) ==
    /\ keyring.mode # "down"
    /\ profiles' = profiles \cup {entry}
    /\ UNCHANGED <<keyring, asked, boots, log, signatures, pack, verdict>>

\* The body's suite list overrides the policy for this pack, and its budget the
\* default one, for which any pack may be small enough.  A list that parse
\* refuses, or a pack over budget, changes nothing.
mint_pack(list, sign, default_budget) ==
    LET suites == IF list.set THEN parse(list.tokens)
                  ELSE collect_suites(keyring.pack_keys)
        slots == IF sign THEN sign_pack_suites(keyring.pack_seed, suites)
                 ELSE <<>>
    IN  /\ keyring.mode # "down"
        /\ suites # <<>>
        /\ default_budget => Fits(slots, log)
        /\ pack' = [policy_of |-> IF ~list.set /\ sign /\ default_budget
                                  THEN boots ELSE 0,
                    seed |-> keyring.pack_seed, slots |-> slots]
        /\ UNCHANGED <<keyring, asked, boots, log, signatures, profiles,
                       verdict>>

\* The first lock: the record is cloned and every leg but one computed from it.
\* A pack over budget answers the whole request with an error.
passport_verdict ==
    /\ keyring.mode # "down"
    /\ verdict.pc \in {"idle", "returned"}
    /\ verdict' = [NoVerdict EXCEPT
                    !.pc = IF tier_a_verdict_leg = {} THEN "returned"
                           ELSE "resolving",
                    !.log = log,
                    !.audit = audit_event_signatures,
                    !.tier_a = tier_a_verdict_leg]
    /\ UNCHANGED <<keyring, asked, boots, log, signatures, profiles, pack>>

\* Mutant: the record is read again under the second lock.
passport_verdict_config_Reread ==
    /\ verdict.pc = "resolving"
    /\ verdict' = [verdict EXCEPT !.pc = "returned", !.log = log,
                                  !.config = config_resolution]
    /\ UNCHANGED <<keyring, asked, boots, log, signatures, profiles, pack>>

\* The second lock: the config vector against the profiles of this moment.
passport_verdict_config ==
    /\ verdict.pc = "resolving"
    /\ verdict' = [verdict EXCEPT !.pc = "returned",
                                  !.config = config_resolution]
    /\ UNCHANGED <<keyring, asked, boots, log, signatures, profiles, pack>>

-------------------------------------------------------------------------------

Init ==
    /\ keyring = Down
    /\ asked = [set |-> FALSE, tokens |-> <<>>]
    /\ boots = 0
    /\ log = <<>>
    /\ signatures = <<>>
    /\ profiles = {}
    /\ pack = NoPack
    /\ verdict = NoVerdict

Next ==
    \/ Boot
    \/ Stop
    \/ \E body \in Body, sign, sealed \in BOOLEAN :
            append_event(body, sign, sealed)
    \/ \E entry \in Entry : register_profile(entry)
    \/ \E list \in SuiteList(MaxOverride), sign, default_budget \in BOOLEAN :
            mint_pack(list, sign, default_budget)
    \/ passport_verdict
    \/ passport_verdict_config

Spec == Init /\ [][Next]_vars

-------------------------------------------------------------------------------

Up == keyring.mode # "down"

Selection == {asked.tokens[i] : i \in DOMAIN asked.tokens}

FirstMention(suite) ==
    CHOOSE i \in DOMAIN asked.tokens :
        /\ asked.tokens[i] = suite
        /\ \A j \in 1..i - 1 : asked.tokens[j] # suite

Material == Seed \cup DevSeed \cup Suite \cup {"event", "pack"}

Slots == Seq([suite : Suite, material : Seq(Material)])

\* Every variable has its type, a service that is up has a pack key, and what was
\* signed or seen was sealed and registered.
TypeOK ==
    /\ keyring.mode \in {"down", "seeded-dev", "env-key"}
    /\ keyring.event_key.suite = EventSuite
    /\ keyring.pack_keys \in Slots
    /\ Up <=> keyring.pack_keys # <<>>
    /\ asked \in SuiteList(MaxTokens)
    /\ boots \in 0..MaxBoots
    /\ Len(log) + Len(signatures) <= MaxEvents + 1
    /\ \A i \in DOMAIN log : log[i].body \in Body /\ log[i].known \subseteq profiles
    /\ \A i \in DOMAIN signatures : signatures[i].seq <= Len(log)
    /\ profiles \subseteq Entry
    /\ pack.slots \in Slots
    /\ verdict.pc \in {"idle", "resolving", "returned"}

\* The keys a service runs with are the suites it was asked for: every one that
\* was named, once, in the order of first mention, and each able to sign packs.
\* The first is what the single-suite response fields advertise.
\* (PackSuites::parse and derive_pack_keys, src/src/keyring.rs:109-138, 198-210)
PolicyAsAsked ==
    LET suite(i) == keyring.pack_keys[i].suite
        keys == DOMAIN keyring.pack_keys
    IN  Up =>
        /\ \A i \in keys : suite(i) \in Carrier \cap Computed
        /\ asked.set => {suite(i) : i \in keys} = Selection
        /\ ~asked.set => \A i \in keys : suite(i) = DefaultSuite
        /\ \A i, j \in keys : i < j =>
                asked.set /\ FirstMention(suite(i)) < FirstMention(suite(j))

\* A pack handed out now or before a restart verifies under the anchors that
\* are published now exactly where the seed is still the one that signed it and
\* the suite belongs to the policy: a slot that a request asked for outside the
\* policy has no anchor, and no slot verifies under another seed's.
\* (derive_pack_keys against sign_pack_suites, src/src/keyring.rs:193-210)
SlotAnchored ==
    Up => \A i \in DOMAIN pack.slots :
            pack.slots[i] \in Anchors <=>
                /\ pack.seed = keyring.pack_seed
                /\ \E k \in Anchors : k.suite = pack.slots[i].suite

\* A pack minted under the policy, and the pack the verdict mints for itself,
\* carry one slot for each published anchor, and the verdict verifies them all.
\* (README.md:114-115; mint_pack and tier_a_verdict_leg, src/src/api.rs)
PolicyPackCoversAnchors ==
    Up =>
    /\ pack.policy_of = boots => Range(pack.slots) = Anchors
    /\ \A t \in verdict.tier_a :
        /\ Range(t.slots) = Anchors
        /\ t.verified = DOMAIN t.slots

\* The verdict's self-audit raises no false alarm: a signature the running key
\* made over an event that the log took verifies, whatever was appended,
\* refused or re-keyed around it.  What it reports as failed is a signature of
\* another start's key, or one whose event never entered the log.
\* (sign_event, append_event, audit_event_signatures, src/src/api.rs:478-546, 906-942)
AuditIsExact ==
    Up => \A i \in DOMAIN signatures :
        LET sig == signatures[i]
        IN  /\ sig.key = keyring.event_key /\ sig.sealed =>
                    i \in audit_event_signatures
            /\ i \in audit_event_signatures =>
                    /\ sig.key = keyring.event_key
                    /\ \/ sig.sealed
                       \/ log[sig.seq + 1].body = sig.body

\* The verdict releases the store between its legs and its config vector, and
\* is still causal: an event it shows was appended after some profiles had been
\* registered, and it resolves every entry those stand for.
\* (the two locks of passport_verdict, src/src/api.rs:1086, 1123)
VerdictIsCausal ==
    verdict.pc = "returned" /\ verdict.tier_a # {} =>
        \A i \in DOMAIN verdict.log : verdict.log[i].known \subseteq verdict.config

\* The legs of one verdict speak of one log, although events are appended while
\* it is being computed.  (the clone under the first lock, src/src/api.rs:1085-1088)
LegsAgree ==
    /\ \A t \in verdict.tier_a : t.len = Len(verdict.log)
    /\ \A i \in verdict.audit : signatures[i].seq < Len(verdict.log)
===============================================================================

--------------------------- MODULE SigningKeysProofs ---------------------------
(****************************************************************************)
(* Theorems about SigningKeys, for any suites, seeds and settings, and any  *)
(* number of starts.                                                        *)
(****************************************************************************)
EXTENDS SigningKeys, OrdinalsProofs

--------------------------------------------------------------------------------
(* Lists of suites.                                                         *)

NoTwice(list) == \A i, j \in DOMAIN list : list[i] = list[j] => i = j

\* A bounded sequence is a sequence.
LEMMA BoundedIsSeq ==
    ASSUME NEW S, NEW m \in Nat, NEW list \in BoundedSeq(S, m)
    PROVE  list \in Seq(S)
<1>1. PICK k \in 0 .. m : list \in [1 .. k -> S]
  BY DEF BoundedSeq, SeqOf
<1>. QED BY <1>1

\* What deduplication keeps: each suite that is named, once, in the order of first mention.
LEMMA DistinctKeeps ==
    ASSUME NEW S, NEW list \in Seq(S)
    PROVE  LET kept == Distinct(list)
               place(k) == Nth(Firsts(list), k) IN
           /\ kept \in Seq(S) /\ NoTwice(kept) /\ Range(kept) = Range(list)
           /\ \A k \in DOMAIN kept : place(k) \in Firsts(list) /\ kept[k] = list[place(k)]
           /\ \A k, l \in DOMAIN kept : k < l => place(k) < place(l)
           /\ kept = <<>> <=> list = <<>>
<1>. DEFINE n == Len(list)
            F == Firsts(list)
            kept == Distinct(list)
            place(k) == Nth(F, k)
<1>1. n \in Nat /\ DOMAIN list = 1 .. n /\ \A i \in 1 .. n : list[i] \in S
  OBVIOUS
<1>2. /\ F \in SUBSET (1 .. n)
      /\ \A i \in F : i \in 1 .. n /\ \A j \in 1 .. i - 1 : list[j] # list[i]
      /\ \A i \in 1 .. n : (\A j \in 1 .. i - 1 : list[j] # list[i]) => i \in F
  BY DEF Firsts
<1>3. Cardinality(F) \in Nat
  BY <1>1, <1>2, InitialFinite
<1>4. /\ kept = [k \in 1 .. Cardinality(F) |-> list[place(k)]]
      /\ DOMAIN kept = 1 .. Cardinality(F)
  BY DEF Distinct, Picked
<1>. HIDE DEF n, F, kept
<1>5. \A k \in 1 .. Cardinality(F) : place(k) \in F
  BY <1>1, <1>2, NthExists
<1>6. \A k \in 1 .. Cardinality(F) : kept[k] = list[place(k)] /\ kept[k] \in S
  BY <1>1, <1>2, <1>4, <1>5
<1>7. kept \in Seq(S)
  <2>1. kept \in [1 .. Cardinality(F) -> S]
    BY <1>4, <1>6
  <2>. QED BY <1>3, <2>1
<1>8. \A k, l \in 1 .. Cardinality(F) : k < l => place(k) < place(l)
  BY <1>1, <1>2, NthIncreases
<1>9. \A k, l \in 1 .. Cardinality(F) : k < l => kept[k] # kept[l]
  <2>. SUFFICES ASSUME NEW k \in 1 .. Cardinality(F), NEW l \in 1 .. Cardinality(F), k < l
                PROVE  kept[k] # kept[l]
    OBVIOUS
  <2>1. place(k) \in 1 .. n /\ place(l) \in 1 .. n /\ place(k) < place(l) /\ place(l) \in F
    BY <1>2, <1>5, <1>8
  <2>. HIDE DEF place
  <2>2. place(k) \in 1 .. place(l) - 1
    BY <1>1, <2>1
  <2>. QED BY <1>2, <1>6, <2>1, <2>2
<1>10. NoTwice(kept)
  <2>. SUFFICES ASSUME NEW k \in DOMAIN kept, NEW l \in DOMAIN kept, kept[k] = kept[l]
                PROVE  k = l
    BY DEF NoTwice
  <2>1. ~(k < l) /\ ~(l < k)
    BY <1>4, <1>9
  <2>2. k \in Nat /\ l \in Nat
    BY <1>3, <1>4
  <2>. QED BY <2>1, <2>2
<1>11. ASSUME NEW i \in 1 .. n
       PROVE  \E k \in 1 .. Cardinality(F) : kept[k] = list[i]
  <2>. DEFINE Same == {j \in 1 .. n : list[j] = list[i]}
  <2>1. Same \subseteq Nat /\ i \in Same
    BY <1>1
  <2>2. PICK m \in Same : \A j \in Same : m <= j
    <3>. HIDE DEF Same
    <3>. QED BY <2>1, LeastNat
  <2>3. \A j \in 1 .. m - 1 : j \in 1 .. n /\ ~(m <= j)
    BY <1>1, <2>2
  <2>4. m \in F
    BY <1>2, <2>2, <2>3
  <2>5. /\ Cardinality(UpTo(F, m)) \in 1 .. Cardinality(F)
        /\ Nth(F, Cardinality(UpTo(F, m))) = m
    BY <1>1, <1>2, <2>4, NthCovers
  <2>. QED BY <1>6, <2>2, <2>5
<1>12. Range(kept) = Range(list)
  <2>1. \A x \in Range(kept) : x \in Range(list)
    BY <1>1, <1>2, <1>4, <1>5, <1>6 DEF Range
  <2>2. \A x \in Range(list) : x \in Range(kept)
    BY <1>1, <1>4, <1>11 DEF Range
  <2>. QED BY <2>1, <2>2
<1>13. kept = <<>> <=> list = <<>>
  <2>1. kept = <<>> => Range(kept) = {}
    BY DEF Range
  <2>2. list = <<>> => Range(list) = {}
    BY DEF Range
  <2>3. kept # <<>> => Range(kept) # {}
    <3>1. kept # <<>> => 1 \in DOMAIN kept
      BY <1>7
    <3>. QED BY <3>1 DEF Range
  <2>4. list # <<>> => Range(list) # {}
    <3>1. list # <<>> => 1 \in DOMAIN list
      OBVIOUS
    <3>. QED BY <3>1 DEF Range
  <2>. QED BY <1>12, <2>1, <2>2, <2>3, <2>4
<1>. QED BY <1>4, <1>5, <1>6, <1>7, <1>8, <1>10, <1>12, <1>13 DEF F, kept

\* A list that names nothing twice is kept as it is.
LEMMA DistinctStays ==
    ASSUME NEW S, NEW list \in Seq(S), NoTwice(list)
    PROVE  Distinct(list) = list
<1>. DEFINE n == Len(list)
<1>1. n \in Nat /\ DOMAIN list = 1 .. n
  OBVIOUS
<1>2. ASSUME NEW i \in 1 .. n, NEW j \in 1 .. i - 1 PROVE list[j] # list[i]
  <2>1. j \in 1 .. n /\ j # i
    BY <1>1
  <2>. QED BY <1>1, <2>1 DEF NoTwice
<1>3. Firsts(list) = 1 .. n
  BY <1>1, <1>2 DEF Firsts
<1>4. Distinct(list) = SubSeq(list, 1, n)
  BY <1>1, <1>3, PickedPrefix DEF Distinct
<1>5. SubSeq(list, 1, n) = list
  OBVIOUS
<1>. QED BY <1>4, <1>5

--------------------------------------------------------------------------------
(* Policies and the keys derived from them.                                 *)

KeyType == [suite : Suite, material : Seq(Material)]

\* The policy of a suite list that may be set or not.
PolicyOf(list) == IF list.set THEN parse(list.tokens) ELSE <<DefaultSuite>>

\* What parse lets through can sign packs, and names nothing twice.
LEMMA ParseKeeps ==
    ASSUME NEW m \in Nat, NEW list \in SuiteList(m), list.set, parse(list.tokens) # <<>>
    PROVE  /\ list.tokens \in Seq(Carrier \cap Computed)
           /\ parse(list.tokens) = Distinct(list.tokens)
           /\ parse(list.tokens) \in Seq(Carrier \cap Computed)
           /\ NoTwice(parse(list.tokens))
<1>. DEFINE tokens == list.tokens
            S == Suite \cup {UnknownToken}
<1>1. tokens \in BoundedSeq(S, m)
  BY DEF SuiteList
<1>2. tokens \in Seq(S)
  BY <1>1, BoundedIsSeq
<1>3. Range(tokens) \subseteq Carrier \cap Computed /\ parse(tokens) = Distinct(tokens)
  BY DEF parse
<1>. HIDE DEF tokens
<1>4. tokens \in Seq(Carrier \cap Computed)
  <2>1. \A i \in DOMAIN tokens : tokens[i] \in Carrier \cap Computed
    BY <1>3 DEF Range
  <2>2. Len(tokens) \in Nat /\ tokens = [i \in 1 .. Len(tokens) |-> tokens[i]]
    BY <1>2
  <2>3. DOMAIN tokens = 1 .. Len(tokens)
    BY <1>2
  <2>. QED BY <2>1, <2>2, <2>3
<1>5. Distinct(tokens) \in Seq(Carrier \cap Computed) /\ NoTwice(Distinct(tokens))
  BY <1>4, DistinctKeeps
<1>. QED BY <1>3, <1>4, <1>5 DEF tokens

\* What the policy parser keeps.
LEMMA PolicyKeeps ==
    ASSUME NEW m \in Nat, NEW list \in SuiteList(m), PolicyOf(list) # <<>>
    PROVE  /\ PolicyOf(list) \in Seq(Carrier \cap Computed) /\ NoTwice(PolicyOf(list))
           /\ PolicyOf(list) \in Seq(Suite)
<1>1. Carrier \cap Computed \subseteq Suite /\ DefaultSuite \in Carrier \cap Computed
  BY SigningKeysAssumption DEF SigningKeysAssumption
<1>2. PolicyOf(list) \in Seq(Carrier \cap Computed) /\ NoTwice(PolicyOf(list))
  <2>1. CASE list.set
    BY <2>1, ParseKeeps DEF PolicyOf
  <2>2. CASE ~list.set
    BY <1>1, <2>2 DEF PolicyOf, NoTwice
  <2>. QED BY <2>1, <2>2
<1>. QED BY <1>1, <1>2

\* The keys of a list of suites: one for each, from which the list can be read back when it
\* names nothing twice.  A pack signed for the list carries the same keys.
LEMMA KeysOfSuites ==
    ASSUME NEW suites \in Seq(Suite), NEW seed \in Seq(Material)
    PROVE  LET keys == derive_pack_keys(seed, suites) IN
           /\ keys \in Slots /\ sign_pack_suites(seed, suites) = keys
           /\ DOMAIN keys = DOMAIN suites
           /\ \A i \in DOMAIN suites :
                /\ keys[i] = Key(suites[i], pack_suite_seed(seed, suites[i]))
                /\ keys[i].suite = suites[i]
           /\ keys = <<>> <=> suites = <<>>
           /\ NoTwice(suites) => collect_suites(keys) = suites
<1>. DEFINE keys == derive_pack_keys(seed, suites)
<1>1. Len(suites) \in Nat /\ DOMAIN suites = 1 .. Len(suites)
      /\ \A i \in 1 .. Len(suites) : suites[i] \in Suite
  OBVIOUS
<1>2. \A s \in Suite : pack_suite_seed(seed, s) \in Seq(Material)
  <2>1. Suite \subseteq Material
    BY DEF Material
  <2>. HIDE DEF Material
  <2>. QED BY <2>1 DEF pack_suite_seed
<1>3. keys = [i \in 1 .. Len(suites) |-> Key(suites[i], pack_suite_seed(seed, suites[i]))]
  BY <1>1 DEF derive_pack_keys
<1>4. keys = sign_pack_suites(seed, suites)
  BY DEF derive_pack_keys, sign_pack_suites
<1>. HIDE DEF keys
<1>5. \A i \in 1 .. Len(suites) :
        /\ keys[i] = Key(suites[i], pack_suite_seed(seed, suites[i]))
        /\ keys[i].suite = suites[i]
        /\ keys[i] \in KeyType
  BY <1>1, <1>2, <1>3 DEF Key, KeyType
<1>6. keys \in [1 .. Len(suites) -> KeyType]
  BY <1>3, <1>5
<1>7. keys \in Seq(KeyType)
  BY <1>1, <1>6
<1>8. [i \in DOMAIN keys |-> keys[i].suite] = suites
  <2>1. suites = [i \in 1 .. Len(suites) |-> suites[i]] /\ DOMAIN keys = 1 .. Len(suites)
    BY <1>1, <1>6
  <2>. QED BY <1>5, <2>1
<1>9. NoTwice(suites) => collect_suites(keys) = suites
  BY <1>8, DistinctStays DEF collect_suites
<1>10. keys = <<>> <=> suites = <<>>
  BY <1>1, <1>6, <1>7
<1>11. keys \in Slots
  BY <1>7 DEF Slots, KeyType
<1>. QED BY <1>1, <1>4, <1>5, <1>6, <1>9, <1>10, <1>11 DEF keys

--------------------------------------------------------------------------------
(* The inductive invariant.                                                 *)

LogEvent == [body : Body, known : SUBSET Entry]

Signature == [seq : Nat, body : Body, key : KeyType, sealed : BOOLEAN]

TierA == [slots : Slots, len : Nat, verified : SUBSET Nat]

Verdict == [pc : {"idle", "resolving", "returned"}, log : Seq(LogEvent),
            audit : SUBSET Nat, tier_a : SUBSET TierA, config : SUBSET Entry]

\* A service that is up runs with the keys of the policy it was asked for; one that is
\* down has no keys and no request.
Running ==
    /\ keyring.mode \in {"down", "seeded-dev", "env-key"}
    /\ keyring.event_key \in KeyType /\ keyring.event_key.suite = EventSuite
    /\ keyring.pack_seed \in Seq(Material)
    /\ asked \in SuiteList(MaxTokens) /\ boots \in 0 .. MaxBoots
    /\ Up => /\ boots # 0 /\ PolicyOf(asked) # <<>>
             /\ keyring.pack_keys = derive_pack_keys(keyring.pack_seed, PolicyOf(asked))
    /\ ~Up => keyring.pack_keys = <<>> /\ verdict = NoVerdict

\* A signature over an event that the log took names its place, which it keeps; and what
\* an event could refer to is still registered.
Sealed ==
    /\ log \in Seq(LogEvent) /\ signatures \in Seq(Signature)
    /\ Len(log) + Len(signatures) <= MaxEvents + 1
    /\ profiles \subseteq Entry
    /\ \A i \in DOMAIN log : log[i].known \subseteq profiles
    /\ \A i \in DOMAIN signatures :
        LET sig == signatures[i] IN
        /\ sig.seq <= Len(log)
        /\ sig.sealed => sig.seq + 1 \in DOMAIN log /\ log[sig.seq + 1].body = sig.body

\* The slots of the last pack come from one seed; those of a pack minted under the
\* policy in force are the service's keys.
Minted ==
    /\ pack.policy_of \in 0 .. boots
    /\ pack.seed \in Seq(Material)
    /\ \E suites \in Seq(Suite) : pack.slots = sign_pack_suites(pack.seed, suites)
    /\ Up /\ pack.policy_of = boots => pack.slots = keyring.pack_keys

\* Each leg of a verdict is computed from the log it shows, which was registered for.
Judged ==
    /\ verdict \in Verdict
    /\ \A i \in DOMAIN verdict.log : verdict.log[i].known \subseteq profiles
    /\ verdict.pc = "resolving" => verdict.tier_a # {}
    /\ \A t \in verdict.tier_a :
        /\ t.slots = keyring.pack_keys /\ t.verified = DOMAIN t.slots
        /\ t.len = Len(verdict.log)
    /\ \A i \in verdict.audit :
        i \in DOMAIN signatures /\ signatures[i].seq < Len(verdict.log)
    /\ VerdictIsCausal

IInv == Running /\ Sealed /\ Minted /\ Judged

\* A service that is up has keys for its policy, which can be read back from them, and the
\* pack signed for it carries them.
LEMMA UpHasKeys ==
    ASSUME Running, Up
    PROVE  /\ keyring.pack_keys \in Slots /\ keyring.pack_keys # <<>>
           /\ collect_suites(keyring.pack_keys) = PolicyOf(asked)
           /\ sign_pack_suites(keyring.pack_seed, PolicyOf(asked)) = keyring.pack_keys
           /\ PolicyOf(asked) \in Seq(Suite)
<1>1. MaxTokens \in Nat
  BY SigningKeysAssumption DEF SigningKeysAssumption
<1>2. PolicyOf(asked) \in Seq(Suite) /\ NoTwice(PolicyOf(asked)) /\ PolicyOf(asked) # <<>>
  BY <1>1, PolicyKeeps DEF Running
<1>3. /\ keyring.pack_seed \in Seq(Material)
      /\ keyring.pack_keys = derive_pack_keys(keyring.pack_seed, PolicyOf(asked))
  BY DEF Running
<1>. QED BY <1>2, <1>3, KeysOfSuites

\* The keyring of an environment that is not refused.
LEMMA StartedKeyring ==
    ASSUME NEW env \in Environment, ~Refused(env)
    PROVE  LET ring == from_env(env) IN
           /\ ring.mode \in {"seeded-dev", "env-key"}
           /\ ring.event_key \in KeyType /\ ring.event_key.suite = EventSuite
           /\ ring.pack_seed \in Seq(Material)
           /\ env.suite \in SuiteList(MaxTokens) /\ PolicyOf(env.suite) # <<>>
           /\ ring.pack_keys = derive_pack_keys(ring.pack_seed, PolicyOf(env.suite))
<1>. DEFINE ring == from_env(env)
<1>1. /\ env.event \in Seed \cup BadSeed \cup {Unset} /\ env.pack \in Seed \cup BadSeed \cup {Unset}
      /\ env.dev \in DevSeed \cup {Unset} /\ env.suite \in SuiteList(MaxTokens)
  BY DEF Environment
<1>2. Policy(env) = PolicyOf(env.suite) /\ Policy(env) # <<>>
  BY DEF Policy, PolicyOf, Refused
<1>3. EventSuite \in Suite /\ DEFAULT_DEV_SEED \in DevSeed
  BY SigningKeysAssumption DEF SigningKeysAssumption
<1>4. /\ Seed \subseteq Material /\ DevSeed \subseteq Material
      /\ "event" \in Material /\ "pack" \in Material
  BY DEF Material
<1>. HIDE DEF Material
<1>5. CASE env.event = Unset
  <2>. DEFINE dev == IF env.dev = Unset THEN DEFAULT_DEV_SEED ELSE env.dev
  <2>1. dev \in Material
    BY <1>1, <1>3, <1>4
  <2>2. ring = [mode      |-> "seeded-dev",
                event_key |-> Key(EventSuite, <<"event", dev>>),
                pack_keys |-> derive_pack_keys(<<"pack", dev>>, Policy(env)),
                pack_seed |-> <<"pack", dev>>]
    BY <1>5 DEF from_env, with_pack_suites
  <2>. HIDE DEF dev
  <2>3. <<"event", dev>> \in Seq(Material) /\ <<"pack", dev>> \in Seq(Material)
    BY <1>4, <2>1
  <2>4. Key(EventSuite, <<"event", dev>>) \in KeyType
        /\ Key(EventSuite, <<"event", dev>>).suite = EventSuite
    BY <1>3, <2>3 DEF Key, KeyType
  <2>. QED BY <1>1, <1>2, <2>2, <2>3, <2>4
<1>6. CASE env.event # Unset
  <2>1. env.event \in Material /\ env.pack \in Material
    <3>1. env.pack # Unset /\ env.event \notin BadSeed /\ env.pack \notin BadSeed
      BY <1>6, Zenon DEF Refused
    <3>. QED BY <1>1, <1>4, <1>6, <3>1
  <2>2. ring = [mode      |-> "env-key",
                event_key |-> Key(EventSuite, <<env.event>>),
                pack_keys |-> derive_pack_keys(<<env.pack>>, Policy(env)),
                pack_seed |-> <<env.pack>>]
    BY <1>6 DEF from_env, from_env_seeds_with
  <2>3. <<env.event>> \in Seq(Material) /\ <<env.pack>> \in Seq(Material)
    BY <2>1
  <2>4. Key(EventSuite, <<env.event>>) \in KeyType
        /\ Key(EventSuite, <<env.event>>).suite = EventSuite
    BY <1>3, <2>3 DEF Key, KeyType
  <2>. QED BY <1>1, <1>2, <2>2, <2>3, <2>4
<1>. QED BY <1>5, <1>6

\* The invariant holds initially.
LEMMA InitStep == Init => IInv
<1>. SUFFICES ASSUME Init PROVE IInv
  OBVIOUS
<1>. USE DEF Init
<1>0. MaxBoots \in Nat /\ MaxTokens \in Nat /\ MaxEvents \in Nat /\ EventSuite \in Suite
  BY SigningKeysAssumption DEF SigningKeysAssumption
<1>1. Running
  <2>1. keyring.event_key = Key(EventSuite, <<>>) /\ Key(EventSuite, <<>>) \in KeyType
        /\ Key(EventSuite, <<>>).suite = EventSuite
    BY <1>0 DEF Down, Key, KeyType
  <2>2. asked \in SuiteList(MaxTokens)
    BY DEF SuiteList
  <2>. QED BY <1>0, <2>1, <2>2 DEF Running, Up, Down
<1>2. Sealed
  BY <1>0 DEF Sealed
<1>3. Minted
  <2>1. <<>> \in Seq(Suite) /\ <<>> \in Seq(Material)
    OBVIOUS
  <2>2. sign_pack_suites(<<>>, <<>>) = <<>>
    BY <2>1, KeysOfSuites
  <2>3. /\ pack.seed = <<>> /\ pack.slots = <<>> /\ pack.policy_of = 0
        /\ keyring.mode = "down"
    BY DEF NoPack, Down
  <2>4. \E suites \in Seq(Suite) : pack.slots = sign_pack_suites(pack.seed, suites)
    BY <2>1, <2>2, <2>3
  <2>. QED BY <2>1, <2>3, <2>4 DEF Minted, Up
<1>4. Judged
  BY DEF Judged, NoVerdict, Verdict, VerdictIsCausal
<1>. QED BY <1>1, <1>2, <1>3, <1>4 DEF IInv

\* A start: no pack handed out before was minted under the new policy.
LEMMA BootStep ==
    ASSUME IInv, Boot
    PROVE  IInv'
<1>. USE DEF IInv
<1>1. /\ ~Up /\ boots < MaxBoots /\ boots' = boots + 1
      /\ UNCHANGED <<log, signatures, profiles, pack, verdict>>
  BY DEF Boot, Up
<1>2. PICK env \in Environment :
        ~Refused(env) /\ keyring' = from_env(env) /\ asked' = env.suite
  BY DEF Boot
<1>3. verdict = NoVerdict /\ boots \in 0 .. MaxBoots /\ MaxBoots \in Nat
  BY <1>1, SigningKeysAssumption DEF Running, SigningKeysAssumption
<1>4. Running'
  BY <1>1, <1>2, <1>3, StartedKeyring DEF Running, Up
<1>5. Sealed'
  BY <1>1 DEF Sealed
<1>6. Minted'
  <2>1. pack.policy_of \in 0 .. boots' /\ pack.policy_of # boots'
    BY <1>1, <1>3 DEF Minted
  <2>. QED BY <1>1, <2>1 DEF Minted
<1>7. Judged'
  BY <1>1, <1>3 DEF Judged, NoVerdict, VerdictIsCausal
<1>. QED BY <1>4, <1>5, <1>6, <1>7

\* Stopping keeps the invariant.
LEMMA StopStep ==
    ASSUME IInv, Stop
    PROVE  IInv'
<1>. USE DEF IInv
<1>1. /\ keyring' = Down /\ verdict' = NoVerdict
      /\ UNCHANGED <<asked, boots, log, signatures, profiles, pack>>
  BY DEF Stop
<1>2. Running'
  <2>1. Key(EventSuite, <<>>) \in KeyType /\ Key(EventSuite, <<>>).suite = EventSuite
    BY SigningKeysAssumption DEF Key, KeyType, SigningKeysAssumption
  <2>. QED BY <1>1, <2>1 DEF Running, Up, Down
<1>3. Sealed'
  BY <1>1 DEF Sealed
<1>4. Minted'
  BY <1>1 DEF Minted, Up, Down
<1>5. Judged'
  BY <1>1 DEF Judged, NoVerdict, Verdict, VerdictIsCausal
<1>. QED BY <1>2, <1>3, <1>4, <1>5

\* An event: its signature names the place the log gives it, if the log takes it.
LEMMA AppendStep ==
    ASSUME IInv, NEW body \in Body, NEW sign \in BOOLEAN, NEW sealed \in BOOLEAN,
           append_event(body, sign, sealed)
    PROVE  IInv'
<1>. USE DEF IInv
<1>. DEFINE n == Len(log)
            m == Len(signatures)
            event == [body |-> body, known |-> profiles]
            sig == [seq |-> n, body |-> body, key |-> keyring.event_key, sealed |-> sealed]
<1>1. /\ Up /\ n + m < MaxEvents
      /\ log' = IF sealed THEN Append(log, event) ELSE log
      /\ signatures' = IF sign THEN Append(signatures, sig) ELSE signatures
      /\ UNCHANGED <<keyring, asked, boots, profiles, pack, verdict>>
  BY DEF append_event, Up
<1>2. /\ log \in Seq(LogEvent) /\ signatures \in Seq(Signature)
      /\ event \in LogEvent /\ sig \in Signature
      /\ n \in Nat /\ m \in Nat /\ MaxEvents \in Nat
      /\ DOMAIN log = 1 .. n /\ DOMAIN signatures = 1 .. m
  BY SigningKeysAssumption DEF Sealed, Running, LogEvent, Signature, SigningKeysAssumption
<1>3. /\ event.known = profiles /\ event.body = body
      /\ sig.seq = n /\ sig.body = body /\ sig.sealed = sealed
  OBVIOUS
<1>. HIDE DEF event, sig
<1>4. /\ log' \in Seq(LogEvent) /\ Len(log') \in {n, n + 1}
      /\ \A i \in 1 .. n : i \in DOMAIN log' /\ log'[i] = log[i]
      /\ \A i \in DOMAIN log' : i \in 1 .. n \/ log'[i] = event
      /\ sealed => n + 1 \in DOMAIN log' /\ log'[n + 1] = event
  BY <1>1, <1>2
<1>5. /\ signatures' \in Seq(Signature) /\ Len(signatures') \in {m, m + 1}
      /\ \A i \in 1 .. m : i \in DOMAIN signatures' /\ signatures'[i] = signatures[i]
      /\ \A i \in DOMAIN signatures' : i \in 1 .. m \/ signatures'[i] = sig
  BY <1>1, <1>2
<1>6. Running'
  BY <1>1 DEF Running, Up
<1>7. Sealed'
  <2>1. Len(log') + Len(signatures') <= MaxEvents + 1
    <3>. HIDE DEF n, m
    <3>1. n + m < MaxEvents /\ n \in Nat /\ m \in Nat /\ MaxEvents \in Nat
      BY <1>1, <1>2
    <3>2. \A a \in {n, n + 1} : \A b \in {m, m + 1} : a + b <= MaxEvents + 1
      BY <3>1
    <3>. QED BY <1>4, <1>5, <3>2
  <2>2. \A i \in DOMAIN log' : log'[i].known \subseteq profiles
    BY <1>2, <1>3, <1>4 DEF Sealed
  <2>3. ASSUME NEW i \in DOMAIN signatures'
        PROVE  /\ signatures'[i].seq <= Len(log')
               /\ signatures'[i].sealed => /\ signatures'[i].seq + 1 \in DOMAIN log'
                                           /\ log'[signatures'[i].seq + 1].body
                                                    = signatures'[i].body
    <3>1. CASE i \in 1 .. m
      <4>1. signatures'[i] = signatures[i] /\ signatures[i].seq \in Nat
        <5>1. \A x \in Signature : x.seq \in Nat
          BY DEF Signature
        <5>2. signatures[i] \in Signature
          BY <1>2, <3>1
        <5>. QED BY <1>5, <3>1, <5>1, <5>2
      <4>2. signatures[i].seq <= n
        BY <1>2, <3>1 DEF Sealed
      <4>3. signatures[i].sealed => /\ signatures[i].seq + 1 \in 1 .. n
                                   /\ log[signatures[i].seq + 1].body = signatures[i].body
        BY <1>2, <3>1 DEF Sealed
      <4>. QED BY <1>2, <1>4, <4>1, <4>2, <4>3
    <3>2. CASE signatures'[i] = sig
      BY <1>2, <1>3, <1>4, <3>2
    <3>. QED BY <1>5, <3>1, <3>2
  <2>. QED BY <1>1, <1>4, <1>5, <2>1, <2>2, <2>3 DEF Sealed
<1>8. Minted'
  BY <1>1 DEF Minted, Up
<1>9. Judged'
  <2>1. \A i \in verdict.audit : i \in DOMAIN signatures'
                                 /\ signatures'[i].seq < Len(verdict.log)
    BY <1>2, <1>5 DEF Judged
  <2>. QED BY <1>1, <2>1 DEF Judged, VerdictIsCausal
<1>. QED BY <1>6, <1>7, <1>8, <1>9

\* Profiles are only added.
LEMMA ProfileStep ==
    ASSUME IInv, NEW entry \in Entry, register_profile(entry)
    PROVE  IInv'
<1>. USE DEF IInv
<1>1. /\ profiles' = profiles \cup {entry}
      /\ UNCHANGED <<keyring, asked, boots, log, signatures, pack, verdict>>
  BY DEF register_profile
<1>2. Running' /\ Minted'
  BY <1>1 DEF Running, Minted, Up
<1>3. Sealed'
  BY <1>1 DEF Sealed
<1>4. Judged'
  BY <1>1 DEF Judged, VerdictIsCausal
<1>. QED BY <1>2, <1>3, <1>4

\* A pack: signed for the policy, its slots are the keys the service publishes.
LEMMA MintStep ==
    ASSUME IInv, NEW list \in SuiteList(MaxOverride), NEW sign \in BOOLEAN,
           NEW default_budget \in BOOLEAN, mint_pack(list, sign, default_budget)
    PROVE  IInv'
<1>. USE DEF IInv
<1>. DEFINE suites == IF list.set THEN parse(list.tokens)
                      ELSE collect_suites(keyring.pack_keys)
            slots == IF sign THEN sign_pack_suites(keyring.pack_seed, suites) ELSE <<>>
            policy_of == IF ~list.set /\ sign /\ default_budget THEN boots ELSE 0
<1>1. /\ Up /\ suites # <<>>
      /\ pack' = [policy_of |-> policy_of, seed |-> keyring.pack_seed, slots |-> slots]
      /\ UNCHANGED <<keyring, asked, boots, log, signatures, profiles, verdict>>
  BY DEF mint_pack, Up
<1>2. /\ collect_suites(keyring.pack_keys) = PolicyOf(asked)
      /\ sign_pack_suites(keyring.pack_seed, PolicyOf(asked)) = keyring.pack_keys
      /\ PolicyOf(asked) \in Seq(Suite)
  BY <1>1, UpHasKeys
<1>3. suites \in Seq(Suite)
  <2>1. CASE list.set
    <3>1. MaxOverride \in Nat /\ Carrier \cap Computed \subseteq Suite
      BY SigningKeysAssumption DEF SigningKeysAssumption
    <3>2. suites \in Seq(Carrier \cap Computed)
      BY <1>1, <2>1, <3>1, ParseKeeps
    <3>. QED BY <3>1, <3>2
  <2>2. CASE ~list.set
    BY <1>2, <2>2
  <2>. QED BY <2>1, <2>2
<1>4. \E used \in Seq(Suite) : slots = sign_pack_suites(keyring.pack_seed, used)
  <2>1. CASE sign
    BY <1>3, <2>1
  <2>2. CASE ~sign
    <3>1. <<>> \in Seq(Suite) /\ keyring.pack_seed \in Seq(Material)
      BY DEF Running
    <3>2. sign_pack_suites(keyring.pack_seed, <<>>) = <<>>
      BY <3>1, KeysOfSuites
    <3>. QED BY <2>2, <3>1, <3>2
  <2>. QED BY <2>1, <2>2
<1>5. boots \in Nat /\ boots # 0 /\ MaxBoots \in Nat
  BY <1>1, SigningKeysAssumption DEF Running, SigningKeysAssumption
<1>6. policy_of = boots => slots = keyring.pack_keys
  <2>. SUFFICES ASSUME policy_of = boots PROVE slots = keyring.pack_keys
    OBVIOUS
  <2>1. ~list.set /\ sign /\ default_budget
    BY <1>5
  <2>. QED BY <1>1, <1>2, <2>1
<1>7. policy_of \in 0 .. boots
  BY <1>5
<1>8. pack'.policy_of = policy_of /\ pack'.seed = keyring.pack_seed /\ pack'.slots = slots
  BY <1>1
<1>. HIDE DEF slots, policy_of, suites
<1>9. Minted'
  <2>1. keyring.pack_seed \in Seq(Material)
    BY DEF Running
  <2>. QED BY <1>1, <1>4, <1>6, <1>7, <1>8, <2>1 DEF Minted, Up
<1>10. Running'
  BY <1>1 DEF Running, Up
<1>11. Sealed'
  BY <1>1 DEF Sealed
<1>12. Judged'
  BY <1>1 DEF Judged, VerdictIsCausal
<1>. QED BY <1>9, <1>10, <1>11, <1>12

\* The verdict's pack has the slots of the service's keys, each of which it verifies.
LEMMA TierALeg ==
    ASSUME Running, Sealed, Up
    PROVE  /\ tier_a_verdict_leg \in SUBSET TierA
           /\ \A t \in tier_a_verdict_leg :
                t.slots = keyring.pack_keys /\ t.verified = DOMAIN t.slots /\ t.len = Len(log)
<1>. DEFINE keys == keyring.pack_keys
            shown == [slots |-> keys, len |-> Len(log),
                      verified |-> {i \in DOMAIN keys : keys[i] \in Anchors}]
<1>1. sign_pack_suites(keyring.pack_seed, collect_suites(keys)) = keys /\ keys \in Slots
  BY UpHasKeys
<1>2. tier_a_verdict_leg = {t \in {shown} : Fits(keys, log)}
  BY <1>1 DEF tier_a_verdict_leg
<1>3. {i \in DOMAIN keys : keys[i] \in Anchors} = DOMAIN keys
  BY DEF Anchors, Range
<1>4. shown \in TierA /\ shown.slots = keys /\ shown.verified = DOMAIN keys
      /\ shown.len = Len(log)
  <2>1. Len(log) \in Nat /\ DOMAIN keys \in SUBSET Nat
    BY <1>1 DEF Sealed, Slots
  <2>. QED BY <1>1, <1>3, <2>1 DEF TierA
<1>. HIDE DEF shown
<1>. QED BY <1>2, <1>4

\* The first lock.
LEMMA VerdictStep ==
    ASSUME IInv, passport_verdict
    PROVE  IInv'
<1>. USE DEF IInv
<1>. DEFINE pc == IF tier_a_verdict_leg = {} THEN "returned" ELSE "resolving"
<1>1. /\ Up
      /\ verdict' = [pc |-> pc, log |-> log, audit |-> audit_event_signatures,
                     tier_a |-> tier_a_verdict_leg, config |-> {}]
      /\ UNCHANGED <<keyring, asked, boots, log, signatures, profiles, pack>>
  BY DEF passport_verdict, NoVerdict, Up
<1>2. /\ tier_a_verdict_leg \in SUBSET TierA
      /\ \A t \in tier_a_verdict_leg :
            t.slots = keyring.pack_keys /\ t.verified = DOMAIN t.slots /\ t.len = Len(log)
  BY <1>1, TierALeg
<1>3. /\ audit_event_signatures \in SUBSET Nat
      /\ \A i \in audit_event_signatures :
            i \in DOMAIN signatures /\ signatures[i].seq < Len(log)
  <2>1. signatures \in Seq(Signature) /\ log \in Seq(LogEvent)
    BY DEF Sealed
  <2>2. \A i \in DOMAIN signatures : signatures[i].seq \in Nat
    <3>1. \A x \in Signature : x.seq \in Nat
      BY DEF Signature
    <3>. QED BY <2>1, <3>1
  <2>3. \A i \in audit_event_signatures :
            i \in DOMAIN signatures /\ signatures[i].seq + 1 \in DOMAIN log
    BY DEF audit_event_signatures
  <2>. QED BY <2>1, <2>2, <2>3
<1>4. Running' /\ Minted' /\ Sealed'
  BY <1>1 DEF Running, Minted, Sealed, Up
<1>5. /\ verdict'.pc = pc /\ verdict'.log = log /\ verdict'.audit = audit_event_signatures
      /\ verdict'.tier_a = tier_a_verdict_leg /\ verdict' \in Verdict
      /\ pc = "returned" => tier_a_verdict_leg = {}
      /\ pc = "resolving" => tier_a_verdict_leg # {}
      /\ pc # "idle"
  <2>1. log \in Seq(LogEvent) /\ {} \in SUBSET Entry
        /\ pc \in {"idle", "resolving", "returned"}
    BY DEF Sealed
  <2>. QED BY <1>1, <1>2, <1>3, <2>1 DEF Verdict
<1>. HIDE DEF pc
<1>6. Judged'
  <2>1. \A i \in DOMAIN log : log[i].known \subseteq profiles
    BY DEF Sealed
  <2>. QED BY <1>1, <1>2, <1>3, <1>5, <2>1 DEF Judged, VerdictIsCausal
<1>. QED BY <1>4, <1>6

\* The second lock: what the events shown could refer to is registered by now.
LEMMA VerdictConfigStep ==
    ASSUME IInv, passport_verdict_config
    PROVE  IInv'
<1>. USE DEF IInv
<1>1. /\ verdict.pc = "resolving"
      /\ verdict' = [verdict EXCEPT !.pc = "returned", !.config = Entry \cap profiles]
      /\ UNCHANGED <<keyring, asked, boots, log, signatures, profiles, pack>>
  BY DEF passport_verdict_config, config_resolution
<1>2. /\ verdict'.pc = "returned" /\ verdict'.log = verdict.log
      /\ verdict'.audit = verdict.audit /\ verdict'.tier_a = verdict.tier_a
      /\ verdict'.config = profiles /\ verdict' \in Verdict
  BY <1>1 DEF Judged, Verdict, Sealed
<1>3. Up
  BY <1>1 DEF Running, NoVerdict
<1>4. Running' /\ Minted' /\ Sealed'
  BY <1>1, <1>3 DEF Running, Minted, Sealed, Up
<1>5. Judged'
  BY <1>1, <1>2 DEF Judged, VerdictIsCausal
<1>. QED BY <1>4, <1>5

\* The invariant is inductive.
LEMMA Invariance == Spec => []IInv
<1>1. IInv /\ [Next]_vars => IInv'
  <2> SUFFICES ASSUME IInv, [Next]_vars PROVE IInv'
    OBVIOUS
  <2>1. CASE UNCHANGED vars
    <3>1. Running' /\ Minted' /\ Sealed'
      BY <2>1 DEF vars, IInv, Running, Minted, Sealed, Up
    <3>2. Judged'
      BY <2>1 DEF vars, IInv, Judged, VerdictIsCausal
    <3>. QED BY <3>1, <3>2 DEF IInv
  <2>. QED BY <2>1, BootStep, StopStep, AppendStep, ProfileStep, MintStep, VerdictStep,
              VerdictConfigStep DEF Next
<1>. QED BY <1>1, InitStep, PTL DEF Spec

--------------------------------------------------------------------------------
(* The theorems.                                                            *)

\* Each variable has its type, and a service has pack keys exactly while it is up.
THEOREM TypeCorrect == Spec => []TypeOK
<1>1. IInv => TypeOK
  <2>. SUFFICES ASSUME IInv PROVE TypeOK
    OBVIOUS
  <2>1. keyring.pack_keys \in Slots /\ (Up <=> keyring.pack_keys # <<>>)
    <3>1. CASE Up
      BY <3>1, UpHasKeys DEF IInv
    <3>2. CASE ~Up
      <4>1. <<>> \in Slots
        BY DEF Slots
      <4>. HIDE DEF Slots
      <4>2. keyring.pack_keys = <<>>
        BY <3>2 DEF IInv, Running
      <4>. QED BY <3>2, <4>1, <4>2
    <3>. QED BY <3>1, <3>2
  <2>2. pack.slots \in Slots
    BY KeysOfSuites DEF IInv, Minted
  <2>3. \A i \in DOMAIN log : log[i].body \in Body /\ log[i].known \subseteq profiles
    <3>1. \A x \in LogEvent : x.body \in Body
      BY DEF LogEvent
    <3>2. log \in Seq(LogEvent)
      BY DEF IInv, Sealed
    <3>. QED BY <3>1, <3>2 DEF IInv, Sealed
  <2>4. verdict.pc \in {"idle", "resolving", "returned"}
    BY DEF IInv, Judged, Verdict
  <2>. QED BY <2>1, <2>2, <2>3, <2>4 DEF IInv, Running, Sealed, TypeOK
<1>. QED BY <1>1, Invariance, PTL

\* A place where a suite is named for the first time is its first mention.
LEMMA FirstIsFirstMention ==
    ASSUME NEW S, asked.tokens \in Seq(S), NEW i \in Firsts(asked.tokens)
    PROVE  FirstMention(asked.tokens[i]) = i
<1>. DEFINE n == Len(asked.tokens)
            suite == asked.tokens[i]
            IsFirst(k) == /\ asked.tokens[k] = suite
                          /\ \A j \in 1 .. k - 1 : asked.tokens[j] # suite
<1>1. n \in Nat /\ DOMAIN asked.tokens = 1 .. n
  OBVIOUS
<1>2. i \in 1 .. n /\ IsFirst(i)
  BY <1>1 DEF Firsts
<1>3. ASSUME NEW k \in 1 .. n, IsFirst(k) PROVE k = i
  <2>0. k \in Nat \ {0} /\ i \in Nat \ {0}
    <3>. HIDE DEF n, IsFirst
    <3>. QED BY <1>1, <1>2
  <2>1. ~(k < i) /\ ~(i < k)
    <3>1. k < i => k \in 1 .. i - 1
      <4>. HIDE DEF n, IsFirst
      <4>. QED BY <2>0
    <3>2. i < k => i \in 1 .. k - 1
      <4>. HIDE DEF n, IsFirst
      <4>. QED BY <2>0
    <3>. QED BY <1>2, <1>3, <3>1, <3>2
  <2>. HIDE DEF n, IsFirst
  <2>. QED BY <2>0, <2>1
<1>4. FirstMention(suite) = CHOOSE k \in 1 .. n : IsFirst(k)
  BY <1>1 DEF FirstMention
<1>. HIDE DEF IsFirst
<1>5. (CHOOSE k \in 1 .. n : IsFirst(k)) = i
  BY <1>2, <1>3
<1>. QED BY <1>4, <1>5

\* A service signs with the suites it was asked for and no other, each once, in the order
\* in which they were first named.
THEOREM PolicyIsAsAsked == Spec => []PolicyAsAsked
<1>1. IInv => PolicyAsAsked
  <2>. SUFFICES ASSUME IInv, Up PROVE PolicyAsAsked
    BY DEF PolicyAsAsked
  <2>. DEFINE policy == PolicyOf(asked)
              keys == keyring.pack_keys
  <2>1. MaxTokens \in Nat /\ asked \in SuiteList(MaxTokens) /\ policy # <<>>
    BY SigningKeysAssumption DEF SigningKeysAssumption, IInv, Running
  <2>2. policy \in Seq(Carrier \cap Computed) /\ policy \in Seq(Suite)
    BY <2>1, PolicyKeeps
  <2>3. DOMAIN keys = DOMAIN policy /\ \A i \in DOMAIN keys : keys[i].suite = policy[i]
    BY <2>2, KeysOfSuites DEF IInv, Running
  <2>. HIDE DEF keys
  <2>4. \A i \in DOMAIN keys : keys[i].suite \in Carrier \cap Computed
    BY <2>2, <2>3
  <2>5. CASE asked.set
    <3>. DEFINE tokens == asked.tokens
    <3>1. tokens \in Seq(Carrier \cap Computed) /\ policy = Distinct(tokens)
      BY <2>1, <2>5, ParseKeeps DEF PolicyOf
    <3>2. /\ Range(policy) = Range(tokens)
          /\ \A k \in DOMAIN policy : /\ Nth(Firsts(tokens), k) \in Firsts(tokens)
                                      /\ policy[k] = tokens[Nth(Firsts(tokens), k)]
          /\ \A k, l \in DOMAIN policy :
                k < l => Nth(Firsts(tokens), k) < Nth(Firsts(tokens), l)
      BY <3>1, DistinctKeeps
    <3>3. \A k \in DOMAIN policy : FirstMention(policy[k]) = Nth(Firsts(tokens), k)
      BY <3>1, <3>2, FirstIsFirstMention
    <3>4. {keys[i].suite : i \in DOMAIN keys} = Selection
      <4>1. {keys[i].suite : i \in DOMAIN keys} = Range(policy)
        <5>. HIDE DEF policy
        <5>. QED BY <2>3 DEF Range
      <4>2. Selection = Range(tokens)
        BY DEF Range, Selection
      <4>. QED BY <3>2, <4>1, <4>2
    <3>5. \A i, j \in DOMAIN keys : i < j =>
                FirstMention(keys[i].suite) < FirstMention(keys[j].suite)
      BY <2>3, <3>2, <3>3
    <3>. QED BY <2>4, <2>5, <3>4, <3>5 DEF PolicyAsAsked, keys
  <2>6. CASE ~asked.set
    <3>1. policy = <<DefaultSuite>>
      BY <2>6 DEF PolicyOf
    <3>2. DOMAIN keys = {1} /\ keys[1].suite = DefaultSuite
      BY <2>3, <3>1
    <3>3. \A i, j \in DOMAIN keys : ~(i < j)
      BY <3>2
    <3>. QED BY <2>4, <2>6, <3>2, <3>3 DEF PolicyAsAsked, keys
  <2>. QED BY <2>5, <2>6
<1>. QED BY <1>1, Invariance, PTL

\* A suite's key gives away its seed.
LEMMA SeedFromKey ==
    ASSUME NEW S, NEW a \in Seq(S), NEW b \in Seq(S), NEW suite \in S,
           pack_suite_seed(a, suite) = pack_suite_seed(b, suite)
    PROVE  a = b
<1>1. CASE suite = DefaultSuite
  BY <1>1 DEF pack_suite_seed
<1>2. CASE suite # DefaultSuite
  <2>1. Append(a, suite) = Append(b, suite)
    BY <1>2 DEF pack_suite_seed
  <2>2. Len(Append(a, suite)) = Len(a) + 1 /\ Len(Append(b, suite)) = Len(b) + 1
    OBVIOUS
  <2>3. Len(a) = Len(b) /\ Len(a) \in Nat
    BY <2>1, <2>2
  <2>4. \A i \in 1 .. Len(a) : Append(a, suite)[i] = a[i] /\ Append(b, suite)[i] = b[i]
    BY <2>3
  <2>5. a = [i \in 1 .. Len(a) |-> a[i]] /\ b = [i \in 1 .. Len(a) |-> b[i]]
    BY <2>3
  <2>. QED BY <2>1, <2>4, <2>5
<1>. QED BY <1>1, <1>2

\* A slot of any pack ever handed out verifies under a published anchor exactly if it was
\* signed with the seed in force for a suite of the policy in force.
THEOREM SlotsAreAnchored == Spec => []SlotAnchored
<1>1. IInv => SlotAnchored
  <2>. SUFFICES ASSUME IInv, Up, NEW i \in DOMAIN pack.slots
                PROVE  pack.slots[i] \in Anchors <=>
                            /\ pack.seed = keyring.pack_seed
                            /\ \E k \in Anchors : k.suite = pack.slots[i].suite
    BY DEF SlotAnchored
  <2>. DEFINE policy == PolicyOf(asked)
              seed == keyring.pack_seed
              KeyOf(from, suite) == Key(suite, pack_suite_seed(from, suite))
  <2>1. policy \in Seq(Suite) /\ seed \in Seq(Material) /\ pack.seed \in Seq(Material)
    BY UpHasKeys DEF IInv, Running, Minted
  <2>2. Anchors = {KeyOf(seed, policy[j]) : j \in DOMAIN policy}
    <3>1. /\ DOMAIN keyring.pack_keys = DOMAIN policy
          /\ \A j \in DOMAIN policy : keyring.pack_keys[j] = KeyOf(seed, policy[j])
      BY <2>1, KeysOfSuites DEF IInv, Running
    <3>. QED BY <3>1 DEF Anchors, Range
  <2>3. PICK suites \in Seq(Suite) : pack.slots = sign_pack_suites(pack.seed, suites)
    BY DEF IInv, Minted
  <2>4. i \in DOMAIN suites /\ suites[i] \in Suite
        /\ pack.slots[i] = KeyOf(pack.seed, suites[i])
    BY <2>1, <2>3, KeysOfSuites
  <2>5. \A from, suite : KeyOf(from, suite).suite = suite
                        /\ KeyOf(from, suite).material = pack_suite_seed(from, suite)
    BY DEF Key
  <2>. HIDE DEF KeyOf, policy, seed
  <2>6. ASSUME pack.slots[i] \in Anchors
        PROVE  pack.seed = seed
    <3>1. PICK j \in DOMAIN policy : pack.slots[i] = KeyOf(seed, policy[j])
      BY <2>2, <2>6
    <3>2. KeyOf(seed, policy[j]) = KeyOf(pack.seed, suites[i])
      BY <2>4, <3>1
    <3>3. policy[j] = suites[i]
      BY <2>5, <3>2
    <3>4. pack_suite_seed(seed, policy[j]) = pack_suite_seed(pack.seed, suites[i])
      BY <2>5, <3>2
    <3>5. Suite \subseteq Material
      BY DEF Material
    <3>6. /\ seed \in Seq(Material)
          /\ pack.seed \in Seq(Material)
          /\ suites[i] \in Material
          /\ pack_suite_seed(seed, suites[i]) = pack_suite_seed(pack.seed, suites[i])
      BY <2>1, <2>4, <3>3, <3>4, <3>5
    <3>. QED BY <3>6, SeedFromKey
  <2>7. ASSUME pack.seed = seed, NEW k \in Anchors, k.suite = pack.slots[i].suite
        PROVE  pack.slots[i] \in Anchors
    <3>1. PICK j \in DOMAIN policy : k = KeyOf(seed, policy[j])
      BY <2>2
    <3>2. policy[j] = suites[i]
      BY <2>4, <2>5, <2>7, <3>1
    <3>. QED BY <2>4, <2>7, <3>1, <3>2
  <2>. QED BY <2>6, <2>7 DEF seed
<1>. QED BY <1>1, Invariance, PTL

\* A pack minted under the policy in force, and a verdict's own, have exactly the published
\* anchors as slots, and the verdict verifies every one of them.
THEOREM PolicyPacksCoverAnchors == Spec => []PolicyPackCoversAnchors
<1>1. IInv => PolicyPackCoversAnchors
  BY DEF IInv, Minted, Judged, Anchors, PolicyPackCoversAnchors
<1>. QED BY <1>1, Invariance, PTL

\* A signature of the running key over an event the log took always verifies.
THEOREM AuditIsAlwaysExact == Spec => []AuditIsExact
<1>1. IInv => AuditIsExact
  BY DEF IInv, Sealed, AuditIsExact, audit_event_signatures
<1>. QED BY <1>1, Invariance, PTL

\* A verdict resolves every entry that was registered before an event it shows.
THEOREM VerdictsAreCausal == Spec => []VerdictIsCausal
<1>1. IInv => VerdictIsCausal
  BY DEF IInv, Judged
<1>. QED BY <1>1, Invariance, PTL

\* The legs of a verdict speak of one log.
THEOREM LegsAlwaysAgree == Spec => []LegsAgree
<1>1. IInv => LegsAgree
  BY DEF IInv, Judged, LegsAgree
<1>. QED BY <1>1, Invariance, PTL
================================================================================

---------------------------- MODULE UsageCapacity ----------------------------
(***************************************************************************)
(* The slots that capacity.py gives to accounts, from the cache of their       *)
(* usage that fetch_usage.py keeps (and a push agent beside it) and from the   *)
(* life of their logins.  Percentages are whole, quotients exact.              *)
(***************************************************************************)
EXTENDS Integers, FiniteSets, FiniteSetsExt

CONSTANTS
    Accounts,        \* account homes
    Profiles,        \* names of the cache's entries
    AccountOf,       \* accounts_config.json: the account of a profile
    FetchedAs,       \* and the profile that an account is fetched as
    Readings,        \* what the provider may say: [five, seven, soon]
    MaxPerAccount,
    Unmeasured,      \* an entry that says why there is no reading
    NoReading        \* no entry

ASSUME CapacityAssumption ==
    /\ IsFiniteSet(Accounts)
    /\ AccountOf \in [Profiles -> Accounts] /\ FetchedAs \in [Accounts -> Profiles]
    /\ MaxPerAccount \in Nat \ {0}
    /\ \A r \in Readings : r.five \in 0..100 /\ r.seven \in 0..100 /\ r.soon \in BOOLEAN

SkipThreshold == 5

VARIABLES
    usageCache,      \* ~/.claude-usage/usage_cache.json, by profile
    login            \* of an account: "none", "short" (a quarter of an hour) or "long"

capacityVars == <<usageCache, login>>

CapacityInit ==
    /\ usageCache = [p \in Profiles |-> NoReading]
    /\ login = [a \in Accounts |-> "long"]

-----------------------------------------------------------------------------
(* fetch_usage.py.                                                          *)

\* An account without a login is not asked; one that is may answer with headers,
\* refusing or not, without them, or not at all.
ResultOf(a, answers) == IF login[a] = "none" THEN Unmeasured ELSE answers[a]

\* update_cache keeps the entries that were not fetched, if the file can be read.
UpdateCache(results, readable) ==
    usageCache' = [p \in Profiles |->
                      IF p \in DOMAIN results THEN results[p]
                      ELSE IF readable THEN usageCache[p] ELSE NoReading]

\* All accounts are asked, or the one of --account; what they say is kept at the end, so
\* that a fetcher that is killed keeps nothing.
FetchUsage(asked, answers, readable) ==
    /\ UpdateCache([p \in {FetchedAs[a] : a \in asked} |->
                       ResultOf(CHOOSE a \in asked : FetchedAs[a] = p, answers)], readable)
    /\ UNCHANGED login

\* The agent on another machine pushes an entry (external).
PushUsage(p, reading) ==
    /\ usageCache' = [usageCache EXCEPT ![p] = reading]
    /\ UNCHANGED login

LoginChanges(a, state) ==
    /\ login' = [login EXCEPT ![a] = state]
    /\ UNCHANGED usageCache

CapacityNext ==
    \/ \E asked \in {Accounts} \cup {{a} : a \in Accounts}, readable \in BOOLEAN :
          \E answers \in [asked -> Readings \cup {Unmeasured}] :
             FetchUsage(asked, answers, readable)
    \/ \E p \in Profiles, reading \in Readings : PushUsage(p, reading)
    \/ \E a \in Accounts, state \in {"none", "short", "long"} : LoginChanges(a, state)

CapacitySpec == CapacityInit /\ [][CapacityNext]_capacityVars

-----------------------------------------------------------------------------
(* capacity.py, over the cache as it is.                                    *)

ProfilesRead(a) == {p \in Profiles : AccountOf[p] = a /\ usageCache[p] \in Readings}

\* Mutant: of several profiles of an account one counts.
MeasurementsOfOne(a) == {usageCache[p] : p \in {CHOOSE p \in ProfilesRead(a) : TRUE}}

\* load_usage: of several profiles of an account the most used counts.
Measurements(a) == {usageCache[p] : p \in ProfilesRead(a)}

\* Half, when nothing is known.
FiveRemaining(a) ==
    IF ProfilesRead(a) = {} THEN 50 ELSE 100 - Max({m.five : m \in Measurements(a)})

SevenRemaining(a) ==
    IF ProfilesRead(a) = {} THEN 50 ELSE 100 - Max({m.seven : m \in Measurements(a)})

\* Whether the week ends within two days, as the profile says that was read last, which
\* the order of the file decides.
ResetsSoon(a, last) == last[a] \in ProfilesRead(a) /\ usageCache[last[a]].soon

TokenOK(a) == login[a] = "long"

\* Mutant: a week that ends soon is no constraint.
EffectiveSevenBoldly(a, last) == IF ResetsSoon(a, last) THEN 100 ELSE SevenRemaining(a)

EffectiveSeven(a, last) ==
    IF ResetsSoon(a, last) /\ SevenRemaining(a) >= SkipThreshold THEN 100
    ELSE SevenRemaining(a)

CapacityScore(a, last) ==
    IF ~TokenOK(a) THEN 0 ELSE Min({FiveRemaining(a), EffectiveSeven(a, last)})

\* Python's round: halves go to the even neighbour.
RoundedQuotient(n, d) ==
    LET q == (2 * n + d) \div (2 * d)
    IN  IF (2 * n + d) % (2 * d) = 0 /\ q % 2 = 1 THEN q - 1 ELSE q

AtLeastOne(n) == Max({1, n})

RecommendedSlots(a, last) ==
    IF CapacityScore(a, last) < SkipThreshold THEN 0
    ELSE AtLeastOne(RoundedQuotient((CapacityScore(a, last) - SkipThreshold) * MaxPerAccount,
                                    100 - SkipThreshold))

Eligible(last) == {a \in Accounts : CapacityScore(a, last) >= SkipThreshold}

\* distribute_slots: by score, at least one each and no more than an account may have.
DistributedSlots(total, last) ==
    LET score == [a \in Accounts |-> CapacityScore(a, last)]
        totalScore == MapThenSumSet(LAMBDA a : score[a], Eligible(last))
        Share(a) == AtLeastOne(RoundedQuotient(score[a] * total, totalScore))
    IN  [a \in Accounts |-> IF a \in Eligible(last) THEN Min({MaxPerAccount, Share(a)}) ELSE 0]

-----------------------------------------------------------------------------
(* An account gets sessions only where they can run: neither the plan for    *)
(* one account nor the distribution gives a slot to an account without a     *)
(* login, or of which any profile's last reading says that the five hours or *)
(* the week are used up, whatever the others say, failed to say, or will     *)
(* soon; and none gets more than an account may have (load_usage,            *)
(* capacity_score, recommended_slots, distribute_slots).                     *)
SlotsAreSafe ==
    \A last \in [Accounts -> Profiles], a \in Accounts, total \in 1..(MaxPerAccount + 1) :
        LET exhausted == \E p \in ProfilesRead(a) :
                            \/ 100 - usageCache[p].five < SkipThreshold
                            \/ 100 - usageCache[p].seven < SkipThreshold
            given == {RecommendedSlots(a, last), DistributedSlots(total, last)[a]}
        IN  /\ exhausted \/ login[a] # "long" => given = {0}
            /\ \A n \in given : n <= MaxPerAccount
=============================================================================

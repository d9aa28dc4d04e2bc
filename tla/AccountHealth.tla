---------------------------- MODULE AccountHealth ----------------------------
(***************************************************************************)
(* The readiness of accounts (account_health.py, with the refresh of          *)
(* check_infra.py and headless_login.py): a state file that every command      *)
(* loads, changes and replaces without a lock, the live launchers that are     *)
(* entered in it, and the report that a launcher asks before it starts.        *)
(***************************************************************************)
EXTENDS Naturals, FiniteSets

CONSTANTS
    Homes,          \* account homes
    Launchers,      \* processes that run sessions on an account
    Commands,       \* processes of account_health.py that there may be at a time
    SessionsPerAccount,       \* sessions per account
    MaxCommands,    \* bound: commands
    Torn,           \* half a file
    NoTemp          \* there is no temporary file

\* The entries of account_health.json: whether an account is held, and who runs on it.
AccountStates == [Homes -> [held : BOOLEAN, active : SUBSET Launchers]]

ASSUME HealthAssumption ==
    /\ SessionsPerAccount \in Nat \ {0} /\ MaxCommands \in Nat /\ IsFiniteSet(Launchers)
    /\ Torn \notin AccountStates /\ NoTemp \notin AccountStates \cup {Torn}

\* What is left of a login: none, too little to start with, or enough (90 minutes).
Lives == {"expired", "low", "enough"}

VARIABLES
    life,           \* of the access token on file
    refreshes,      \* whether the provider honours the refresh token on file
    health,         \* account_health.json
    tempFile,       \* account_health.json.tmp
    command,        \* what each command is at
    launched,       \* of a launcher: where it is, and on which account
    operatorHolds,  \* history: accounts held, by a command that has returned
    overwrote,      \* history: a command has saved over what it had not read
    misreported,    \* history: accounts called ready that were not
    commandsRun

healthVars == <<life, refreshes, health, tempFile, command, launched, operatorHolds,
                overwrote, misreported, commandsRun>>

NoEntry == [held |-> FALSE, active |-> {}]
NoState == [h \in Homes |-> NoEntry]
NoCommand == [at |-> "none", op |-> "none", home |-> {}, who |-> {}, draft |-> NoState,
              stale |-> FALSE]

HealthInit ==
    /\ life \in [Homes -> {"enough"}] /\ refreshes = Homes
    /\ health = NoState /\ tempFile = NoTemp
    /\ command = [k \in Commands |-> NoCommand]
    /\ launched = [l \in Launchers |-> [at |-> "new", home |-> {}]]
    /\ operatorHolds = {} /\ overwrote = FALSE /\ misreported = {} /\ commandsRun = 0

\* pid_is_live
Live(l) == launched[l].at \in {"starting", "begun", "ending"}

BegunOn(h) == {l \in Launchers : launched[l].at = "begun" /\ launched[l].home = {h}}

\* A file that cannot be read is an empty one.
LoadState == IF health = Torn THEN NoState ELSE health

\* normalize_account_state: assignments of the dead are dropped, of the account at hand.
Normalized(state, homes) ==
    [h \in Homes |-> IF h \in homes
                     THEN [state[h] EXCEPT !.active = {l \in @ : Live(l)}] ELSE state[h]]

\* Mutant: a full account has room for one more.
IsReadyWhenFull(state, h) ==
    ~state[h].held /\ life[h] = "enough" /\ Cardinality(state[h].active) <= SessionsPerAccount

\* classify_account: not held, a login for long enough, and a free slot.
IsReady(state, h) ==
    ~state[h].held /\ life[h] = "enough" /\ Cardinality(state[h].active) < SessionsPerAccount

NotReady(h) ==
    h \in operatorHolds \/ life[h] # "enough" \/ Cardinality(BegunOn(h)) >= SessionsPerAccount

-----------------------------------------------------------------------------
(* The commands.                                                            *)

Loads(k, op, home, who, draft) ==
    /\ command[k].at = "none" /\ commandsRun < MaxCommands
    /\ commandsRun' = commandsRun + 1
    /\ command' = [command EXCEPT ![k] = [at |-> "loaded", op |-> op, home |-> home,
                                          who |-> who, draft |-> draft, stale |-> FALSE]]
    /\ UNCHANGED <<life, refreshes, health, tempFile, overwrote>>

\* status and preflight say which accounts are ready, and save what they have cleaned.
CollectAccountStatus(k) ==
    LET state == Normalized(LoadState, Homes)
        ready == {h \in Homes : IsReady(state, h)}
    IN  /\ Loads(k, "status", {}, {}, state)
        /\ misreported' = IF overwrote THEN misreported
                          ELSE misreported \cup {h \in ready : NotReady(h)}
        /\ UNCHANGED <<launched, operatorHolds>>

MarkAssignment(k, l, h) ==
    LET state == Normalized(LoadState, {h})
    IN  /\ launched[l].at = "new"
        /\ Loads(k, "begin", {h}, {l}, [state EXCEPT ![h].active = @ \cup {l}])
        /\ launched' = [launched EXCEPT ![l] = [at |-> "starting", home |-> {h}]]
        /\ UNCHANGED <<operatorHolds, misreported>>

EndAssignment(k, l, h) ==
    LET state == Normalized(LoadState, {h})
    IN  /\ launched[l] = [at |-> "begun", home |-> {h}]
        /\ Loads(k, "end", {h}, {l}, [state EXCEPT ![h].active = @ \ {l}])
        /\ launched' = [launched EXCEPT ![l].at = "ending"]
        /\ UNCHANGED <<operatorHolds, misreported>>

SetManualHold(k, h) ==
    /\ Loads(k, "hold", {h}, {}, [Normalized(LoadState, {h}) EXCEPT ![h].held = TRUE])
    /\ UNCHANGED <<launched, operatorHolds, misreported>>

ClearManualHold(k, h) ==
    /\ Loads(k, "release", {h}, {}, [Normalized(LoadState, {h}) EXCEPT ![h].held = FALSE])
    /\ operatorHolds' = operatorHolds \ {h}
    /\ UNCHANGED <<launched, misreported>>

MarkRateLimit(k, h) ==
    /\ Loads(k, "limit", {h}, {}, Normalized(LoadState, {h}))
    /\ UNCHANGED <<launched, operatorHolds, misreported>>

\* Mutant: the file itself is opened for writing.
OpenInPlace == tempFile' = Torn /\ health' = Torn

\* save_state opens one temporary file, the same for every command, ...
OpenTemp == tempFile' = Torn /\ UNCHANGED health

OpensTemp(k) ==
    /\ command[k].at = "loaded"
    /\ OpenTemp
    /\ LET sharing == {j \in Commands \ {k} : command[j].at \in {"writing", "written"}}
       IN  command' = [j \in Commands |->
                          [command[j] EXCEPT
                              !.at = IF j = k THEN "writing" ELSE @,
                              !.stale = \/ @ \/ j \in sharing
                                        \/ j = k /\ sharing # {}]]
    /\ UNCHANGED <<life, refreshes, launched, operatorHolds, overwrote, misreported,
                   commandsRun>>

\* ... writes what it has opened, which another command may have made the state, ...
WritesTemp(k) ==
    /\ \/ command[k].at = "writing" /\ tempFile' = command[k].draft
          /\ UNCHANGED <<health, overwrote>>
       \/ command[k].at = "writing the state" /\ health' = command[k].draft
          /\ overwrote' = TRUE /\ UNCHANGED tempFile
    /\ command' = [command EXCEPT ![k].at = "written"]
    /\ UNCHANGED <<life, refreshes, launched, operatorHolds, misreported, commandsRun>>

Returns(k, others) ==
    /\ command' = [others EXCEPT ![k] = NoCommand]
    /\ UNCHANGED <<life, refreshes, misreported, commandsRun>>

\* What the others have read is no longer what is there, and what they have opened is.
Outdated ==
    [j \in Commands |->
        [command[j] EXCEPT !.stale = TRUE,
                           !.at = IF @ = "writing" THEN "writing the state" ELSE @]]

\* ... and renames it, if another one has not done so.
ReplacesState(k) ==
    /\ command[k].at = "written"
    /\ IF tempFile = NoTemp
       THEN Returns(k, command)
            /\ UNCHANGED <<health, tempFile, launched, operatorHolds, overwrote>>
       ELSE /\ Returns(k, Outdated)
            /\ health' = tempFile /\ tempFile' = NoTemp
            /\ overwrote' = (overwrote \/ command[k].stale)
            /\ operatorHolds' = IF command[k].op = "hold"
                                THEN operatorHolds \cup command[k].home ELSE operatorHolds
            /\ launched' = [l \in Launchers |->
                               IF l \in command[k].who /\ Live(l)
                               THEN [launched[l] EXCEPT !.at =
                                        IF command[k].op = "begin" THEN "begun" ELSE "ended"]
                               ELSE launched[l]]

\* A command is killed, or its disk is full: what it has written stays.
CommandDies(k) ==
    /\ command[k].at # "none"
    /\ Returns(k, command)
    /\ UNCHANGED <<health, tempFile, launched, operatorHolds, overwrote>>

-----------------------------------------------------------------------------
(* Launchers and logins.                                                    *)

LauncherDies(l) ==
    /\ Live(l)
    /\ launched' = [launched EXCEPT ![l].at = "dead"]
    /\ UNCHANGED <<life, refreshes, health, tempFile, command, operatorHolds, overwrote,
                   misreported, commandsRun>>

TokenAges(h) ==
    /\ life' = [life EXCEPT ![h] = IF @ = "enough" THEN "low" ELSE "expired"]
    /\ UNCHANGED <<refreshes, health, tempFile, command, launched, operatorHolds, overwrote,
                   misreported, commandsRun>>

\* try_refresh_token, for a login that has expired: the answer counts as a success even
\* when it cannot be written, and the token that is left on file is used up.
RefreshToken(h) ==
    /\ life[h] = "expired" /\ h \in refreshes
    /\ \/ life' = [life EXCEPT ![h] = "enough"] /\ UNCHANGED refreshes
       \/ refreshes' = refreshes \ {h} /\ UNCHANGED life
    /\ UNCHANGED <<health, tempFile, command, launched, operatorHolds, overwrote,
                   misreported, commandsRun>>

\* login_account, by hand
LogIn(h) ==
    /\ life[h] = "expired"
    /\ life' = [life EXCEPT ![h] = "enough"] /\ refreshes' = refreshes \cup {h}
    /\ UNCHANGED <<health, tempFile, command, launched, operatorHolds, overwrote,
                   misreported, commandsRun>>

HealthNext ==
    \/ \E k \in Commands :
          \/ CollectAccountStatus(k) \/ OpensTemp(k) \/ WritesTemp(k) \/ ReplacesState(k)
          \/ CommandDies(k)
          \/ \E h \in Homes :
                \/ SetManualHold(k, h) \/ ClearManualHold(k, h) \/ MarkRateLimit(k, h)
                \/ \E l \in Launchers : MarkAssignment(k, l, h) \/ EndAssignment(k, l, h)
    \/ \E l \in Launchers : LauncherDies(l)
    \/ \E h \in Homes : TokenAges(h) \/ RefreshToken(h) \/ LogIn(h)

HealthSpec == HealthInit /\ [][HealthNext]_healthVars

-----------------------------------------------------------------------------
HealthTypeOK ==
    /\ life \in [Homes -> Lives] /\ refreshes \subseteq Homes
    /\ operatorHolds \subseteq Homes /\ commandsRun <= MaxCommands

(* The readiness of accounts survives commands that die at whatever step,   *)
(* and others that run beside them, until one saves what it read before the *)
(* last save or shares its temporary file: an account that an operator       *)
(* holds is held until it is released, a launcher that has begun and is      *)
(* alive takes its slot, and no report has called such an account ready, or  *)
(* one whose login is short (save_state, normalize_account_state,            *)
(* classify_account).                                                        *)
HoldsAndSlotsStand ==
    /\ ~overwrote =>
          /\ \A h \in operatorHolds : LoadState[h].held
          /\ \A h \in Homes : BegunOn(h) \subseteq LoadState[h].active
    /\ misreported = {}
=============================================================================

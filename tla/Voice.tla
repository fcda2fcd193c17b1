-------------------------------- MODULE Voice --------------------------------
(***************************************************************************)
(* The configured providers of speech (ai/audio_services). The rows of     *)
(* system_config are changed by an administrator's request in a thread;    *)
(* whoever transcribes or speaks resolves the provider on the event loop,  *)
(* one at a time, from a copy of the rows that the process keeps for a     *)
(* minute. The two rows are read by one query and written by one commit:   *)
(* here they are one configuration, numbered in the order of the commits.  *)
(* Time is that of the monotonic clock, which starts with the machine.     *)
(***************************************************************************)
EXTENDS Requests

CONSTANTS
    ConfigTtl,    \* _DB_CACHE_TTL
    MaxConfigs,   \* bound: configurations
    MaxUptime     \* bound of the clock

ASSUME VoiceAssumption == ConfigTtl \in Nat \ {0} /\ MaxConfigs \in Nat \ {0} /\ MaxUptime \in Nat

VARIABLES
    uptime,
    config,      \* the configuration in the database
    replaced,    \* when each of the earlier ones was replaced
    loaded,      \* the copy: [config, at, read], all 0 if there is none
    resolved     \* the last resolution: [config, at]

voiceVars == <<uptime, config, replaced, loaded, resolved>>

\* No row at all (0: the environment and "openai" decide), or those of
\* an earlier process. "read" is history: "at" without the invalidations.
VoiceInit ==
    /\ uptime = 0
    /\ config = 1
    /\ replaced = [c \in 0..MaxConfigs |-> IF c = 0 THEN 0 ELSE None]
    /\ loaded = [config |-> 0, at |-> 0, read |-> 0]
    /\ resolved = None

Resolving == AtStep("load") \union AtStep("loaded")

\* The providers of a configuration are used, as they were at the time.
Uses(c, at) == resolved' = [config |-> c, at |-> at]

\* Mutant: providers are resolved in threads, several at a time.
ResolveInThread(r) ==
    /\ TakenUp(r)
    /\ IF uptime - loaded.at < ConfigTtl
       THEN Ends(r) /\ Uses(loaded.config, uptime)
       ELSE Goes(r, [step |-> "load", at |-> uptime]) /\ UNCHANGED resolved
    /\ UNCHANGED <<uptime, config, replaced, loaded>>

\* get_stt, get_tts: the copy is used, or the time is kept for the new one.
Resolve(r) ==
    /\ TakenUp(r) /\ Resolving = {}
    /\ IF uptime - loaded.at < ConfigTtl
       THEN Ends(r) /\ Uses(loaded.config, uptime)
       ELSE Goes(r, [step |-> "load", at |-> uptime]) /\ UNCHANGED resolved
    /\ UNCHANGED <<uptime, config, replaced, loaded>>

ReadConfig(r) ==
    /\ At(r, "load")
    /\ Goes(r, [step |-> "loaded", at |-> req[r].at, config |-> config])
    /\ UNCHANGED voiceVars

KeepConfig(r) ==
    /\ At(r, "loaded")
    /\ loaded' = [config |-> req[r].config, at |-> req[r].at, read |-> req[r].at]
    /\ Uses(req[r].config, req[r].at)
    /\ Ends(r)
    /\ UNCHANGED <<uptime, config, replaced>>

\* The database does not answer: the copy is used, however old it is, and
\* the next resolution will try again.
LoadFails(r) ==
    /\ At(r, "load")
    /\ Uses(loaded.config, loaded.read)
    /\ Ends(r)
    /\ UNCHANGED <<uptime, config, replaced, loaded>>

UpdateVoiceConfig(r) ==
    /\ TakenUp(r)
    /\ config < MaxConfigs
    /\ config' = config + 1
    /\ replaced' = [replaced EXCEPT ![config] = uptime]
    /\ Goes(r, [step |-> "invalidate"])
    /\ UNCHANGED <<uptime, loaded, resolved>>

\* The time of the copy becomes 0.0, which is long ago unless the machine
\* has just started.
Invalidate(r) ==
    /\ At(r, "invalidate")
    /\ loaded' = [loaded EXCEPT !.at = 0]
    /\ Ends(r)
    /\ UNCHANGED <<uptime, config, replaced, resolved>>

Elapse ==
    /\ uptime < MaxUptime
    /\ uptime' = uptime + 1
    /\ UNCHANGED <<req, config, replaced, loaded, resolved>>

VoiceNext ==
    \/ \E r \in Requests :
          \/ Resolve(r) \/ ReadConfig(r) \/ KeepConfig(r) \/ LoadFails(r)
          \/ UpdateVoiceConfig(r) \/ Invalidate(r)
    \/ Elapse

-----------------------------------------------------------------------------
\* A speech provider is resolved from a configuration that was replaced less
\* than the time to live before, or not at all, also when an administrator
\* replaces it while it is being loaded and the invalidation comes too early.
\* When the database does not answer, "before" is when it last did.
ConfigFresh ==
    resolved # None =>
        replaced[resolved.config] = None \/ resolved.at < replaced[resolved.config] + ConfigTtl

\* What is resolved never goes back to an earlier configuration, although it may
\* come from the copy, from the rows as they were before a change that is
\* committed meanwhile, or from an expired copy because the database is away.
NeverBack == [][resolved # None => resolved'.config >= resolved.config]_resolved
=============================================================================

------------------------------- MODULE RestApi -------------------------------
(***************************************************************************)
(* The parts of the REST interface that share the threads of the requests  *)
(* and no rows: conversations, agents and voices, what is reported and     *)
(* moderated, the password that is kept twice, logins with another         *)
(* provider, the id a request is served under and the providers of speech. *)
(* A behaviour follows one of them.                                        *)
(***************************************************************************)
EXTENDS ChatApi, AgentSettings, Moderation, Passwords, SocialLogin, SubCache, Voice

VARIABLE followed

vars == <<followed, req, apiVars, settingVars, moderationVars, passwordVars, socialVars,
          cacheVars, voiceVars>>

Parts == {"chat", "settings", "moderation", "passwords", "social", "subs", "voice"}

Init ==
    /\ followed \in Parts
    /\ req = [r \in Requests |-> New]
    /\ ApiInit /\ SettingsInit /\ ModerationInit /\ PasswordsInit
    /\ SocialInit /\ CacheInit /\ VoiceInit
    /\ followed # "social" => user = None

\* What is not followed stays as it began.
Still(part, v) == part # followed => UNCHANGED v

Next ==
    /\ \/ followed = "chat" /\ ApiNext
       \/ followed = "settings" /\ \E r \in Requests : SettingsNext(r) \/ (RolledBack(r) /\ UNCHANGED settingVars)
       \/ followed = "moderation" /\ \E r \in Requests : ModerationNext(r) \/ (RolledBack(r) /\ UNCHANGED moderationVars)
       \/ followed = "passwords" /\ PasswordsNext
       \/ followed = "social" /\ SocialNext
       \/ followed = "subs" /\ CacheNext
       \/ followed = "voice" /\ VoiceNext
    /\ Still("chat", apiVars)
    /\ Still("settings", settingVars)
    /\ Still("moderation", moderationVars)
    /\ Still("passwords", passwordVars)
    /\ Still("social", socialVars)
    /\ Still("subs", cacheVars)
    /\ Still("voice", voiceVars)
    /\ UNCHANGED followed

Spec == Init /\ [][Next]_vars

-----------------------------------------------------------------------------
\* What only the handlers keep unique, each by a look before the insertion, is
\* there twice only when requests overlapped: the empty conversation of a user
\* (apart from those made when the query for an empty one failed), categories,
\* agents and prompts, the number of a device's message. And the text of an active
\* template is changed only by edits that overlapped the activation.
UniqueUnlessOverlapped ==
    /\ EmptyConversationsOverlapOnly
    /\ NumbersDense
    /\ DuplicatesOverlapOnly
    /\ LateEditsOverlapOnly

\* What is served from a cache of the process, the id of a user or the
\* configuration of a speech provider, was true less than its time to live ago,
\* although whoever fills the cache may have read before a change and write after it;
\* while the database does not answer, less than that before it last did.
CachesFresh == ServedFresh /\ ConfigFresh
=============================================================================

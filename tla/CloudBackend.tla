---------------------------- MODULE CloudBackend ----------------------------
(***************************************************************************)
(* The cloud LLM backend: its configuration from the environment, what it  *)
(* takes from a reply, and the translation of the model's intents.         *)
(*                                                                         *)
(* Names of enumerations are given as normalize_enum_name leaves them; one *)
(* that the code does not know is "bogus".  The target of a model's action *)
(* is an optional pair <<form, name>> whose forms are those of             *)
(* PolicyEngine and "blank", "http" (a plain URL) and "content" (a plain   *)
(* content URI).  Confidences are in hundredths, as the model wrote them.  *)
(***************************************************************************)
EXTENDS LocalBackends

-----------------------------------------------------------------------------
(***************************************************************************)
(* config.rs, CloudBackendState::from_env, ProfileSummarizer::from_env.    *)
(* An environment maps variables to values; "" is an unset or empty one.   *)
(***************************************************************************)

\* parse_bool ignores case, profile_summary_enabled knows two spellings.
TrueWords == {"1", "true", "TRUE", "True"}
SummaryTrueWords == {"1", "true", "TRUE"}
CloudLlmEnabled(env) == env.enabled \in TrueWords
ProfileSummaryEnabled(env) == env.summary \in SummaryTrueWords

Providers == {"generic", "deepseek", "qwen"}
Provider(env) == IF env.provider = "" THEN "deepseek" ELSE env.provider

\* CloudLlmConfig::from_env; only the generic provider has no defaults.  The
\* dedicated key variable comes before that of the vendor.
ConfigFromEnv(env) ==
    LET provider == Provider(env)
        missing == provider = "generic" /\ (env.endpoint = "" \/ env.model = "")
        vendorKey == CASE provider = "deepseek" -> env.deepseekKey
                       [] provider = "qwen" -> env.dashscopeKey
                       [] OTHER -> ""
    IN  IF provider \notin Providers \/ missing THEN {}
        ELSE {[provider |-> provider,
               key |-> IF env.apiKey # "" THEN env.apiKey ELSE vendorKey,
               thinking |-> env.thinking]}

CloudState(env) ==
    IF ~CloudLlmEnabled(env) THEN "Disabled"
    ELSE IF ConfigFromEnv(env) = {} THEN "Misconfigured"
    ELSE "Ready"

SummarizerState(env) ==
    IF ~CloudLlmEnabled(env) \/ ~ProfileSummaryEnabled(env) THEN "Off"
    ELSE IF ConfigFromEnv(env) = {} THEN "Error"
    ELSE "On"

-----------------------------------------------------------------------------
(***************************************************************************)
(* client.rs.  A reply is [delivered, content, reasoning], the texts of    *)
(* the first choice; a text is [form, intents] with form "absent",         *)
(* "blank", "prose" or "json".                                             *)
(***************************************************************************)

\* first_text.
FirstText(reply) ==
    IF reply.content.form \in {"absent", "blank"} THEN reply.reasoning
    ELSE reply.content

\* summarize: trimmed and not empty, and of the content only.
SummaryText(reply) ==
    IF reply.delivered /\ reply.content.form \notin {"absent", "blank"}
    THEN {reply.content} ELSE {}

\* parse_model_output takes a code fence off; prose is not JSON.
ParsedOutput(reply) ==
    IF reply.delivered /\ FirstText(reply).form = "json"
    THEN {FirstText(reply).intents} ELSE {}

-----------------------------------------------------------------------------
(***************************************************************************)
(* translate.rs.                                                           *)
(***************************************************************************)

IntentTypes == {"OpenApp", "SwitchToApp", "CheckNotification", "HandleFile",
                "EnterContext", "Idle"}
ActionNames == {"PreWarmProcess", "PrefetchFile", "KeepAlive", "ReleaseMemory", "NoOp"}
UrgencyNames == {"Immediate", "IdleTime", "Deferred"}
Categories == DOMAIN FallbackUrl

\* Everything the parse_ functions return an error for.
Translatable(intent) ==
    /\ intent.type \in IntentTypes
    /\ intent.type = "HandleFile" => intent.category \subseteq Categories
    /\ intent.risk \in {"Low", "Medium", "High"}
    /\ \A a \in ToSet(intent.actions) :
        a.type \in ActionNames /\ a.urgency \subseteq UrgencyNames

\* A text is taken as it stands: a plain URL is no known form to the policy.
AsTarget(target) ==
    IF target = {} \/ Some(target)[1] = "blank" THEN NoTarget
    ELSE IF Some(target)[1] \in {"http", "content"} THEN <<"bare", Some(target)[2]>>
    ELSE Some(target)

\* infer_prefetch_category.
PrefetchCategory(intent) ==
    IF intent.type = "HandleFile" THEN {UnwrapOr(intent.category, "Unknown")} ELSE {}

\* The name known_package_url looks at, if the target has one.
NamesIn(target) == {t[2] : t \in target} \cap DOMAIN SiteOf

\* infer_prefetch_target.
PrefetchFallback(intent) ==
    {DefaultPrefetchTarget(c, NamesIn(intent.target)) : c \in PrefetchCategory(intent)}

\* Defect variant: a target with a known prefix is passed on.
NormalizePrefetchTarget_PkgKept(target, fallback, category) ==
    IF target # {} /\ Some(target)[1] \in {"url", "pkg"} THEN Some(target)
    ELSE UnwrapOr(fallback, NoTarget)

\* normalize_prefetch_target: URLs are kept or get their prefix, packages are
\* looked up for files, all else gives the fallback.
NormalizePrefetchTarget(target, fallback, category) ==
    LET kept == {<<"url", t[2]>> : t \in {t \in target : t[1] \in {"url", "http", "content"}}}
        package == {t[2] : t \in {t \in target :
                        t[1] = "pkg" \/ (t[1] = "bare" /\ LooksLikePackageName(t[2]))}}
        looked == IF package = {} THEN {}
                  ELSE {DefaultPrefetchTarget(c, package \cap DOMAIN SiteOf) : c \in category}
    IN  UnwrapOr(kept \cup looked, UnwrapOr(fallback, NoTarget))

TranslateAction(action, intent) ==
    Action(action.type,
           IF action.type = "PrefetchFile"
           THEN NormalizePrefetchTarget(action.target, PrefetchFallback(intent),
                                        PrefetchCategory(intent))
           ELSE AsTarget(action.target),
           UnwrapOr(action.urgency, "IdleTime"))

TranslateIntent(intent) ==
    [type |-> intent.type, subject |-> "", risk |-> intent.risk,
     confidence |-> Clamp(intent.confidence, 0, 100),
     actions |-> IF intent.actions = <<>> THEN <<NoOp>>
                 ELSE [i \in DOMAIN intent.actions |->
                            TranslateAction(intent.actions[i], intent)]]

\* translate_intents, as an option: one unknown name fails the whole reply.
TranslateIntents(intents) ==
    IF \E i \in DOMAIN intents : ~Translatable(intents[i]) THEN {}
    ELSE IF intents = <<>> THEN {<<Intent("Idle", "", 50, <<NoOp>>)>>}
    ELSE {[i \in DOMAIN intents |-> TranslateIntent(intents[i])]}

\* request_intents.
RequestIntents(reply) == UNION {TranslateIntents(o) : o \in ParsedOutput(reply)}
=============================================================================

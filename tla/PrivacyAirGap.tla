---------------------------- MODULE PrivacyAirGap ----------------------------
(***************************************************************************)
(* What happens to one event between a collector and a decision backend:   *)
(* RustCollectorIngress, DefaultPrivacyAirGap with its text analysis, and  *)
(* the summary WindowAggregator::close builds of a window.                 *)
(*                                                                         *)
(* Raw events are records with a field "kind".  An optional value is a set *)
(* with at most one element.  A text is [chars, topics, edge, wording]:    *)
(* the classes of its characters, the keyword groups found in it, which    *)
(* half of the two-word keyword "mentioned you" it ends or begins with,    *)
(* and everything else it says.  A path is [name, extension].  Fields that *)
(* nothing downstream reads (uid, pid, thread count, activity class) are   *)
(* left out.                                                               *)
(***************************************************************************)
EXTENDS Integers, Sequences, SequencesExt

Tiers == {"PublicApi", "Daemon", "PrivilegedDaemon", "SystemImage"}
Some(option) == CHOOSE x \in option : TRUE
UnwrapOr(option, default) == IF option = {} THEN default ELSE Some(option)

-----------------------------------------------------------------------------
(***************************************************************************)
(* RustCollectorIngress.                                                   *)
(***************************************************************************)

\* The fields of the raw events, by kind.
RawFields ==
    [AppTransition |-> {"kind", "at", "package", "transition"},
     BinderTransaction |-> {"kind", "at", "service", "method", "payload"},
     ProcStateChange |-> {"kind", "at", "package", "rssKb", "swapKb"},
     FileSystemAccess |-> {"kind", "at", "access", "path"},
     NotificationPosted |-> {"kind", "at", "package", "title", "text", "titleHint",
                             "textHint", "hints", "ongoing", "group"},
     NotificationInteraction |-> {"kind", "at", "package", "key"},
     ScreenState |-> {"kind", "at", "state"},
     SystemState |-> {"kind", "at", "battery", "charging", "network"}]

IsText(t) == DOMAIN t = {"chars", "topics", "edge", "wording"}
IsRawEvent(e) ==
    /\ e.kind \in DOMAIN RawFields /\ DOMAIN e = RawFields[e.kind]
    /\ e.kind = "NotificationPosted" => IsText(e.title) /\ IsText(e.text)
    /\ e.kind = "FileSystemAccess" => DOMAIN e.path = {"name", "extension"}
    /\ e.kind = "SystemState" => e.battery \subseteq 0..255

SupportedSchema == "dipecs.collector.v1"

\* accept: the envelope of an app-side event; its declared tier is kept.
Accept(envelope) ==
    IF envelope.schema = SupportedSchema
    THEN {[raw |-> envelope.raw, tier |-> envelope.tier]} ELSE {}

\* accept_internal: an event of the daemon's own collectors.
AcceptInternal(raw) == [raw |-> raw, tier |-> "Daemon"]

-----------------------------------------------------------------------------
(***************************************************************************)
(* text_analysis.rs.                                                       *)
(***************************************************************************)

Scripts == {"Latin", "Hanzi", "Cyrillic", "Arabic"}

\* analyze_text.
AnalyzeText(text) ==
    LET scripts == ToSet(text.chars) \cap Scripts IN
    [length |-> Len(text.chars),
     script |-> IF scripts = {} THEN "Unknown"
                ELSE IF \E s \in scripts : scripts = {s} THEN Some(scripts)
                ELSE "Mixed",
     emojiOnly |-> text.chars # <<>> /\ ToSet(text.chars) = {"Emoji"}]

HintOrder == <<"FileMention", "ImageMention", "AudioMessage", "LinkAttachment",
               "UserMentioned", "CalendarInvitation", "FinancialContext",
               "VerificationCode">>

\* The groups are looked for one after the other.
HintsAmong(topics) == SelectSeq(HintOrder, LAMBDA h : h \in topics)

\* extract_semantic_hints on "title text": a keyword may span the two.
ExtractSemanticHints(title, text) ==
    HintsAmong(title.topics \cup text.topics \cup
               IF title.edge = "mentioned" /\ text.edge = "you"
               THEN {"UserMentioned"} ELSE {})

Extensions ==
    [pdf |-> "Document", png |-> "Image", mp4 |-> "Video", mp3 |-> "Audio",
     zip |-> "Archive", rs |-> "Code", none |-> "Unknown"]

\* classify_extension, with one extension for each list of the match.
ClassifyExtension(path) ==
    IF path.extension \in DOMAIN Extensions THEN Extensions[path.extension]
    ELSE "Other"

-----------------------------------------------------------------------------
(***************************************************************************)
(* DefaultPrivacyAirGap::sanitize.                                         *)
(***************************************************************************)

SanitizeAppTransition(e) ==
    [type |-> "AppTransition", at |-> e.at, tier |-> "PublicApi",
     app |-> {e.package}, package |-> {e.package}, transition |-> e.transition]

\* The method name is matched by fragments, in this order; the package behind
\* the uid is not known here.
InteractionType(method) ==
    IF "enqueueNotification" \in method THEN "NotifyPost"
    ELSE IF "startActivity" \in method THEN "ActivityLaunch"
    ELSE IF method \cap {"share", "sendIntent"} # {} THEN "ShareIntent"
    ELSE "ServiceBind"

SanitizeBinder(e) ==
    [type |-> "InterAppInteraction", at |-> e.at, tier |-> "Daemon", app |-> {},
     package |-> {}, service |-> e.service, interaction |-> InteractionType(e.method)]

\* The cast to u32 would cut four petabytes off, and is the identity here.
SanitizeProc(e) ==
    [type |-> "ProcessResource", at |-> e.at, tier |-> "Daemon",
     app |-> e.package, package |-> e.package,
     rssMb |-> e.rssKb \div 1024, swapMb |-> e.swapKb \div 1024]

SanitizeFs(e) ==
    [type |-> "FileActivity", at |-> e.at, tier |-> "Daemon", app |-> {},
     package |-> {}, category |-> ClassifyExtension(e.path),
     activity |-> e.access, hot |-> FALSE]

Notification(e, title, text, hints, ongoing, group) ==
    [type |-> "Notification", at |-> e.at, tier |-> "PublicApi",
     app |-> {e.package}, package |-> {e.package},
     title |-> title, text |-> text, hints |-> hints, ongoing |-> ongoing,
     group |-> group]

\* Defect variant: the group key is passed on.
SanitizeNotification_KeepsGroup(e) ==
    Notification(e, UnwrapOr(e.titleHint, AnalyzeText(e.title)),
                 UnwrapOr(e.textHint, AnalyzeText(e.text)),
                 IF e.hints = <<>> THEN ExtractSemanticHints(e.title, e.text)
                 ELSE e.hints,
                 e.ongoing, e.group)

\* Hints the collector computed win over the local analysis.
SanitizeNotification(e) ==
    Notification(e, UnwrapOr(e.titleHint, AnalyzeText(e.title)),
                 UnwrapOr(e.textHint, AnalyzeText(e.text)),
                 IF e.hints = <<>> THEN ExtractSemanticHints(e.title, e.text)
                 ELSE e.hints,
                 e.ongoing, {})

NoText == [length |-> 0, script |-> "Unknown", emojiOnly |-> FALSE]

SanitizeInteraction(e) == Notification(e, NoText, NoText, <<>>, FALSE, {})

SanitizeScreen(e) ==
    [type |-> "Screen", at |-> e.at, tier |-> "PublicApi", app |-> {},
     package |-> {}, state |-> e.state]

SanitizeSystem(e) ==
    [type |-> "SystemStatus", at |-> e.at, tier |-> "PublicApi", app |-> {},
     package |-> {}, battery |-> e.battery, charging |-> e.charging,
     network |-> e.network]

Sanitize(e) ==
    CASE e.kind = "AppTransition" -> SanitizeAppTransition(e)
      [] e.kind = "BinderTransaction" -> SanitizeBinder(e)
      [] e.kind = "ProcStateChange" -> SanitizeProc(e)
      [] e.kind = "FileSystemAccess" -> SanitizeFs(e)
      [] e.kind = "NotificationPosted" -> SanitizeNotification(e)
      [] e.kind = "NotificationInteraction" -> SanitizeInteraction(e)
      [] e.kind = "ScreenState" -> SanitizeScreen(e)
      [] e.kind = "SystemState" -> SanitizeSystem(e)

\* sanitize_with_tier: the tier of the ingress wins over that of the type.
SanitizeWithTier(ingested) ==
    [Sanitize(ingested.raw) EXCEPT !.tier = ingested.tier]

-----------------------------------------------------------------------------
(***************************************************************************)
(* build_summary.                                                          *)
(***************************************************************************)

\* push unless contained.
Pushed(s, x) == IF Contains(s, x) THEN s ELSE Append(s, x)
PushedAll(s, xs) == FoldLeft(Pushed, s, xs)

EmptySummary ==
    [foreground |-> <<>>, notified |-> <<>>, hints |-> <<>>, files |-> <<>>,
     status |-> {}, tier |-> "PublicApi"]

InForeground(e) ==
    \/ e.type = "AppTransition" /\ e.transition = "Foreground"
    \/ e.type \in {"ProcessResource", "InterAppInteraction"} /\ e.package # {}

\* One more file of the category, in a map from categories to counts.
Counted(files, category) ==
    [c \in DOMAIN files \cup {category} |->
        IF c \in DOMAIN files THEN files[c] + (IF c = category THEN 1 ELSE 0) ELSE 1]

\* One round of the loop over the events.
Summarise(s, e) ==
    [foreground |-> IF InForeground(e) THEN Pushed(s.foreground, Some(e.package))
                    ELSE s.foreground,
     notified |-> IF e.type = "Notification" THEN Pushed(s.notified, Some(e.package))
                  ELSE s.notified,
     hints |-> IF e.type = "Notification" THEN PushedAll(s.hints, e.hints)
               ELSE s.hints,
     files |-> IF e.type = "FileActivity" THEN Counted(s.files, e.category)
               ELSE s.files,
     status |-> IF e.type = "SystemStatus"
                THEN {[battery |-> e.battery, charging |-> e.charging,
                       network |-> e.network]}
                ELSE s.status,
     tier |-> IF e.tier = "Daemon" THEN "Daemon" ELSE s.tier]

\* The summary after the first n events.
Built(events) ==
    LET built[n \in 0..Len(events)] ==
            IF n = 0 THEN EmptySummary ELSE Summarise(built[n - 1], events[n])
    IN  built
BuildSummary(events) == Built(events)[Len(events)]

\* file_activity: the entries of the map, in the order its hashing gives.
FileActivityVecs(summary) ==
    SetToSeqs({<<c, summary.files[c]>> : c \in DOMAIN summary.files})

StructuredContext(events) == [events |-> events, summary |-> BuildSummary(events)]

\* KnownTargets::from_context: the packages a window has seen.
KnownTargets(context) ==
    ToSet(context.summary.foreground) \cup ToSet(context.summary.notified)
        \cup (UNION {e.app : e \in ToSet(context.events)})
        \cup (UNION {e.package : e \in
                        {e \in ToSet(context.events) :
                            e.type \in {"AppTransition", "Notification",
                                        "ProcessResource"}}})
=============================================================================

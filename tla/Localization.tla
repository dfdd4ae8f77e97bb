---------------------------- MODULE Localization ----------------------------
(***************************************************************************)
(* Texts in several languages: the choice of a translation for the locales *)
(* of a session, and the services that make it on the way out and in.      *)
(***************************************************************************)
EXTENDS Naturals, Sequences, TLC, SequencesExt

(***************************************************************************)
(* Multi-language text (scada/locale_negotiation.cpp).  A LocaleId is a    *)
(* primary subtag, the rest of the tag and its letter case, which every    *)
(* comparison ignores.  A text is a sequence of plain fragments, or the    *)
(* "mul" JSON object that holds one <<locale, text>> pair per language,    *)
(* followed by any fragments appended to the JSON as if it were text.      *)
(***************************************************************************)
LocaleId(primary, rest, case) ==
    [primary |-> primary, rest |-> rest, case |-> case]
NoLocale == LocaleId("", "", "lower")
kMultiLanguageLocale == LocaleId("mul", "", "lower")
kSubstitutableLocale == LocaleId("qst", "", "lower")
kTierMultiLanguageLocale == LocaleId("x", "scada-mul", "lower")

EqualsIgnoreCase(a, b) == a.primary = b.primary /\ a.rest = b.rest

\* A text: plain fragments, and the pairs of a JSON object when it has one.
Plain(fragments) == [json |-> <<>>, plain |-> fragments]
Packed(pairs) == [json |-> <<pairs>>, plain |-> <<>>]
Localized(locale, text) == [locale |-> locale, text |-> text]

\* Text appended to text: a JSON object loses its meaning as one.
Concat(a, b) ==
    IF a = Plain(<<>>) THEN b
    ELSE [a EXCEPT !.plain = IF b.json = <<>> THEN @ \o b.plain
                             ELSE @ \o <<ToString(b.json)>> \o b.plain]
EmptyText == Plain(<<>>)
IsEmpty(t) == EqualsIgnoreCase(t.locale, NoLocale) /\ t.text = EmptyText

PrimarySubtag(locale) == [locale EXCEPT !.rest = ""]

IsSpecialLocale(locale) ==
    \/ EqualsIgnoreCase(locale, kMultiLanguageLocale)
    \/ EqualsIgnoreCase(locale, kSubstitutableLocale)

RequestsEveryLanguage(locale) ==
    IsSpecialLocale(locale) \/ EqualsIgnoreCase(locale, kTierMultiLanguageLocale)

RequestsPackedStrings(requested) ==
    /\ requested # <<>>
    /\ EqualsIgnoreCase(Head(requested), kTierMultiLanguageLocale)

LocaleMatches(available, requested) ==
    /\ ~EqualsIgnoreCase(available, NoLocale)
    /\ ~EqualsIgnoreCase(requested, NoLocale)
    /\ EqualsIgnoreCase(PrimarySubtag(available), PrimarySubtag(requested))

-----------------------------------------------------------------------------
(* The packed form.                                                        *)

EncodeMultiLanguage(translations) ==
    CASE translations = <<>> -> Localized(NoLocale, EmptyText)
      [] Len(translations) = 1 -> Head(translations)
      [] OTHER -> Localized(kMultiLanguageLocale, Packed(translations))

\* Text that does not parse as the object, or holds no usable pair, is
\* content in its own right.
DecodeMultiLanguage(t) ==
    IF IsEmpty(t) THEN <<>>
    ELSE IF \/ ~IsSpecialLocale(t.locale)
            \/ t.text.json = <<>>
            \/ t.text.plain # <<>>
            \/ t.text.json[1] = <<>>
         THEN <<t>>
    ELSE t.text.json[1]

AppendToEachLanguage(t, suffix) ==
    IF suffix = EmptyText THEN t
    ELSE IF ~IsSpecialLocale(t.locale)
         THEN [t EXCEPT !.text = Concat(@, suffix)]
    ELSE LET translations == DecodeMultiLanguage(t)
         IN  EncodeMultiLanguage(
                 [i \in DOMAIN translations |->
                     [translations[i] EXCEPT !.text = Concat(@, suffix)]])

\* Every language of the left side, with the right side's text in the same
\* language or, failing that, its first; languages of the right side only
\* are dropped.
JoinLanguages(first, separator, second) ==
    IF IsEmpty(first) THEN second
    ELSE IF IsEmpty(second) THEN first
    ELSE LET left == DecodeMultiLanguage(first)
             right == DecodeMultiLanguage(second)
             Same(l) == SelectSeq(right,
                            LAMBDA r : EqualsIgnoreCase(r.locale, l.locale))
             Joined(l) == [l EXCEPT !.text =
                              Concat(Concat(@, separator),
                                     Head(Same(l) \o right).text)]
         IN  EncodeMultiLanguage([i \in DOMAIN left |-> Joined(left[i])])

-----------------------------------------------------------------------------
(* Negotiation.                                                            *)

\* "mul" first asks for every language of those that follow it, or for all.
LanguagesFrom(translations, rest) ==
    LET kept == FlattenSeq([i \in DOMAIN rest |->
                    IF RequestsEveryLanguage(rest[i]) THEN <<>>
                    ELSE SelectSeq(translations,
                             LAMBDA t : LocaleMatches(t.locale, rest[i]))])
    IN  IF kept = <<>> THEN translations ELSE kept

\* A walk that takes the first acceptable translation, exact or not.
PreferredInOrder(translations, wanted) ==
    IF RequestsEveryLanguage(wanted) THEN <<>>
    ELSE SelectSeq(translations, LAMBDA t : EqualsIgnoreCase(t.locale, wanted)
                                            \/ LocaleMatches(t.locale, wanted))

\* The translations one preference accepts, an exact tag before a subtag.
Preferred(translations, wanted) ==
    IF RequestsEveryLanguage(wanted) THEN <<>>
    ELSE SelectSeq(translations,
                   LAMBDA t : EqualsIgnoreCase(t.locale, wanted))
         \o SelectSeq(translations, LAMBDA t : LocaleMatches(t.locale, wanted))

SelectLocalizedText(translations, requested) ==
    IF translations = <<>> THEN Localized(NoLocale, EmptyText)
    ELSE IF requested # <<>> /\ RequestsEveryLanguage(Head(requested))
         THEN EncodeMultiLanguage(
                  LanguagesFrom(translations, Tail(requested)))
    ELSE Head(FlattenSeq([i \in DOMAIN requested |->
                             Preferred(translations, requested[i])])
              \o translations)

ResolveLocalizedText(t, requested) ==
    SelectLocalizedText(DecodeMultiLanguage(t), requested)

-----------------------------------------------------------------------------
(***************************************************************************)
(* The localizing decorators (scada/localizing_services.cpp) and the       *)
(* historical events of the gRPC history stub (remote/history_stub.cpp).   *)
(* A session may be activated again in another language; a subscription    *)
(* keeps the languages it was created with.  Stored texts come from the    *)
(* wrapped services, which are external, or are composed on the server     *)
(* from a message and a fragment.  A batch is followed by one element.     *)
(***************************************************************************)
CONSTANTS LocaleLists,  \* the LocaleIds a session may ask for
          StoredTexts,  \* texts the wrapped services hold
          Fragments     \* texts appended to a message

VARIABLES locales,       \* ServiceContext::locale_ids of the session
          subscription,  \* <<>>, or the locales captured at its creation
          shown          \* the last text delivered and how it came to be

lvars == <<locales, subscription, shown>>

NotShown == [op |-> "none", stored |-> Localized(NoLocale, EmptyText),
             wanted |-> <<>>, text |-> Localized(NoLocale, EmptyText)]
Show(op, stored, wanted, text) ==
    shown' = [op |-> op, stored |-> stored, wanted |-> wanted, text |-> text]

LInit ==
    /\ locales \in LocaleLists
    /\ subscription = <<>>
    /\ shown = NotShown

\* The session is activated again with other languages.
Activate == \E l \in LocaleLists :
    /\ shown = NotShown
    /\ locales' = l
    /\ UNCHANGED <<subscription, shown>>

CreateSubscription ==
    /\ subscription = <<>> /\ shown = NotShown
    /\ subscription' = <<locales>>
    /\ UNCHANGED <<locales, shown>>

\* The reader has the text.
Taken == shown # NotShown /\ shown' = NotShown /\ UNCHANGED <<locales, subscription>>

-----------------------------------------------------------------------------
(* What the decorators deliver.                                            *)

BrowseName(stored) ==
    /\ Show("Browse", stored, locales, ResolveLocalizedText(stored, locales))
    /\ UNCHANGED <<locales, subscription>>

\* ResolveValue: scalars, and each element of an array.
ReadValue(stored) ==
    /\ Show("Read", stored, locales, ResolveLocalizedText(stored, locales))
    /\ UNCHANGED <<locales, subscription>>

\* ResolveEventMessage, behind the wrapper only a subscription with locales
\* gets; the source name of the event is resolved in the same way.
ResolveEventMessage(stored, requested) ==
    IF requested = <<>> THEN stored ELSE ResolveLocalizedText(stored, requested)
ReadNext(stored) ==
    /\ subscription # <<>>
    /\ Show("ReadNext", stored, subscription[1],
            ResolveEventMessage(stored, subscription[1]))
    /\ UNCHANGED <<locales, subscription>>

HistoryMessage(stored) ==
    /\ Show("HistoryMessage", stored, locales,
            ResolveLocalizedText(stored, locales))
    /\ UNCHANGED <<locales, subscription>>

\* The wire field of a source name has no locale beside it.
SourceNameOnWire(stored, requested) ==
    LET resolved == ResolveLocalizedText(stored, requested)
    IN  IF RequestsPackedStrings(requested) THEN resolved
        ELSE ResolveLocalizedText(resolved, <<>>)
HistorySourceName(stored) ==
    /\ Show("HistorySourceName", stored, locales,
            SourceNameOnWire(stored, locales))
    /\ UNCHANGED <<locales, subscription>>

\* A message composed on the server and then read: a suffix for every
\* language, or a fragment that has languages of its own.
ReadAppended(stored, f) ==
    /\ Show("Append", <<stored, f>>, locales,
            ResolveLocalizedText(AppendToEachLanguage(stored, f.text), locales))
    /\ UNCHANGED <<locales, subscription>>

Separator == Plain(<<", ">>)
ReadJoined(stored, f) ==
    /\ Show("Join", <<stored, f>>, locales,
            ResolveLocalizedText(JoinLanguages(stored, Separator, f), locales))
    /\ UNCHANGED <<locales, subscription>>

LNext ==
    \/ Activate \/ CreateSubscription \/ Taken
    \/ /\ shown = NotShown
       /\ \E stored \in StoredTexts :
             \/ BrowseName(stored) \/ ReadValue(stored) \/ ReadNext(stored)
             \/ HistoryMessage(stored) \/ HistorySourceName(stored)
             \/ \E f \in Fragments :
                   \/ f.locale = NoLocale /\ ReadAppended(stored, f)
                   \/ ReadJoined(stored, f)

LSpec == LInit /\ [][LNext]_lvars

-----------------------------------------------------------------------------
(* Properties.                                                             *)

Languages(requested) == SelectSeq(requested, LAMBDA l : ~RequestsEveryLanguage(l))
Exact(t, l) == EqualsIgnoreCase(t.locale, l)
Accepts(l, t) == Exact(t, l) \/ LocaleMatches(t.locale, l)
IsPacked(t) ==
    IsSpecialLocale(t.locale) /\ t.text.json \notin {<<>>, << <<>> >>}

\* A good answer to a client that asked for one language: a translation the
\* text has, of the earliest preference the text can meet, in the very tag
\* asked for when there is one; any other client gets all its languages.
Negotiated(stored, requested, text) ==
    LET all == Range(DecodeMultiLanguage(stored))
        wanted == Languages(requested)
        met == {i \in DOMAIN wanted : \E t \in all : Accepts(wanted[i], t)}
        narrowed == {t \in all : \E i \in DOMAIN wanted :
                                    LocaleMatches(t.locale, wanted[i])}
        given == Range(DecodeMultiLanguage(text))
    IN  IF all = {} THEN IsEmpty(text)
        ELSE IF requested # <<>> /\ RequestsEveryLanguage(Head(requested))
        THEN given = IF narrowed = {} THEN all ELSE narrowed
        ELSE /\ text \in all
             /\ \A i \in met :
                   (\A j \in met : i <= j) =>
                      /\ Accepts(wanted[i], text)
                      /\ (\E t \in all : Exact(t, wanted[i])) => Exact(text, wanted[i])

\* Every text a session is given by Browse, Read, a historical read or a
\* subscription created with locales is the best of the translations for
\* the languages in force: those of the session now or, for a subscription,
\* those captured when it was created (ResolveLocalizedText,
\* LocalizingSubscription::ReadNext).
TextIsNegotiated ==
    \/ shown.op \notin {"Browse", "Read", "ReadNext", "HistoryMessage"}
    \/ shown.op = "ReadNext" /\ shown.wanted = <<>>
    \/ Negotiated(shown.stored, shown.wanted, shown.text)

\* A tier in the middle is transparent: it asks for {"x-scada-mul", "mul"} and
\* resolves what it receives for its own client, which must read what it
\* would have read from the owner of the text.
TierIsTransparent ==
    shown.op \in {"Browse", "Read", "HistoryMessage"} =>
        ResolveLocalizedText(
            ResolveLocalizedText(shown.stored,
                <<kTierMultiLanguageLocale, kMultiLanguageLocale>>),
            shown.wanted) = shown.text

\* A source name leaves in one language unless the peer asked for the packed
\* form: no JSON reaches a plain string field (HistoryStub).
SourceNameIsOneLanguage ==
    shown.op = "HistorySourceName" /\ IsPacked(shown.text)
        => RequestsPackedStrings(shown.wanted)

\* Composing a message and choosing its language commute: whoever reads it
\* finds the suffix, and of a joined fragment the text in the language read
\* or else its first, whichever languages the message has
\* (AppendToEachLanguage, JoinLanguages).
ComposingKeepsLanguages ==
    /\ shown.op = "Append" =>
          shown.text = AppendToEachLanguage(
                           ResolveLocalizedText(shown.stored[1], shown.wanted),
                           shown.stored[2].text)
    /\ shown.op = "Join" /\ ~IsPacked(shown.text)
          /\ ~IsEmpty(shown.stored[1]) /\ ~IsEmpty(shown.stored[2]) =>
          LET base == ResolveLocalizedText(shown.stored[1], shown.wanted)
              fragments == Range(DecodeMultiLanguage(shown.stored[2]))
          IN  /\ shown.text.locale = base.locale
              /\ \E t \in fragments :
                    /\ shown.text.text = Concat(Concat(base.text, Separator), t.text)
                    /\ (\E u \in fragments : Exact(u, base.locale))
                           => Exact(t, base.locale)

\* An event reaches its subscriber as text, not as the JSON of all its
\* languages, unless the subscriber asked for every language.
EventTextIsPlain ==
    shown.op = "ReadNext" /\ IsPacked(shown.text)
        => shown.wanted # <<>> /\ RequestsEveryLanguage(Head(shown.wanted))
=============================================================================

------------------------------ MODULE MCWireData ------------------------------
(***************************************************************************)
(* The data types and what the layers between a client and a service do    *)
(* with them, on small instances: the conversions of the wire, the names   *)
(* of statuses, attribute records, call contexts, namespace remapping,     *)
(* localization, authorization and the adapter for legacy monitored items; *)
(* CSV files, texts, binary buffers and calendars.  They share no state,   *)
(* so a behavior follows the one that focus names.                         *)
(***************************************************************************)
EXTENDS WireValues, Authorization, NamespaceRemapping, Localization,
        LegacyAdapter, FileFormats, TextUtils, Calendars

MCSystemEventType == NodeId(0, "Numeric", "2130")
MCGeneralModelChangeEventType == NodeId(0, "Numeric", "2133")
MCSemanticChangeEventType == NodeId(0, "Numeric", "2738")

VARIABLE focus

textVars == <<csvvars, xvars, bvars, kvars>>
dataVars == <<focus, wvvars, stvars, navars, ctvars, rvars, lvars, avars, vars,
              textVars>>

-----------------------------------------------------------------------------
(* Downstream servers that share a namespace, list one twice, have an      *)
(* empty slot, or use other indexes for the same URIs.                     *)

MCDownstreams == {"d1", "d2"}
MCNamespaceArrays == {<<"opc", "a">>, <<"opc", "", "a">>, <<"opc", "c", "b", "c">>}
MCIndexes == 0 .. 3

-----------------------------------------------------------------------------
(* Languages: exact tags and subtags, another letter case, none, the two   *)
(* special locales; packed texts of up to three languages, plain texts and *)
(* texts that claim to be packed and are not.                              *)

en == LocaleId("en", "", "lower")
enGB == LocaleId("en", "GB", "lower")
enUS == LocaleId("en", "US", "lower")
EnUS == LocaleId("en", "US", "upper")
ru == LocaleId("ru", "", "lower")
de == LocaleId("de", "", "lower")
mul == kMultiLanguageLocale
tier == kTierMultiLanguageLocale

MCLocaleLists ==
    SeqOf({en, enUS, ru}, 2)
    \cup {<<l, m>> : l \in {mul, tier}, m \in {mul, en, NoLocale}}
    \cup {<<mul>>, <<tier>>, <<NoLocale>>, <<ru, mul>>, <<tier, mul, ru>>,
          <<kSubstitutableLocale, de, en>>, <<de, enGB, ru>>}

TextIn(l) == Localized(l, Plain(<<"text " \o l.primary \o l.rest>>))
PackedIn(seq) == Localized(mul, Packed([i \in DOMAIN seq |-> TextIn(seq[i])]))
Distinct(seq) == \A i, j \in DOMAIN seq : i # j => seq[i] # seq[j]

MCStoredTexts ==
    {TextIn(l) : l \in {NoLocale, enGB, ru}}
    \cup {Localized(l, EmptyText) : l \in {NoLocale, mul}}
    \cup {Localized(mul, Plain(<<"not json">>))}
    \cup {PackedIn(seq) : seq \in {s \in SeqOf({en, enGB, ru}, 3) \cup SeqOf({en, EnUS, ru}, 2) :
                                  Distinct(s)}}
MCFragments ==
    {Localized(NoLocale, Plain(<<"suffix">>)),
     Localized(NoLocale, EmptyText), TextIn(ru),
     PackedIn(<<ru, en>>), PackedIn(<<de, enGB>>)}

-----------------------------------------------------------------------------
MCPasswords == SeqOf({"upper", "lower", "digit", "special"}, 4)

-----------------------------------------------------------------------------
MCCellTexts ==
  UNION {[1..n -> {",", ";", Quote, CR, LF, "x"}] : n \in 0..2}

MCSignatures == {<<>>, <<"x">>}

MCCodes == {9, 32, 34, 37, 47, 52, 58, 65, 92, 97, 110, 200}

MCBits == <<3, 4, 5, 6>>

MCStrings == {<<>>, <<2>>, <<1, 0>>, <<0, 1, 2>>}

\* The days around the epoch, ends of February in years of each kind, the first
\* and the last year of four digits.
MCDays ==
  {-719529, -719528, -1, 0, 1, 2932896, 2932897}
  \cup UNION {{YearStart(y) - 1, YearStart(y), YearStart(y) + 58,
               YearStart(y) + 59, YearStart(y) + 60} : y \in {1900, 1969, 2000, 2023, 2024}}

MCExploded ==
  [year : {0, 1900, 1969, 2000, 2023}, month : {1, 2, 12}, day_of_month : {1, 28, 29, 31},
   hour : {0, 23, 24}, minute : {0, 60}, second : {0, 59, 60},
   millisecond : {0, 999, 1000}]

MCDurations == {-1, 0, 59, 60, 3599, 3600, 90061}

\* A zone without summer time, zones whose clock skips and repeats two of the
\* eight seconds of a day, around noon and around midnight.
MCZones ==
  {[standard |-> o, summer |-> o + d, from |-> f, to |-> f + 6] :
     o \in {-3, 0, 2}, d \in {0, 2}, f \in {-9, 5, 6}}

MCSeconds == -17..17

-----------------------------------------------------------------------------
DataInit ==
    /\ focus \in {"values", "statuses", "attributes", "contexts", "remapping",
                   "localizing", "authorization", "legacy", "csv", "texts", "buffers",
                   "calendars"}
    /\ CsvInit /\ XInit /\ BInit /\ KInit
    /\ focus # "csv" => dialect = [bom |-> <<>>, delimiter |-> ",", signature |-> <<>>]
    /\ focus # "buffers" => capacity = <<>>
    /\ NaInit /\ CtInit /\ RInit /\ AInit /\ Init
    /\ IF focus = "values" THEN WvInit
       ELSE /\ kind = "Variant" /\ item = Variant("BOOL", TRUE) /\ origin = item
            /\ stage = "held" /\ wire = <<>> /\ out = <<>> /\ hops = 0
    /\ IF focus = "statuses" THEN StInit
       ELSE status = Status(0) /\ provider = <<>> /\ shownText = <<>>
    /\ IF focus = "localizing" THEN LInit
       ELSE locales = <<>> /\ subscription = <<>> /\ shown = NotShown

TextNext ==
    \/ focus = "csv" /\ CsvNext /\ UNCHANGED <<xvars, bvars, kvars>>
    \/ focus = "texts" /\ XNext /\ UNCHANGED <<csvvars, bvars, kvars>>
    \/ focus = "buffers" /\ BNext /\ UNCHANGED <<csvvars, xvars, kvars>>
    \/ focus = "calendars" /\ KNext /\ UNCHANGED <<csvvars, xvars, bvars>>

DataNext ==
    \/ /\ focus = "values" /\ WvNext
       /\ UNCHANGED <<focus, stvars, navars, ctvars, rvars, lvars, avars, vars, textVars>>
    \/ /\ focus = "statuses" /\ StNext
       /\ UNCHANGED <<focus, wvvars, navars, ctvars, rvars, lvars, avars, vars, textVars>>
    \/ /\ focus = "attributes" /\ NaNext
       /\ UNCHANGED <<focus, wvvars, stvars, ctvars, rvars, lvars, avars, vars, textVars>>
    \/ /\ focus = "contexts" /\ CtNext
       /\ UNCHANGED <<focus, wvvars, stvars, navars, rvars, lvars, avars, vars, textVars>>
    \/ /\ focus = "remapping" /\ RNext
       /\ UNCHANGED <<focus, wvvars, stvars, navars, ctvars, lvars, avars, vars, textVars>>
    \/ /\ focus = "localizing" /\ LNext
       /\ UNCHANGED <<focus, wvvars, stvars, navars, ctvars, rvars, avars, vars, textVars>>
    \/ /\ focus = "authorization" /\ ANext
       /\ UNCHANGED <<focus, wvvars, stvars, navars, ctvars, rvars, lvars, vars, textVars>>
    \/ /\ focus = "legacy" /\ Next
       /\ UNCHANGED <<focus, wvvars, stvars, navars, ctvars, rvars, lvars, avars, textVars>>
    \/ /\ TextNext
       /\ UNCHANGED <<focus, wvvars, stvars, navars, ctvars, rvars, lvars, avars, vars>>

DataSpec == DataInit /\ [][DataNext]_dataVars

-----------------------------------------------------------------------------
(* The properties of the parts, by what they promise. *)

\* A session is given texts in the languages it asked for: as negotiated, whole
\* between tiers, one language for a source name, and all of them where a text
\* is composed (locale_negotiation.cpp, localizing_services.cpp).
LanguagesAreKept ==
  /\ TextIsNegotiated /\ TierIsTransparent /\ SourceNameIsOneLanguage
  /\ ComposingKeepsLanguages

\* Who a call is made for is what its holder set, and what they may do is what
\* their roles say: commands are guarded apart from configuration, what a node
\* advertises is what is enforced, old rights keep their meaning, and a password
\* is refused for what it lacks (service_context.cpp, authorization.cpp).
AccessIsGuarded ==
  /\ ContextIsItsHolders /\ CommandingIsSeparate /\ AdvertisedIsEnforced
  /\ RightsKeepRoles /\ PasswordVerdictIsTrue

\* What the messages carry arrives, numbers survive chains of type changes, a
\* value reported good is usable, a status keeps its name, and an attribute
\* that was set reads back (protocol_utils.cpp, variant.cpp, status.cpp,
\* node_attributes.h).
ValuesArrive ==
  /\ KeepsContent /\ NumberIsKept /\ GoodIsUsable /\ NameTellsTheFailure
  /\ SetReadsBack

\* What is written as text or bytes reads back: cells of a CSV file, escaped and
\* quoted texts, numbers of every width, binary fields, and times in UTC and in
\* zones whose clock skips and repeats.
WrittenIsReadBack ==
  /\ CsvReadsBack /\ TextIsRestored /\ NumberIsExact /\ FieldsReadBack
  /\ UtcReadsBack /\ LocalReadsBack
=============================================================================

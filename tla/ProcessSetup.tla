---------------------------- MODULE ProcessSetup ----------------------------
(***************************************************************************)
(* What a process learns of its surroundings: its start time and its       *)
(* console, and the paths its providers answer.                            *)
(***************************************************************************)
EXTENDS Integers, Sequences, SequencesExt

(***************************************************************************)
(* When the process started, as process_start_time.cpp reads it from /proc *)
(* on Linux.  A text is a sequence of symbols: a word or a number, a       *)
(* space, a parenthesis, an end of line.  The second field of the process' *)
(* line is its name in parentheses, with anything in it.                   *)
(***************************************************************************)
CONSTANTS
  CommTexts,         \* names the executable may have
  Ticks,             \* values of the starttime field
  BootTimes,         \* values of the btime line
  TicksPerSecond     \* answers of sysconf(_SC_CLK_TCK)

VARIABLES
  proc,              \* what the kernel reports
  start_time         \* the static of GetCurrentProcessStartTime, <<>> unset

psvars == <<proc, start_time>>

\* A number is itself; the other symbols are negative.
SpaceSymbol == -1
OpenSymbol == -2
CloseSymbol == -3
EndLine == -4
Btime == -5
WordSymbol == -6
IsNumber(symbol) == symbol >= 0

kMicrosecondsPerSecond == 10   \* scaled
NowUtc == -1                   \* a time no process starts at

\* The line of /proc/self/stat: pid (comm) state and eighteen fields, then the
\* start time, then more.
Spaced(fields) ==
  [n \in 1..2 * Len(fields) |-> IF n % 2 = 1 THEN SpaceSymbol ELSE fields[n \div 2]]
ProcSelfStat(p) ==
  <<1, SpaceSymbol, OpenSymbol>> \o p.comm \o <<CloseSymbol>>
    \o Spaced([n \in 1..21 |-> IF n = 1 THEN WordSymbol ELSE IF n = 20 THEN p.ticks ELSE 1])
ProcStat(p) ==
  <<WordSymbol, SpaceSymbol, 1, EndLine>> \o p.before
    \o (IF p.boot = <<>> THEN <<>> ELSE <<Btime, SpaceSymbol, p.boot[1], EndLine>>) \o <<WordSymbol, SpaceSymbol, 1>>

-----------------------------------------------------------------------------
\* The tokens of a text: what stands between spaces.
Tokens(text) == SelectSeq(text, LAMBDA symbol : symbol # SpaceSymbol)

\* ParseTokenAt: <<>> for a token that is missing or not a number.
ParseTokenAt(text, index) ==
  IF Len(Tokens(text)) <= index THEN <<>>
  ELSE IF IsNumber(Tokens(text)[index + 1]) THEN <<Tokens(text)[index + 1]>> ELSE <<>>

\* The first line that starts with "btime ".
LineStarts(text) ==
  {n \in DOMAIN text : n = 1 \/ text[n - 1] = EndLine}
ParseBootTimeSeconds(proc_stat) ==
  LET found == {n \in LineStarts(proc_stat) :
                  n + 1 <= Len(proc_stat) /\ proc_stat[n] = Btime /\ proc_stat[n + 1] = SpaceSymbol}
      first == CHOOSE n \in found : \A m \in found : n <= m
      line == SubSeq(proc_stat, first + 2, Len(proc_stat))
      ends == {n \in DOMAIN line : line[n] = EndLine}
  IN IF found = {} THEN <<>>
     ELSE ParseTokenAt(IF ends = {} THEN line
                       ELSE SubSeq(line, 1, (CHOOSE n \in ends : \A m \in ends : n <= m) - 1), 0)

\* The fields are counted from the last closing parenthesis; ticks since boot
\* are added to the time of the boot.
ParseProcProcessStartTime(proc_self_stat, proc_stat, ticks_per_second) ==
  LET comm_end == SelectLastInSeq(proc_self_stat, LAMBDA symbol : symbol = CloseSymbol)
      ticks == ParseTokenAt(SubSeq(proc_self_stat, comm_end + 1, Len(proc_self_stat)), 19)
      boot == ParseBootTimeSeconds(proc_stat)
  IN IF ticks_per_second <= 0 \/ comm_end = 0 \/ ticks = <<>> \/ boot = <<>> THEN <<>>
     ELSE IF ticks[1] < 0 THEN <<>>
     ELSE <<boot[1] * kMicrosecondsPerSecond
              + (ticks[1] * kMicrosecondsPerSecond) \div ticks_per_second>>

\* Either file may not open.
QueryProcessStartTime(readable) ==
  IF ~readable THEN <<>>
  ELSE ParseProcProcessStartTime(ProcSelfStat(proc), ProcStat(proc), proc.tick_rate)

-----------------------------------------------------------------------------
PsInit ==
  /\ proc \in [comm : CommTexts, ticks : Ticks, boot : {<<>>} \cup {<<b>> : b \in BootTimes},
               before : {<<>>, <<WordSymbol, SpaceSymbol, Btime, EndLine>>}, tick_rate : TicksPerSecond]
  /\ start_time = <<>>

\* The first call asks the system, and says now when it gets no answer; every
\* later call repeats it.
GetCurrentProcessStartTime(readable) ==
  /\ start_time' = IF start_time # <<>> THEN start_time
                   ELSE LET queried == QueryProcessStartTime(readable) IN
                        IF queried = <<>> THEN <<NowUtc>> ELSE queried
  /\ UNCHANGED proc

PsNext == \E readable \in BOOLEAN : GetCurrentProcessStartTime(readable)

-----------------------------------------------------------------------------
(* Properties *)

\* The start time is the one the kernel reports, whatever parentheses, spaces
\* and numbers the name of the executable has, or the time of the first call;
\* no other field of the line is ever taken for it (ParseProcProcessStartTime).
StartTimeIsTheKernels ==
  start_time \in {<<>>, <<NowUtc>>}
    \/ /\ proc.boot # <<>> /\ proc.tick_rate > 0
       /\ start_time = <<proc.boot[1] * kMicrosecondsPerSecond
                          + (proc.ticks * kMicrosecondsPerSecond) \div proc.tick_rate>>

-----------------------------------------------------------------------------
(***************************************************************************)
(* PathService: overrides, registered providers and the built-in paths of  *)
(* the process.  Get copies the providers under the mutex and asks them    *)
(* without it, since a provider may call Get itself; other threads         *)
(* register and override meanwhile.  A provider answers for the keys of    *)
(* its range, declines, or asks Get for a built-in path and extends it.    *)
(***************************************************************************)
CONSTANTS
  Threads,
  ProviderKinds,   \* external: what the functions that may be registered do
  MaxProviders,    \* bound: registrations
  OnWindows        \* the platform

ASSUME PathAssumption == MaxProviders \in Nat /\ OnWindows \in BOOLEAN

VARIABLES
  providers,   \* GetProviders
  overrides,   \* GetOverrides: key to path, "none" without
  calls,       \* each thread: its nested calls of Get, innermost last
  answers      \* each thread: what its last call answered and what it should

pvars == <<providers, overrides, calls, answers>>

-----------------------------------------------------------------------------
(* Keys: those of the process, and one of an application. *)

AppKey == "DIR_CONFIG"
BaseKeys == {"DIR_CURRENT", "DIR_TEMP", "FILE_EXE", "DIR_EXE"}
WindowsKeys == {"DIR_APP_DATA", "DIR_LOCAL_APP_DATA", "DIR_COMMON_APP_DATA", "DIR_WINDOWS"}

\* The built-in path of a key: DIR_EXE is the parent of FILE_EXE, which the
\* system may refuse to tell.
GetBuiltin(key, exe_known) ==
  CASE key \in {"FILE_EXE", "DIR_EXE"} -> IF exe_known THEN <<"builtin", key>> ELSE <<>>
    [] key \in {"DIR_CURRENT", "DIR_TEMP"} -> <<"builtin", key>>
    [] key \in WindowsKeys -> IF OnWindows THEN <<"builtin", key>> ELSE <<>>
    [] OTHER -> <<>>

Covers(entry, key) == key \in entry.keys

\* ProviderEntry: the range of keys and the function.
ProviderEntry(keys, func) == [keys |-> keys, func |-> func]

-----------------------------------------------------------------------------
\* What Get should answer when it takes the lock: the override, or the newest
\* provider of the key that does not decline, or the built-in path.
Willing(entries, key) ==
  {n \in DOMAIN entries : Covers(entries[n], key) /\ entries[n].func # "declines"}
Promised(key) ==
  IF overrides[key] # "none" THEN <<"override", overrides[key]>>
  ELSE IF Willing(providers, key) # {}
  THEN <<"provider", CHOOSE n \in Willing(providers, key) :
                       \A m \in Willing(providers, key) : m <= n>>
  ELSE <<"builtin", key>>

Frame(key, next, snapshot) ==
  [key |-> key, next |-> next, snapshot |-> snapshot, promised |-> Promised(key),
   nested |-> <<>>]

PInit ==
  /\ providers = <<>> /\ overrides = [k \in BaseKeys \cup {AppKey} |-> "none"]
  /\ calls = [t \in Threads |-> <<>>]
  /\ answers = [t \in Threads |-> [got |-> <<>>, promised |-> <<>>]]

RegisterProvider(keys, func) ==
  /\ Len(providers) < MaxProviders
  /\ providers' = Append(providers, ProviderEntry(keys, func))
  /\ UNCHANGED <<overrides, calls, answers>>

Override(key, path) ==
  /\ overrides[key] # path
  /\ overrides' = [overrides EXCEPT ![key] = path]
  /\ UNCHANGED <<providers, calls, answers>>

\* Get returns to its caller: the thread, or the provider that asked.
ReturnPath(t, stack, got, promised) ==
  IF stack = <<>>
  THEN calls' = [calls EXCEPT ![t] = <<>>]
       /\ answers' = [answers EXCEPT ![t] = [got |-> got, promised |-> promised]]
  ELSE calls' = [calls EXCEPT ![t] = [stack EXCEPT ![Len(stack)].nested = <<got>>]]
       /\ UNCHANGED answers

\* The section of Get under the mutex: an override answers, else the providers
\* are copied.
Enter(t, stack, key) ==
  /\ IF overrides[key] # "none"
     THEN ReturnPath(t, stack, <<"override", overrides[key]>>, Promised(key))
     ELSE calls' = [calls EXCEPT ![t] = Append(stack, Frame(key, Len(providers), providers))]
          /\ UNCHANGED answers
  /\ UNCHANGED <<providers, overrides>>

GetPath(t, key) == calls[t] = <<>> /\ Enter(t, <<>>, key)

\* Mutant: the oldest provider is asked first.
AskOldest(t) ==
  /\ calls[t] # <<>>
  /\ LET f == Last(calls[t])  n == Len(f.snapshot) + 1 - f.next IN
     /\ f.next > 0
     /\ LET entry == f.snapshot[n] IN
        IF Covers(entry, f.key) /\ entry.func # "declines"
        THEN ReturnPath(t, Front(calls[t]), <<"provider", n>>, f.promised)
        ELSE calls' = [calls EXCEPT ![t][Len(calls[t])].next = @ - 1]
             /\ UNCHANGED answers
  /\ UNCHANGED <<providers, overrides>>

\* The next provider of the copy, the latest first.  One that asks waits for
\* the answer of its own Get and then answers.
Ask(t) ==
  /\ calls[t] # <<>>
  /\ LET f == Last(calls[t]) IN
     /\ f.next > 0
     /\ LET entry == f.snapshot[f.next] IN
        \/ /\ ~Covers(entry, f.key) \/ entry.func = "declines"
           /\ calls' = [calls EXCEPT ![t][Len(calls[t])].next = @ - 1]
           /\ UNCHANGED <<providers, overrides, answers>>
        \/ /\ Covers(entry, f.key)
           /\ entry.func = "answers" \/ (entry.func = "asks" /\ f.nested # <<>>)
           /\ ReturnPath(t, Front(calls[t]), <<"provider", f.next>>, f.promised)
           /\ UNCHANGED <<providers, overrides>>
        \/ /\ Covers(entry, f.key) /\ entry.func = "asks" /\ f.nested = <<>>
           /\ Enter(t, calls[t], "DIR_EXE")

\* No provider is left.
FallBack(t) ==
  /\ calls[t] # <<>>
  /\ LET f == Last(calls[t]) IN
     /\ f.next = 0
     /\ \E exe_known \in BOOLEAN :
          ReturnPath(t, Front(calls[t]), GetBuiltin(f.key, exe_known), f.promised)
  /\ UNCHANGED <<providers, overrides>>

PNext ==
  \/ \E keys \in {{AppKey}, {AppKey, "DIR_TEMP"}}, func \in ProviderKinds :
       RegisterProvider(keys, func)
  \/ \E key \in {AppKey, "DIR_EXE"} : Override(key, "other")
  \/ \E t \in Threads, key \in {AppKey, "DIR_TEMP", "DIR_EXE"} : GetPath(t, key)
  \/ \E t \in Threads : Ask(t) \/ FallBack(t)

-----------------------------------------------------------------------------
(* Properties *)

\* The answer of Get is the one the overrides and providers gave at the moment
\* it took the lock, the latest registration first, whatever other threads
\* register or override while the providers are asked, and however deep the
\* providers call Get themselves (PathService::Get).
AnswerIsOfOneMoment ==
  \A t \in Threads : answers[t].got # <<>> => answers[t].got = answers[t].promised
=============================================================================

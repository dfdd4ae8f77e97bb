----------------------------- MODULE Containers -----------------------------
(***************************************************************************)
(* Containers with rules of their own: caches, intervals and limiters,     *)
(* lists of observers that change while they are walked, and the queue of  *)
(* view events.                                                            *)
(***************************************************************************)
EXTENDS Integers, Sequences, FiniteSets, SequencesExt

(***************************************************************************)
(* Containers whose state is more than their contents: MRUCache            *)
(* (base/containers/mru_cache.h), TimedCache (base/timed_cache.h),         *)
(* RateLimiter (base/rate_limiter.h) and lists of intervals                *)
(* (base/interval.h, base/interval_util.h).                                *)
(***************************************************************************)
CONSTANTS
  CacheKeys,
  MaxSize,         \* of the MRU cache
  CacheDuration,   \* of the timed cache, in timer periods
  MaxRate, MaxBurst,
  RateTicks,  \* the clock is finer than the second the limiter counts in
  Bounds,          \* end points of intervals
  MaxNow           \* bound: steps of the clock in a behaviour

VARIABLES
  part,        \* which of the containers this behaviour uses
  time_now,         \* the clock
  ordering_,   \* MRUCache: keys, most recently used first
  index_,      \* MRUCache: the keys of its map
  used,        \* when a key was last put or got
  map_,        \* TimedCache: key -> expiration_time, 0 when not started
  in_use,      \* the values somebody else still holds
  idle,        \* for how many timer periods a value was found unused
  dropped,     \* a value was dropped that was not unused for long enough
  tokens_, last_time_, allowed,   \* RateLimiter, and the requests it allowed
  intervals, spanned, told_true        \* intervals, what they cover, and whether
                                  \* the last answer said so

nvars == <<part, time_now, ordering_, index_, used, map_, in_use, idle, dropped,
           tokens_, last_time_, allowed, intervals, spanned, told_true>>

mru == <<ordering_, index_, used>>
timed == <<map_, in_use, idle, dropped>>
rate == <<tokens_, last_time_, allowed>>
spans == <<intervals, spanned, told_true>>

NInit ==
  /\ part \in {"mru", "timed", "rate", "intervals"} /\ time_now = 1
  /\ ordering_ = <<>> /\ index_ = {} /\ used = [k \in CacheKeys |-> 0]
  /\ map_ = <<>> /\ in_use = {} /\ idle = [k \in CacheKeys |-> 0]
  /\ dropped = FALSE
  /\ tokens_ = MaxBurst /\ last_time_ = 1 /\ allowed = 0
  /\ intervals = <<>> /\ spanned = {} /\ told_true = TRUE

Advance == time_now < MaxNow /\ time_now' = time_now + 1

-----------------------------------------------------------------------------
(* MRUCache *)

Without(key) == SelectSeq(ordering_, LAMBDA k : k # key)

\* Put replaces an entry of the same key, and evicts from the back.
Put(key) ==
  LET ordering == <<key>> \o Without(key)
  IN /\ part = "mru" /\ Advance
     /\ ordering_' = SubSeq(ordering, 1,
                            IF Len(ordering) > MaxSize THEN MaxSize ELSE Len(ordering))
     /\ index_' = (index_ \cup {key})
                    \ {ordering[i] : i \in MaxSize + 1..Len(ordering)}
     /\ used' = [used EXCEPT ![key] = time_now']
     /\ UNCHANGED <<part, timed, rate, spans>>

\* Get moves a hit to the front.
Moved(key) == <<key>> \o Without(key)

Get(key) ==
  /\ part = "mru" /\ key \in index_ /\ Advance
  /\ ordering_' = Moved(key)
  /\ used' = [used EXCEPT ![key] = time_now']
  /\ UNCHANGED <<part, index_, timed, rate, spans>>

EraseEntry(key) ==
  /\ part = "mru" /\ key \in index_
  /\ index_' = index_ \ {key} /\ ordering_' = Without(key)
  /\ UNCHANGED <<part, time_now, used, timed, rate, spans>>

-----------------------------------------------------------------------------
(* TimedCache *)

Add(key) ==
  /\ part = "timed" /\ key \notin DOMAIN map_
  /\ map_' = [k \in DOMAIN map_ \cup {key} |-> IF k = key THEN 0 ELSE map_[k]]
  /\ in_use' = in_use \cup {key}
  /\ idle' = [idle EXCEPT ![key] = 0]
  /\ UNCHANGED <<part, time_now, dropped, mru, rate, spans>>

\* The value found is taken into use, or given back.
FindOrRelease(key) ==
  /\ part = "timed" /\ key \in DOMAIN map_
  /\ in_use' = IF key \in in_use THEN in_use \ {key} ELSE in_use \cup {key}
  /\ UNCHANGED <<part, time_now, map_, idle, dropped, mru, rate, spans>>

IsTimedCacheExpired(key) == key \notin in_use

Expired(key) ==
  IsTimedCacheExpired(key) /\ map_[key] # 0 /\ time_now' - map_[key] >= CacheDuration

Expiration(key) ==
  IF ~IsTimedCacheExpired(key) THEN 0
  ELSE IF map_[key] = 0 THEN time_now' ELSE map_[key]

\* One pass per timer period.
OnTimer ==
  /\ part = "timed" /\ Advance
  /\ LET gone == {k \in DOMAIN map_ : Expired(k)}
     IN /\ map_' = [k \in DOMAIN map_ \ gone |-> Expiration(k)]
        /\ idle' = [k \in CacheKeys |->
                      IF IsTimedCacheExpired(k) THEN idle[k] + 1 ELSE 0]
        /\ dropped' = (dropped \/ \E k \in gone : idle[k] < CacheDuration)
  /\ UNCHANGED <<part, in_use, mru, rate, spans>>

-----------------------------------------------------------------------------
(* RateLimiter *)

ClockTick ==
  /\ part = "rate" /\ Advance
  /\ UNCHANGED <<part, mru, timed, rate, spans>>

\* Whole seconds since the last request.
Elapsed == (time_now - last_time_) \div RateTicks

Refill ==
  LET tokens == tokens_ + Elapsed * MaxRate
  IN IF tokens > MaxBurst THEN MaxBurst ELSE tokens

Request ==
  /\ part = "rate" /\ allowed < MaxNow * MaxRate + MaxBurst + 1
  /\ last_time_' = time_now
  /\ IF Refill = 0
     THEN tokens_' = 0 /\ UNCHANGED allowed
     ELSE tokens_' = Refill - 1 /\ allowed' = allowed + 1
  /\ UNCHANGED <<part, time_now, mru, timed, spans>>

-----------------------------------------------------------------------------
(* Intervals *)

Intervals == {<<a, b>> \in Bounds \X Bounds : a <= b}

\* What an interval covers, end points and the open stretches between them.
Points(interval) == 2 * interval[1]..2 * interval[2]

IsValidInterval(i) == i[1] <= i[2]
IntervalContains(a, b) == a[1] <= b[1] /\ b[2] <= a[2]

Before(a, b) == a[1] < b[1] \/ (a[1] = b[1] /\ a[2] <= b[2])
AreValidIntervals(s) ==
  /\ \A i \in DOMAIN s : IsValidInterval(s[i])
  /\ \A i \in 1..Len(s) - 1 : Before(s[i], s[i + 1])

\* std::lower_bound by the end of an interval.
LowerBound(s, bound) == Cardinality({i \in DOMAIN s : s[i][2] < bound}) + 1

IntervalsContain(s, interval) ==
  LET i == LowerBound(s, interval[1])
  IN i <= Len(s) /\ IntervalContains(s[i], interval)

\* std::upper_bound by the start of an interval, from i on.
UpperBound(s, i, bound) ==
  i + Cardinality({k \in i..Len(s) : s[k][1] <= bound})

Min2(a, b) == IF a < b THEN a ELSE b
Max2(a, b) == IF a > b THEN a ELSE b

UnionIntervals(s, interval) ==
  LET i == LowerBound(s, interval[1])
      j == UpperBound(s, i, interval[2])
  IN IF i > Len(s) \/ interval[2] < s[i][1]
     THEN <<InsertAt(s, i, interval), TRUE>>
     ELSE IF IntervalContains(s[i], interval) THEN <<s, FALSE>>
     ELSE <<SubSeq(s, 1, i - 1)
              \o <<<<Min2(s[i][1], interval[1]), Max2(s[j - 1][2], interval[2])>>>>
              \o SubSeq(s, j, Len(s)), TRUE>>

AddInterval(interval) ==
  /\ part = "intervals"
  /\ LET result == UnionIntervals(intervals, interval)
     IN /\ intervals' = result[1]
        /\ told_true' = (result[2] <=> ~(Points(interval) \subseteq spanned))
  /\ spanned' = spanned \cup Points(interval)
  /\ UNCHANGED <<part, time_now, mru, timed, rate>>

NNext ==
  \/ \E k \in CacheKeys : Put(k) \/ Get(k) \/ EraseEntry(k)
  \/ \E k \in CacheKeys : Add(k) \/ FindOrRelease(k)
  \/ OnTimer
  \/ ClockTick \/ Request
  \/ part = "intervals" /\ \E i \in Intervals : AddInterval(i)

-----------------------------------------------------------------------------
(* Properties *)

\* The cache keeps the most recently put or got keys, in that order, and its
\* map and its list name the same ones (mru_cache.h, Put, Get and Erase).
MostRecentAreKept ==
  /\ index_ = ToSet(ordering_) /\ Len(ordering_) <= MaxSize
  /\ \A i, j \in DOMAIN ordering_ : i < j => used[ordering_[i]] > used[ordering_[j]]

\* A value is dropped only after the timer found it unused, time after time,
\* for the duration of the cache (timed_cache.h, OnTimer).
OnlyUnusedIsDropped == ~dropped

\* The requests allowed never exceed the burst and the rate over the time that
\* passed, however requests and ticks fall (rate_limiter.h, Request).
RateIsBounded ==
  part = "rate" =>
    allowed <= MaxBurst + ((time_now - 1) \div RateTicks) * MaxRate

\* After any sequence of unions the intervals cover exactly what was added, are
\* sorted, neither overlap nor touch, and contain an interval exactly when all
\* of it is covered; a union says whether it covered more than before (interval_util.h, UnionIntervals and IntervalsContain).
UnionIsExact ==
  part = "intervals" =>
    /\ told_true /\ AreValidIntervals(intervals)
    /\ \A i \in 1..Len(intervals) - 1 : intervals[i][2] < intervals[i + 1][1]
    /\ spanned = UNION {Points(intervals[i]) : i \in DOMAIN intervals}
    /\ \A i \in Intervals :
         IntervalsContain(intervals, i) <=> Points(i) \subseteq spanned

-----------------------------------------------------------------------------
(***************************************************************************)
(* scada::base::ObserverList (base/observer_list.h): observers that are    *)
(* added and removed from inside the callbacks of loops over the list,     *)
(* nested loops included.  A loop is a range-based for, which fixes its    *)
(* end when it begins, or an Iterator, which looks at the list each time.  *)
(***************************************************************************)
CONSTANTS
  Observers,
  MaxSlots,    \* bound: length the vector may grow to
  MaxDepth     \* bound: nested loops

Null == "null"

VARIABLES
  observers_,   \* the vector, with Null for an observer removed in a loop
  null_count_,
  loops,        \* the loops under way, the innermost last
  missed,       \* a loop ended without calling one that stayed registered
  overrun       \* a loop read past the end of the vector

ovars == <<observers_, null_count_, loops, missed, overrun>>

OInit ==
  /\ observers_ = <<>> /\ null_count_ = 0 /\ loops = <<>>
  /\ missed = FALSE /\ overrun = FALSE

Registered == ToSet(observers_) \ {Null}
iteration_depth_ == Len(loops)

HasObserver(o) == o \in Registered

AddObserver(o) ==
  /\ ~HasObserver(o) /\ Len(observers_) < MaxSlots
  /\ observers_' = Append(observers_, o)
  /\ UNCHANGED <<null_count_, loops, missed, overrun>>

\* Loops still owe a call to the observers that were there when they began.
Excused(o) == [i \in DOMAIN loops |-> [loops[i] EXCEPT !.due = @ \ {o}]]

RemoveObserver(o) ==
  /\ HasObserver(o)
  /\ IF iteration_depth_ > 0
     THEN /\ observers_' = [i \in DOMAIN observers_ |->
                              IF observers_[i] = o THEN Null ELSE observers_[i]]
          /\ null_count_' = null_count_ + 1
     ELSE /\ observers_' = SelectSeq(observers_, LAMBDA x : x # o)
          /\ UNCHANGED null_count_
  /\ loops' = Excused(o)
  /\ UNCHANGED <<missed, overrun>>

\* The first index from i on that holds an observer, or the size.
SkipNulls(i) ==
  LET found == {j \in i..Len(observers_) : observers_[j] # Null}
  IN IF found = {} THEN Len(observers_) + 1 ELSE CHOOSE j \in found : \A k \in found : j <= k

\* RangeIterator::operator!= compares the index with the end that was taken
\* when the loop began; Iterator::GetNext compares it with the size.
AtEnd(loop, i) ==
  IF loop.range THEN i = loop.end ELSE i > Len(observers_)

\* The innermost loop moves to index i: it ends, or calls the observer there.
\* The last loop to end compacts the vector.
MoveTo(outer, loop, i) ==
  IF AtEnd(loop, i)
  THEN /\ loops' = outer
       /\ missed' = (missed \/ loop.due # {})
       /\ IF outer = <<>> /\ null_count_ > 0
          THEN /\ observers_' = SelectSeq(observers_, LAMBDA x : x # Null)
               /\ null_count_' = 0
          ELSE UNCHANGED <<observers_, null_count_>>
       /\ UNCHANGED overrun
  ELSE IF i > Len(observers_)
  THEN overrun' = TRUE /\ UNCHANGED <<observers_, null_count_, loops, missed>>
  ELSE /\ loops' = Append(outer, [loop EXCEPT !.index = i,
                                              !.due = @ \ {observers_[i]}])
       /\ UNCHANGED <<observers_, null_count_, missed, overrun>>

\* begin() and end(), or an Iterator and its first GetNext.
BeginLoop(range) ==
  /\ ~overrun /\ iteration_depth_ < MaxDepth
  /\ MoveTo(loops,
            [range |-> range, index |-> 0, end |-> Len(observers_) + 1,
             due |-> Registered],
            SkipNulls(1))

\* The callback returned: operator++, or GetNext.
NextObserver ==
  /\ ~overrun /\ loops # <<>>
  /\ MoveTo(Front(loops), Last(loops), SkipNulls(Last(loops).index + 1))

ONext ==
  \/ \E o \in Observers : ~overrun /\ AddObserver(o)
  \/ \E o \in Observers : ~overrun /\ RemoveObserver(o)
  \/ \E range \in BOOLEAN : BeginLoop(range)
  \/ NextObserver

-----------------------------------------------------------------------------
(* Properties *)

\* A loop calls every observer that is registered from its beginning to its
\* end, whatever the callbacks add and remove and however loops nest
\* (observer_list.h, RemoveObserver, SkipNulls and Compact).
LoopReachesAll == ~missed

\* A loop never reads past the end of the vector (observer_list.h,
\* RangeIterator).
LoopStaysInside == ~overrun

-----------------------------------------------------------------------------
(***************************************************************************)
(* ViewEventQueue (remote/view_event_queue.h): model changes of a node are *)
(* merged into one event, equal semantic changes into one.  A verb is a    *)
(* set of bits.                                                            *)
(***************************************************************************)
CONSTANTS
  Nodes,
  Types,          \* type definitions of nodes
  Verbs,          \* bits of ModelChangeEvent::verb
  MaxEvents       \* bound: events added in a behaviour

VARIABLES
  queue_,
  added           \* events added since the queue was last emptied

vvars == <<queue_, added>>

VInit == queue_ = <<>> /\ added = <<>>

ModelChange(node, type, verb) ==
  [kind |-> "model", node |-> node, type |-> type, verb |-> verb]

SemanticChange(node, type) ==
  [kind |-> "semantic", node |-> node, type |-> type, verb |-> {}]

\* A later change of the same node adds its verbs; a deletion stands alone.
Merged(queued, event) ==
  LET verb == queued.verb \cup event.verb
  IN [queued EXCEPT !.type = IF @ = <<>> THEN event.type ELSE @,
                    !.verb = IF "NodeDeleted" \in verb THEN {"NodeDeleted"}
                             ELSE verb]

SameNode(event) ==
  {i \in DOMAIN queue_ : queue_[i].kind = "model" /\ queue_[i].node = event.node}

AddModelChange(event) ==
  queue_' = IF SameNode(event) # {}
            THEN LET i == CHOOSE i \in SameNode(event) :
                            \A j \in SameNode(event) : i <= j
                 IN [queue_ EXCEPT ![i] = Merged(@, event)]
            ELSE Append(queue_, event)

AddNodeSemanticChange(event) ==
  queue_' = IF Contains(queue_, event) THEN queue_ ELSE Append(queue_, event)

GetEvents ==
  /\ queue_ # <<>>
  /\ queue_' = <<>> /\ added' = <<>>

\* A service reports a deletion by itself.
ReportedVerbs ==
  {{"NodeDeleted"}} \cup (SUBSET (Verbs \ {"NodeDeleted"}) \ {{}})

AddEvent ==
  /\ Len(added) < MaxEvents
  /\ \E node \in Nodes, type \in {<<>>} \cup {<<t>> : t \in Types} :
       \/ \E verb \in ReportedVerbs :
            /\ AddModelChange(ModelChange(node, type, verb))
            /\ added' = Append(added, ModelChange(node, type, verb))
       \/ /\ AddNodeSemanticChange(SemanticChange(node, type))
          /\ added' = Append(added, SemanticChange(node, type))

VNext == AddEvent \/ GetEvents

-----------------------------------------------------------------------------
\* The queue holds what was added since it was emptied, in fewer events: one
\* model change per node, which names every verb reported for it, or the
\* deletion alone, and each semantic change once.
NoChangeIsForgotten ==
  /\ \A e \in Range(added) :
       \E q \in Range(queue_) :
         /\ q.kind = e.kind /\ q.node = e.node
         /\ q.kind = "semantic" => q = e
         /\ e.verb \subseteq q.verb \/ q.verb = {"NodeDeleted"}
  /\ \A q \in Range(queue_) : "NodeDeleted" \in q.verb => q.verb = {"NodeDeleted"}
  /\ \A i, j \in DOMAIN queue_ :
       i # j /\ queue_[i].kind = queue_[j].kind =>
         IF queue_[i].kind = "model" THEN queue_[i].node # queue_[j].node
         ELSE queue_[i] # queue_[j]
=============================================================================

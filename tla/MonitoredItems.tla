--------------------------- MODULE MonitoredItems ---------------------------
(***************************************************************************)
(* Monitored items across the wire: the client's SubscriptionProxy and     *)
(* MonitoredItemProxy, the server's SubscriptionStub, and the two FIFO     *)
(* directions of the session's transport between them.  The session itself *)
(* (SessionProxy, RemoteSessions) appears only as SessionCreated and       *)
(* SessionLost, which open and close the channel.                          *)
(*                                                                         *)
(* All items watch one source.  A data value keeps what the proxies look   *)
(* at: its source and server time, its status and the OFFLINE and FAILED   *)
(* flags of its qualifier; source time 0 is the null time.                 *)
(*                                                                         *)
(* A failed base::Check aborts the client: `panic` names it and nothing    *)
(* more happens.                                                           *)
(***************************************************************************)
EXTENDS Naturals, Sequences, FiniteSets

CONSTANTS Items,        \* monitored items the application creates
          MaxSessions,  \* bound on the sessions of a behaviour
          MaxIds,       \* bound on the monitored item ids of one session
          MaxPosted,    \* bound on the notifications the server has posted
          MaxClock,     \* bound on the time
          None

ASSUME ConstantsAssumption ==
  /\ MaxSessions \in Nat /\ MaxIds \in Nat /\ MaxPosted \in Nat
  /\ MaxClock \in Nat \ {0}
  /\ None \notin Items /\ IsFiniteSet(Items) /\ Cardinality(Items) \in Nat

VARIABLES
  sender_,             \* SubscriptionProxy: whether the channel is open
  subscription,        \* SubscriptionProxy::state_
  life,                \* whether the item object exists
  subscribed_, channel_opened_, state_, monitored_item_id_, current_data_,
  shown,               \* the value last given to the item's handler
  monitored_item_ids_, \* the router: which item observes an id
  toServer, toClient,  \* the transport
  stub,                \* whether the server has the subscription
  monitored_items_,    \* SubscriptionStub: the item each id stands for
  next_monitored_item_id_,
  posted,              \* notifications posted to the server's executor
  pushed,              \* the last value the backend pushed for an id
  owner,               \* the item each id of this session was made for
  source,              \* the source's value
  clock, sessions, panic

client == <<sender_, subscription, life, subscribed_, channel_opened_, state_,
            monitored_item_id_, current_data_, shown, monitored_item_ids_>>
server == <<stub, monitored_items_, next_monitored_item_id_, posted, pushed,
            owner>>
vars == <<client, server, toServer, toClient, source, clock,
          sessions, panic>>

Ids == 1..MaxIds
DataValue == [src : 0..MaxClock, srv : 0..MaxClock, status : {"Good", "Bad"},
              offline : BOOLEAN, failed : BOOLEAN]
NoData == [src |-> 0, srv |-> 0, status |-> "Good", offline |-> FALSE,
           failed |-> FALSE]
Sample(t) == [NoData EXCEPT !.src = t, !.srv = t]
MakeFailure(t) == [NoData EXCEPT !.srv = t, !.status = "Bad"]

TypeOK ==
  /\ sender_ \in BOOLEAN
  /\ subscription \in {"DELETED", "CREATING", "CREATED"}
  /\ life \in [Items -> {"unborn", "alive", "gone"}]
  /\ subscribed_ \in [Items -> BOOLEAN] /\ channel_opened_ \in [Items -> BOOLEAN]
  /\ state_ \in [Items -> {"DELETED", "CREATING", "CREATED"}]
  /\ monitored_item_id_ \in [Items -> 0..MaxIds]
  /\ current_data_ \in [Items -> DataValue] /\ shown \in [Items -> DataValue]
  /\ monitored_item_ids_ \in [Ids -> Items \cup {None}]
  /\ stub \in BOOLEAN
  /\ monitored_items_ \in [Ids -> Items \cup {None}]
  /\ next_monitored_item_id_ \in 1..(MaxIds + 1)
  /\ posted \in Seq(Ids \X DataValue)
  /\ pushed \in [Ids -> DataValue] /\ owner \in [Ids -> Items \cup {None}]
  /\ source \in DataValue /\ clock \in 1..MaxClock
  /\ sessions \in 0..MaxSessions
  /\ panic \subseteq {"router_", "observer", "channel"}

\* The first id of a SubscriptionStub.
FirstId == 1

Blank(x) == [id \in Ids |-> x]

Init ==
  /\ sender_ = FALSE /\ subscription = "DELETED"
  /\ life = [i \in Items |-> "unborn"]
  /\ subscribed_ = [i \in Items |-> FALSE]
  /\ channel_opened_ = [i \in Items |-> FALSE]
  /\ state_ = [i \in Items |-> "DELETED"]
  /\ monitored_item_id_ = [i \in Items |-> 0]
  /\ current_data_ = [i \in Items |-> NoData] /\ shown = [i \in Items |-> NoData]
  /\ monitored_item_ids_ = Blank(None)
  /\ toServer = <<>> /\ toClient = <<>>
  /\ stub = FALSE /\ monitored_items_ = Blank(None)
  /\ next_monitored_item_id_ = FirstId /\ posted = <<>>
  /\ pushed = Blank(NoData) /\ owner = Blank(None)
  /\ source = Sample(1) /\ clock = 1 /\ sessions = 0 /\ panic = {}

(***************************************************************************)
(* Data values                                                             *)
(***************************************************************************)
IsUpdate(current, new) ==
  \/ current.src = 0
  \/ current.src < new.src
  \/ current.src = new.src /\ current.srv <= new.srv

\* What UpdateQualifier makes of the current data, for the two flags added.
Requalified(d, status, offline, failed) ==
  [d EXCEPT !.status = status, !.offline = @ \/ offline, !.failed = @ \/ failed]

\* An item is looked at as live when its value is good and online.
LooksLive(d) == d.src # 0 /\ d.status = "Good" /\ ~d.offline /\ ~d.failed

\* A request names the item whose creation it asks for, None standing for
\* CreateSubscription.  Its response handler is registered exactly while the
\* proxy is CREATING; a delete has no handler.
CreateRequest(i) == <<"create", i>>
DeleteRequest(id) == <<"delete", id>>

Alive == {i \in Items : life[i] = "alive"}

Running == panic = {}

(***************************************************************************)
(* The application and the client's proxies                                *)
(***************************************************************************)
\* CreateStub of the items in S, in some order of the list of items.
CreateStubs(S) ==
  \E n \in 0..Cardinality(Items) : \E q \in [1..n -> S] :
    /\ \A i \in S : \E k \in 1..n : q[k] = i
    /\ \A j, k \in 1..n : q[j] = q[k] => j = k
    /\ toServer' = toServer \o [k \in 1..n |-> CreateRequest(q[k])]

\* MonitoredItemProxy::OnChannelOpened for the items in S: a subscribed item
\* shows its last value as offline and asks the server for a stub.
OnItemsOpened(S) ==
  LET told == {i \in S : subscribed_[i]}
      data == [i \in Items |->
        IF i \in told THEN [current_data_[i] EXCEPT !.srv = clock,
                                                    !.offline = TRUE,
                                                    !.failed = FALSE]
        ELSE current_data_[i]] IN
  /\ channel_opened_' = [i \in Items |-> channel_opened_[i] \/ i \in S]
  /\ current_data_' = data
  /\ shown' = [i \in Items |-> IF i \in told THEN data[i] ELSE shown[i]]
  /\ state_' = [i \in Items |-> IF i \in told THEN "CREATING" ELSE state_[i]]
  /\ CreateStubs(told)
  /\ panic' = IF \E i \in S : channel_opened_[i] \/ state_[i] # "DELETED"
              THEN panic \cup {"channel"} ELSE panic

\* SubscriptionProxy::CreateMonitoredItem.
CreateMonitoredItem(i) ==
  /\ Running /\ life[i] = "unborn"
  /\ life' = [life EXCEPT ![i] = "alive"]
  /\ IF subscription = "CREATED" THEN OnItemsOpened({i})
     ELSE UNCHANGED <<channel_opened_, current_data_, shown, state_, toServer, panic>>
  /\ UNCHANGED <<sender_, subscription, subscribed_, monitored_item_id_,
                 monitored_item_ids_, toClient, server, source, clock, sessions>>

\* MonitoredItemProxy::Subscribe, called once.
Subscribe(i) ==
  /\ Running /\ life[i] = "alive" /\ ~subscribed_[i]
  /\ subscribed_' = [subscribed_ EXCEPT ![i] = TRUE]
  /\ \/ /\ channel_opened_[i]
        /\ state_' = [state_ EXCEPT ![i] = "CREATING"]
        /\ CreateStubs({i})
     \/ ~channel_opened_[i] /\ UNCHANGED <<state_, toServer>>
  /\ UNCHANGED <<sender_, subscription, life, channel_opened_,
                 monitored_item_id_, current_data_, shown, monitored_item_ids_,
                 toClient, server, source, clock, sessions, panic>>

\* Mutant: an item that goes keeps its entry in the router.
KeepObservers(S) == UNCHANGED monitored_item_ids_

\* RemoveMonitoredItemDataObserver for the items in S.
RemoveObservers(S) ==
  /\ monitored_item_ids_' = [id \in Ids |->
       IF \E i \in S : monitored_item_id_[i] = id THEN None
       ELSE monitored_item_ids_[id]]

\* ~MonitoredItemProxy: only a created stub is deleted.
DestroyItem(i) ==
  /\ Running /\ life[i] = "alive"
  /\ life' = [life EXCEPT ![i] = "gone"]
  /\ state_' = [state_ EXCEPT ![i] = "DELETED"]
  /\ \/ /\ state_[i] = "CREATED"
        /\ RemoveObservers({i})
        /\ toServer' = Append(toServer, DeleteRequest(monitored_item_id_[i]))
        /\ panic' = IF monitored_item_ids_[monitored_item_id_[i]] = None
                    THEN panic \cup {"observer"} ELSE panic
     \/ /\ state_[i] # "CREATED"
        /\ UNCHANGED <<monitored_item_ids_, toServer, panic>>
  /\ monitored_item_id_' = [monitored_item_id_ EXCEPT ![i] = 0]
  /\ UNCHANGED <<sender_, subscription, subscribed_, channel_opened_,
                 current_data_, shown, toClient, server, source,
                 clock, sessions>>

\* SessionProxy::OnSessionCreated opens the channel; a new SessionStub has no
\* subscription yet.
SessionCreated ==
  /\ Running /\ ~sender_ /\ sessions < MaxSessions
  /\ sessions' = sessions + 1
  /\ sender_' = TRUE /\ subscription' = "CREATING"
  /\ toServer' = <<CreateRequest(None)>>
  /\ panic' = IF subscription # "DELETED" THEN panic \cup {"channel"} ELSE panic
  /\ UNCHANGED <<life, subscribed_, channel_opened_, state_, monitored_item_id_,
                 current_data_, shown, monitored_item_ids_, toClient, server,
                 source, clock>>

\* What failing the pending requests and then closing the channel leaves of an
\* item: a stub in creation has failed, a created one goes offline.
DataAfterLoss(i) ==
  CASE life[i] = "alive" /\ state_[i] = "CREATING" ->
         Requalified(current_data_[i], "Bad", FALSE, TRUE)
    [] life[i] = "alive" /\ state_[i] = "CREATED" ->
         Requalified(current_data_[i], current_data_[i].status, TRUE, FALSE)
    [] OTHER -> current_data_[i]

\* SessionProxy::OnSessionDeleted: every pending request fails, then
\* SubscriptionProxy::OnChannelClosed closes every item there is.  The
\* server's stub goes with the session.
SessionLost ==
  /\ Running /\ sender_
  /\ sender_' = FALSE /\ subscription' = "DELETED"
  /\ toServer' = <<>> /\ toClient' = <<>>
  /\ state_' = [i \in Items |-> "DELETED"]
  /\ channel_opened_' = [i \in Items |-> channel_opened_[i] /\ i \notin Alive]
  /\ monitored_item_id_' = [i \in Items |-> 0]
  /\ RemoveObservers({i \in Alive : state_[i] = "CREATED"})
  /\ current_data_' = [i \in Items |-> DataAfterLoss(i)]
  /\ shown' = [i \in Items |->
       IF DataAfterLoss(i) # current_data_[i] THEN DataAfterLoss(i)
       ELSE shown[i]]
  /\ panic' = panic
       \cup (IF \E i \in Alive : ~channel_opened_[i] THEN {"router_"} ELSE {})
       \cup (IF \E i \in Alive : state_[i] = "CREATED"
                  /\ monitored_item_ids_[monitored_item_id_[i]] = None
             THEN {"observer"} ELSE {})
  /\ stub' = FALSE /\ monitored_items_' = Blank(None)
  /\ next_monitored_item_id_' = FirstId /\ posted' = <<>>
  /\ pushed' = Blank(NoData) /\ owner' = Blank(None)
  /\ UNCHANGED <<life, subscribed_, source, clock, sessions>>

(***************************************************************************)
(* Messages that reach the client                                          *)
(***************************************************************************)
Arrives(kind) == Running /\ toClient # <<>> /\ Head(toClient)[1] = kind

\* OnCreateSubscriptionResult: the items that exist by now are opened.
CreateSubscriptionResult ==
  /\ Arrives("subscription")
  /\ subscription' = "CREATED"
  /\ OnItemsOpened(Alive)
  /\ toClient' = Tail(toClient)
  /\ UNCHANGED <<sender_, life, subscribed_, monitored_item_id_,
                 monitored_item_ids_, server, source, clock, sessions>>

\* OnCreateMonitoredItemResult, id 0 standing for a bad status.  The handler is
\* bound weakly: for an item that is gone it does nothing.
CreateMonitoredItemResult ==
  /\ Arrives("item")
  /\ LET i == Head(toClient)[2]
         id == Head(toClient)[3]
         data == Requalified(current_data_[i], "Bad", FALSE, TRUE) IN
     /\ \/ /\ life[i] = "alive" /\ channel_opened_[i] /\ state_[i] = "CREATING"
           /\ id # 0
           /\ state_' = [state_ EXCEPT ![i] = "CREATED"]
           /\ monitored_item_id_' = [monitored_item_id_ EXCEPT ![i] = id]
           /\ monitored_item_ids_' = [monitored_item_ids_ EXCEPT ![id] = i]
           /\ panic' = IF monitored_item_ids_[id] # None
                       THEN panic \cup {"observer"} ELSE panic
           /\ UNCHANGED <<current_data_, shown>>
        \/ /\ life[i] = "alive" /\ channel_opened_[i] /\ state_[i] = "CREATING"
           /\ id = 0
           /\ state_' = [state_ EXCEPT ![i] = "DELETED"]
           /\ current_data_' = [current_data_ EXCEPT ![i] = data]
           /\ shown' = IF data = current_data_[i] THEN shown
                       ELSE [shown EXCEPT ![i] = data]
           /\ UNCHANGED <<monitored_item_id_, monitored_item_ids_, panic>>
        \/ /\ life[i] # "alive"
           /\ UNCHANGED <<state_, monitored_item_id_, monitored_item_ids_,
                          current_data_, shown, panic>>
  /\ toClient' = Tail(toClient)
  /\ UNCHANGED <<sender_, subscription, life, subscribed_, channel_opened_,
                 toServer, server, source, clock, sessions>>

\* Mutant: a value that is no update is not shown, and does not stop the item.
OnlyUpdatesShown(i, value) ==
  /\ current_data_' = IF IsUpdate(current_data_[i], value)
                      THEN [current_data_ EXCEPT ![i] = value]
                      ELSE current_data_
  /\ shown' = [shown EXCEPT ![i] = current_data_'[i]]
  /\ UNCHANGED <<state_, monitored_item_id_, monitored_item_ids_>>

\* Mutant: a bad value stops the item before it is compared with the current
\* data, and only an update is shown.
StopsUnshown(i, value) ==
  /\ IF value.status = "Bad"
     THEN /\ state_' = [state_ EXCEPT ![i] = "DELETED"]
          /\ monitored_item_ids_' =
               [monitored_item_ids_ EXCEPT ![monitored_item_id_[i]] = None]
          /\ monitored_item_id_' = [monitored_item_id_ EXCEPT ![i] = 0]
     ELSE UNCHANGED <<state_, monitored_item_id_, monitored_item_ids_>>
  /\ IF IsUpdate(current_data_[i], value)
     THEN /\ current_data_' = [current_data_ EXCEPT ![i] = value]
          /\ shown' = [shown EXCEPT ![i] = value]
     ELSE UNCHANGED <<current_data_, shown>>

\* MonitoredItemProxy::OnDataChange of item i.
OnItemDataChange(i, value) ==
  \/ /\ value = current_data_[i]
     /\ UNCHANGED <<state_, monitored_item_id_, monitored_item_ids_,
                    current_data_, shown>>
  \/ /\ value # current_data_[i]
     /\ IF value.status = "Bad"
        THEN /\ state_' = [state_ EXCEPT ![i] = "DELETED"]
             /\ monitored_item_ids_' =
                  [monitored_item_ids_ EXCEPT ![monitored_item_id_[i]] = None]
             /\ monitored_item_id_' = [monitored_item_id_ EXCEPT ![i] = 0]
        ELSE UNCHANGED <<state_, monitored_item_id_, monitored_item_ids_>>
     /\ current_data_' = IF IsUpdate(current_data_[i], value)
                         THEN [current_data_ EXCEPT ![i] = value]
                         ELSE current_data_
     /\ shown' = [shown EXCEPT ![i] = value]

\* SubscriptionProxy::OnDataChange: an id nobody observes is passed over.
DataChangeNotification ==
  /\ Arrives("data")
  /\ LET i == monitored_item_ids_[Head(toClient)[2]] IN
     \/ i # None /\ OnItemDataChange(i, Head(toClient)[3])
     \/ /\ i = None
        /\ UNCHANGED <<state_, monitored_item_id_, monitored_item_ids_,
                       current_data_, shown>>
  /\ toClient' = Tail(toClient)
  /\ UNCHANGED <<sender_, subscription, life, subscribed_, channel_opened_,
                 toServer, server, source, clock, sessions, panic>>

(***************************************************************************)
(* The server                                                              *)
(***************************************************************************)
Received(kind) == Running /\ toServer # <<>> /\ Head(toServer)[1] = kind

\* SessionStub::OnCreateSubscription.
OnCreateSubscription ==
  /\ Received("create") /\ Head(toServer)[2] = None
  /\ stub' = TRUE
  /\ toClient' = Append(toClient, <<"subscription">>)
  /\ toServer' = Tail(toServer)
  /\ UNCHANGED <<client, monitored_items_, next_monitored_item_id_, posted,
                 pushed, owner, source, clock, sessions, panic>>

\* OnCreateMonitoredItem: the answer is on its way before the item is
\* subscribed at the backend.
OnCreateMonitoredItem ==
  /\ Received("create") /\ Head(toServer)[2] # None /\ stub
  /\ LET i == Head(toServer)[2]
         id == next_monitored_item_id_ IN
     \/ /\ id \in Ids
        /\ next_monitored_item_id_' = id + 1
        /\ monitored_items_' = [monitored_items_ EXCEPT ![id] = i]
        /\ owner' = [owner EXCEPT ![id] = i]
        /\ toClient' = Append(toClient, <<"item", i, id>>)
     \/ /\ toClient' = Append(toClient, <<"item", i, 0>>)
        /\ UNCHANGED <<next_monitored_item_id_, monitored_items_, owner>>
  /\ toServer' = Tail(toServer)
  /\ UNCHANGED <<client, stub, posted, pushed, source, clock, sessions, panic>>

\* OnDeleteMonitoredItem; its response has no handler and is left out.
OnDeleteMonitoredItem ==
  /\ Received("delete") /\ stub
  /\ monitored_items_' = [monitored_items_ EXCEPT ![Head(toServer)[2]] = None]
  /\ toServer' = Tail(toServer)
  /\ UNCHANGED <<client, stub, next_monitored_item_id_, posted, pushed, owner,
                 toClient, source, clock, sessions, panic>>

\* The backend calls the item's handler, which posts to the server's executor:
\* with the source's value, or with the failure of the item.  A value the item
\* was already given is repeated only while nothing is under way, a bound.
Push(id, value) ==
  /\ Running /\ monitored_items_[id] # None /\ Len(posted) < MaxPosted
  /\ pushed' = [pushed EXCEPT ![id] = value]
  /\ posted' = Append(posted, <<id, value>>)
  /\ UNCHANGED <<client, stub, monitored_items_, next_monitored_item_id_, owner,
                 toServer, toClient, source, clock, sessions, panic>>
Quiet == posted = <<>> /\ toClient = <<>>
Publish(id) == (pushed[id] = source => Quiet) /\ Push(id, source)
ItemFails(id) == pushed[id].status = "Good" /\ Push(id, MakeFailure(clock))

\* Mutant: the stub keeps an item after the bad value that ended it.
FailureKeepsItem ==
  /\ Running /\ posted # <<>>
  /\ monitored_items_[Head(posted)[1]] # None
  /\ toClient' = Append(toClient, <<"data", Head(posted)[1], Head(posted)[2]>>)
  /\ posted' = Tail(posted)
  /\ UNCHANGED <<client, stub, monitored_items_, next_monitored_item_id_, pushed,
                 owner, toServer, source, clock, sessions, panic>>

\* SubscriptionStub::OnDataChange: a bad value ends the item.
OnDataChange ==
  /\ Running /\ posted # <<>>
  /\ LET id == Head(posted)[1]
         value == Head(posted)[2] IN
     \/ /\ monitored_items_[id] # None
        /\ monitored_items_' = IF value.status = "Bad"
                               THEN [monitored_items_ EXCEPT ![id] = None]
                               ELSE monitored_items_
        /\ toClient' = Append(toClient, <<"data", id, value>>)
     \/ monitored_items_[id] = None /\ UNCHANGED <<monitored_items_, toClient>>
  /\ posted' = Tail(posted)
  /\ UNCHANGED <<client, stub, next_monitored_item_id_, pushed, owner, toServer,
                 source, clock, sessions, panic>>

\* Bounds the clock, which also stands still in the last session.
MayTick == clock < MaxClock /\ sessions < MaxSessions

\* Time passes, with or without a new sample of the source.
TimePasses ==
  /\ Running /\ MayTick
  /\ clock' = clock + 1
  /\ source' \in {source, Sample(clock + 1)}
  /\ UNCHANGED <<client, server, toServer, toClient, sessions, panic>>

Next ==
  \/ SessionCreated \/ SessionLost
  \/ \E i \in Items : CreateMonitoredItem(i) \/ Subscribe(i) \/ DestroyItem(i)
  \/ CreateSubscriptionResult \/ CreateMonitoredItemResult
  \/ DataChangeNotification
  \/ OnCreateSubscription \/ OnCreateMonitoredItem \/ OnDeleteMonitoredItem
  \/ \E id \in Ids : Publish(id) \/ ItemFails(id)
  \/ OnDataChange \/ TimePasses

Spec == Init /\ [][Next]_vars

\* The executors and the transport run on, and a backend that serves an item
\* delivers the source's current value, each item of its own (strongly fair,
\* because the items share the bound on what is posted); the application, the
\* failures and the sessions are free.
Fairness ==
  /\ WF_vars(CreateSubscriptionResult) /\ WF_vars(CreateMonitoredItemResult)
  /\ WF_vars(DataChangeNotification)
  /\ WF_vars(OnCreateSubscription) /\ WF_vars(OnCreateMonitoredItem)
  /\ WF_vars(OnDeleteMonitoredItem) /\ WF_vars(OnDataChange)
  /\ \A id \in Ids : SF_vars(Publish(id))

FairSpec == Spec /\ Fairness

(***************************************************************************)
(* Properties                                                              *)
(***************************************************************************)
\* The router maps an id to an item exactly while that item is alive and
\* CREATED with that id, and the server made the id for that item: the raw
\* pointers of monitored_item_ids_ never dangle and no id reaches another item
\* (AddMonitoredItemDataObserver, RemoveMonitoredItemDataObserver).
ObserversMatch ==
  \A id \in Ids, i \in Items :
    monitored_item_ids_[id] = i
      <=> /\ life[i] = "alive" /\ state_[i] = "CREATED"
          /\ monitored_item_id_[i] = id /\ owner[id] = i

\* A value that reaches the client finds its item observing, unless the
\* application destroyed the item: the create response overtakes no value, and
\* the server sends nothing for an id after the failure that ended it
\* (SubscriptionStub::OnCreateMonitoredItem, OnDataChange).
NoValueIsMissed ==
  toClient # <<>> /\ Head(toClient)[1] = "data" =>
    LET id == Head(toClient)[2] IN
    life[owner[id]] = "alive" => monitored_item_ids_[id] = owner[id]

\* An item that stopped while its channel is open has told its handler: its
\* last shown value is bad (OnCreateMonitoredItemResult, OnDataChange and
\* their early returns).
NoSilentStop ==
  \A i \in Alive :
    subscribed_[i] /\ channel_opened_[i] /\ state_[i] = "DELETED"
      => shown[i].status = "Bad"

\* Apart from the check of OnChannelClosed on router_ no check of the proxies
\* fails: the channel is opened and closed in turn and observers are added and
\* removed once.
OtherChecksHold == panic \subseteq {"router_"}

\* Items, router and server agree on every id, and no other check fails.
ItemsAgree == ObserversMatch /\ OtherChecksHold

\* The check of MonitoredItemProxy::OnChannelClosed on router_ holds whenever
\* the session closes the channel, CreateSubscription in flight included.
RouterCheckHolds == "router_" \notin panic

\* While the channel is closed no item still shows a value as live
\* (MonitoredItemProxy::OnChannelClosed, UpdateQualifier).  TLC refutes it after
\* a reconnection over which the value did not change.
OfflineIsShown == ~sender_ => \A i \in Alive : ~LooksLive(shown[i])

\* An item that stays CREATED comes to show the value of the source, its
\* last one before the loss of the session included.
ShowsSource ==
  \A i \in Items :
    state_[i] = "CREATED" ~> (shown[i] = source \/ state_[i] # "CREATED")
=============================================================================

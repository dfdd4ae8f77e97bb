----------------------------- MODULE WireEvents -----------------------------
(***************************************************************************)
(* Event items across the wire: the EventHandler side of SubscriptionStub, *)
(* SessionProxy::OnMessageReceived, SubscriptionProxy and                  *)
(* MonitoredItemProxy.  MonitoredItems models the same objects for values; *)
(* here an item watches events, so it has no current value to show and its *)
(* failure is a status of its own.                                         *)
(*                                                                         *)
(* A notice is what the source gives the stub's handler: a status and a    *)
(* payload.  "event" stands for an Event, a ModelChangeEvent or a          *)
(* SemanticChangeEvent, which take the same way; "noId" for an Event whose *)
(* event_id is 0 and "none" for an empty std::any.  n numbers the notices. *)
(***************************************************************************)
EXTENDS Naturals, Sequences, SequencesExt, FiniteSetsExt

CONSTANTS EventItems,   \* event items of the application
          MaxNotices,   \* bound on the notices of one session
          MaxChannels,  \* bound on the sessions of a behaviour
          NoEventItem

ASSUME EventConstantsAssumption ==
  MaxNotices \in Nat /\ MaxChannels \in Nat /\ NoEventItem \notin EventItems

VARIABLES
  channel,      \* whether the session, with its subscription, is there
  channels,     \* sessions so far
  proxy,        \* MonitoredItemProxy: state_, monitored_item_id_, subscribed_
  observers,    \* SubscriptionProxy::monitored_item_ids_
  stubs,        \* SubscriptionStub::monitored_items_
  evPosted,     \* notices posted to the server's executor
  up, down,     \* the two directions of the transport
  evGiven,        \* the notices the source gave the item in this session
  evTold          \* what the item's event_handler_ was given in this session

evvars == <<channel, channels, proxy, observers, stubs, evPosted, up, down,
            evGiven, evTold>>

Notice == [status : {"Good", "Uncertain", "Bad"},
           event : {"event", "noId", "none"}, n : 1..(MaxNotices + 1)]

\* Ids are given out by next_monitored_item_id_, which a new stub restarts.
EvIds == 1..Len(stubs)

EvTypeOK ==
  /\ channel \in BOOLEAN /\ channels \in 0..MaxChannels
  /\ proxy \in [EventItems -> [life : {"alive", "gone"}, subscribed : BOOLEAN,
                               state : {"DELETED", "CREATING", "CREATED"},
                               id : Nat]]
  /\ stubs \in Seq(EventItems \cup {NoEventItem})
  /\ observers \in Seq(EventItems \cup {NoEventItem})
  /\ evPosted \in Seq([id : Nat, notice : Notice])
  /\ evGiven \in [EventItems -> Seq(Notice)] /\ evTold \in [EventItems -> Seq(Notice)]

EvInit ==
  /\ channel = FALSE /\ channels = 0
  /\ proxy = [i \in EventItems |-> [life |-> "alive", subscribed |-> FALSE,
                                    state |-> "DELETED", id |-> 0]]
  /\ observers = <<>> /\ stubs = <<>> /\ evPosted = <<>>
  /\ up = <<>> /\ down = <<>>
  /\ evGiven = [i \in EventItems |-> <<>>] /\ evTold = [i \in EventItems |-> <<>>]

\* What the proxy's handler is given when its stub could not be made.
EvRefused == [status |-> "Bad", event |-> "none", n |-> 1]

(***************************************************************************)
(* The client's item                                                       *)
(***************************************************************************)
\* MonitoredItemProxy::Subscribe with an EventHandler; CreateStub follows when
\* the channel is open.
EvSubscribe(i) ==
  /\ proxy[i].life = "alive" /\ ~proxy[i].subscribed
  /\ proxy' = [proxy EXCEPT ![i].subscribed = TRUE,
                            ![i].state = IF channel THEN "CREATING" ELSE @]
  /\ up' = IF channel THEN Append(up, <<"create", i>>) ELSE up
  /\ UNCHANGED <<channel, channels, observers, stubs, evPosted, down, evGiven, evTold>>

\* ~MonitoredItemProxy: DeleteStub for a CREATED item.
EvDestroy(i) ==
  /\ proxy[i].life = "alive"
  /\ proxy' = [proxy EXCEPT ![i].life = "gone", ![i].state = "DELETED", ![i].id = 0]
  /\ IF proxy[i].state = "CREATED"
     THEN /\ observers' = [observers EXCEPT ![proxy[i].id] = NoEventItem]
          /\ up' = Append(up, <<"delete", proxy[i].id>>)
     ELSE UNCHANGED <<observers, up>>
  /\ UNCHANGED <<channel, channels, stubs, evPosted, down, evGiven, evTold>>

EvAlive == {i \in EventItems : proxy[i].life = "alive"}

\* The subscription is made in a new session, and MonitoredItemProxy::
\* OnChannelOpened asks for the stub of every subscribed item again.
EvOpened ==
  /\ ~channel /\ channels < MaxChannels
  /\ channel' = TRUE /\ channels' = channels + 1
  /\ LET asking == {i \in EvAlive : proxy[i].subscribed} IN
     /\ proxy' = [i \in EventItems |->
          [proxy[i] EXCEPT !.state = IF i \in asking THEN "CREATING" ELSE @]]
     /\ \E q \in SetToSeqs(asking) : up' = [k \in DOMAIN q |-> <<"create", q[k]>>]
  /\ evGiven' = [i \in EventItems |-> <<>>] /\ evTold' = [i \in EventItems |-> <<>>]
  /\ UNCHANGED <<observers, stubs, evPosted, down>>

\* The session is lost: requests in flight fail, which an item whose stub was
\* in creation hears; MonitoredItemProxy::OnChannelClosed tells a CREATED event
\* item nothing.  The server's stub goes and its posted notices with it.
EvClosed ==
  /\ channel /\ channel' = FALSE
  /\ evTold' = [i \in EventItems |->
       IF i \in EvAlive /\ proxy[i].state = "CREATING" THEN Append(evTold[i], EvRefused)
       ELSE evTold[i]]
  /\ proxy' = [i \in EventItems |->
       [proxy[i] EXCEPT !.state = "DELETED", !.id = 0]]
  /\ observers' = <<>> /\ stubs' = <<>> /\ evPosted' = <<>>
  /\ up' = <<>> /\ down' = <<>>
  /\ UNCHANGED <<channels, evGiven>>

(***************************************************************************)
(* The server's stub                                                       *)
(***************************************************************************)
\* SessionStub and SubscriptionStub::OnCreateMonitoredItem: the answer is sent
\* before the item is subscribed, and refused when the adapter makes no item.
EvCreate ==
  /\ up # <<>> /\ Head(up)[1] = "create"
  /\ LET i == Head(up)[2] IN
     \/ /\ stubs' = Append(stubs, i)
        /\ observers' = Append(observers, NoEventItem)
        /\ down' = Append(down, <<"created", i, Len(stubs')>>)
     \/ down' = Append(down, <<"created", i, 0>>) /\ UNCHANGED <<stubs, observers>>
  /\ up' = Tail(up)
  /\ UNCHANGED <<channel, channels, proxy, evPosted, evGiven, evTold>>

\* OnDeleteMonitoredItem; an id that is gone already is erased again in vain.
EvDelete ==
  /\ up # <<>> /\ Head(up)[1] = "delete"
  /\ stubs' = [stubs EXCEPT ![Head(up)[2]] = NoEventItem]
  /\ up' = Tail(up)
  /\ UNCHANGED <<channel, channels, proxy, observers, evPosted, down, evGiven, evTold>>

\* The source calls the stub's handler, which BindExecutor posts.
EvGive(id, status, event) ==
  /\ stubs[id] # NoEventItem
  /\ MapThenSumSet(LAMBDA i : Len(evGiven[i]), EventItems) < MaxNotices
  /\ (status = "Good" => event # "none") /\ (status = "Uncertain" => event = "none")
  /\ LET i == stubs[id]
         notice == [status |-> status, event |-> event, n |-> Len(evGiven[i]) + 1] IN
     /\ evGiven' = [evGiven EXCEPT ![i] = Append(@, notice)]
     /\ evPosted' = Append(evPosted, [id |-> id, notice |-> notice])
  /\ UNCHANGED <<channel, channels, proxy, observers, stubs, up, down, evTold>>

\* Mutant: a bad status leaves the item with the stub.
OnEventKeepsItem ==
  /\ evPosted # <<>>
  /\ LET id == Head(evPosted).id
         notice == Head(evPosted).notice IN
     down' = IF stubs[id] = NoEventItem \/ notice.event = "noId" THEN down
             ELSE Append(down, <<"notification", id, notice>>)
  /\ evPosted' = Tail(evPosted)
  /\ UNCHANGED <<channel, channels, proxy, observers, stubs, up, evGiven, evTold>>

\* SubscriptionStub::OnEvent: a bad status ends the item, and an Event without
\* an event id is dropped, whatever its status.
EvOnEvent ==
  /\ evPosted # <<>>
  /\ LET id == Head(evPosted).id
         notice == Head(evPosted).notice IN
     IF stubs[id] = NoEventItem THEN UNCHANGED <<stubs, down>>
     ELSE /\ stubs' = IF notice.status = "Bad" THEN [stubs EXCEPT ![id] = NoEventItem]
                      ELSE stubs
          /\ down' = IF notice.event = "noId" THEN down
                     ELSE Append(down, <<"notification", id, notice>>)
  /\ evPosted' = Tail(evPosted)
  /\ UNCHANGED <<channel, channels, proxy, observers, up, evGiven, evTold>>

(***************************************************************************)
(* Messages that reach the client                                          *)
(***************************************************************************)
\* OnCreateMonitoredItemResult, id 0 standing for a refusal.
EvCreated ==
  /\ down # <<>> /\ Head(down)[1] = "created"
  /\ LET i == Head(down)[2]
         id == Head(down)[3] IN
     IF i \notin EvAlive \/ proxy[i].state # "CREATING"
     THEN UNCHANGED <<proxy, observers, evTold>>
     ELSE IF id = 0
     THEN /\ proxy' = [proxy EXCEPT ![i].state = "DELETED"]
          /\ evTold' = [evTold EXCEPT ![i] = Append(@, EvRefused)]
          /\ UNCHANGED observers
     ELSE /\ proxy' = [proxy EXCEPT ![i].state = "CREATED", ![i].id = id]
          /\ observers' = [observers EXCEPT ![id] = i]
          /\ UNCHANGED evTold
  /\ down' = Tail(down)
  /\ UNCHANGED <<channel, channels, stubs, evPosted, up, evGiven>>

\* MonitoredItemProxy::OnEvent: a bad status stops the item, its id stays.
OnEventOfItem(i, notice) ==
  IF proxy[i].state # "CREATED" THEN UNCHANGED <<proxy, observers, evTold>>
  ELSE /\ IF notice.status = "Bad"
          THEN /\ proxy' = [proxy EXCEPT ![i].state = "DELETED"]
               /\ observers' = [observers EXCEPT ![proxy[i].id] = NoEventItem]
          ELSE UNCHANGED <<proxy, observers>>
       /\ evTold' = [evTold EXCEPT ![i] = Append(@, notice)]

\* SessionProxy::OnMessageReceived calls SubscriptionProxy::OnEvent once for
\* every payload of the notification: for none when it has none.  An id nobody
\* observes is passed over.
EvNotification ==
  /\ down # <<>> /\ Head(down)[1] = "notification"
  /\ LET i == observers[Head(down)[2]]
         notice == Head(down)[3] IN
     IF i = NoEventItem \/ notice.event = "none" THEN UNCHANGED <<proxy, observers, evTold>>
     ELSE OnEventOfItem(i, notice)
  /\ down' = Tail(down)
  /\ UNCHANGED <<channel, channels, stubs, evPosted, up, evGiven>>

EvNext ==
  \/ \E i \in EventItems : EvSubscribe(i) \/ EvDestroy(i)
  \/ EvOpened \/ EvClosed
  \/ EvCreate \/ EvDelete
  \/ \E id \in EvIds, s \in {"Good", "Uncertain", "Bad"},
        e \in {"event", "noId", "none"} : EvGive(id, s, e)
  \/ EvOnEvent \/ EvCreated \/ EvNotification

EvSpec == EvInit /\ [][EvNext]_evvars

(***************************************************************************)
(* Properties                                                              *)
(***************************************************************************)
\* What the wire takes to a live item of what the source gave: not the status
\* without an event, not the Event without an id, and nothing after a failure.
Carried(notices) ==
  LET bad == {k \in DOMAIN notices : notices[k].status = "Bad"}
      upTo == IF bad = {} THEN Len(notices)
              ELSE CHOOSE k \in bad : \A m \in bad : k <= m IN
  SelectSeq(SubSeq(notices, 1, upTo), LAMBDA x : x.event \notin {"noId", "none"})

EvQuiet == up = <<>> /\ down = <<>> /\ evPosted = <<>>

\* The events of an item reach its handler in the order the source gave them,
\* each once, none after the failure that ended the item, and all of them have
\* arrived when nothing is under way (SubscriptionStub::OnEvent,
\* SubscriptionProxy::OnEvent, MonitoredItemProxy::OnEvent).
EventsArriveInOrder ==
  \A i \in EvAlive :
    channel /\ EvRefused \notin {evTold[i][k] : k \in DOMAIN evTold[i]} =>
      /\ IsPrefix(evTold[i], Carried(evGiven[i]))
      /\ EvQuiet => evTold[i] = Carried(evGiven[i])

\* The status the source gives an event item, the failure that ends it above
\* all, reaches its handler: monitored_item.h promises that the first callback
\* comes "once the initial status (and optional event payload) becomes
\* available" and that the event may be missing from it.
StatusReachesHandler ==
  EvQuiet /\ channel =>
    \A i \in EvAlive : \A k \in DOMAIN evGiven[i] :
      evGiven[i][k].status = "Bad" /\ evGiven[i][k].event = "none" =>
        \E m \in DOMAIN evTold[i] : evTold[i][m].status = "Bad"
=============================================================================

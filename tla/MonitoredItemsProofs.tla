------------------------ MODULE MonitoredItemsProofs ------------------------
(***************************************************************************)
(* Proofs about monitored items across the wire: the steps of the client's *)
(* session and of its response handlers keep the invariant of              *)
(* MonitoredItemsSteps, and what the invariant says of every run.          *)
(***************************************************************************)
EXTENDS MonitoredItemsSteps

\* A step that names no prover is tried with these.
USE SMTT(30), ZenonT(30)

\* An item goes; a created stub is deleted at the server.
LEMMA DestroyKeeps ==
  ASSUME IInv, NEW i \in Items, DestroyItem(i)
  PROVE  IInv'
<1>1. /\ life \in [Items -> {"unborn", "alive", "gone"}] /\ life[i] = "alive"
      /\ state_ \in [Items -> {"DELETED", "CREATING", "CREATED"}]
      /\ monitored_item_id_ \in [Items -> 0..MaxIds] /\ 0 \in 0..MaxIds
      /\ monitored_item_ids_ \in [Ids -> Items \cup {None}]
      /\ toServer \in Seq(Request) /\ toClient \in Seq(Response)
      /\ life' = [life EXCEPT ![i] = "gone"]
      /\ state_' = [state_ EXCEPT ![i] = "DELETED"]
      /\ monitored_item_id_' = [monitored_item_id_ EXCEPT ![i] = 0]
      /\ UNCHANGED <<sender_, subscription, subscribed_, channel_opened_, current_data_,
                     shown, toClient, server, owner, monitored_items_,
                     next_monitored_item_id_, stub, posted, pushed, source, clock, sessions>>
  BY ConstantsAssumption DEF DestroyItem, IInv, Types, TypeOK, server
<1>2. /\ life' \in [Items -> {"unborn", "alive", "gone"}] /\ life'[i] = "gone"
      /\ state_' \in [Items -> {"DELETED", "CREATING", "CREATED"}] /\ state_'[i] = "DELETED"
      /\ monitored_item_id_' \in [Items -> 0..MaxIds]
      /\ \A j \in Items \ {i} : /\ life'[j] = life[j] /\ state_'[j] = state_[j]
                                /\ monitored_item_id_'[j] = monitored_item_id_[j]
  BY <1>1
<1>3. \A id \in Ids : \A j \in Items :
        monitored_item_ids_[id] = j
          <=> /\ life[j] = "alive" /\ state_[j] = "CREATED"
              /\ monitored_item_id_[j] = id /\ owner[id] = j
  BY DEF IInv, ProxiesInv, ObserversMatch
<1>4. /\ panic' = panic /\ monitored_item_ids_' \in [Ids -> Items \cup {None}]
      /\ \A id \in Ids : monitored_item_ids_'[id] = IF monitored_item_ids_[id] = i THEN None
                                                    ELSE monitored_item_ids_[id]
      /\ toServer' \in Seq(Request)
      /\ \A n \in 1..Len(toServer') :
           \/ n + 0 \in 1..Len(toServer) /\ toServer'[n] = toServer[n + 0]
           \/ toServer'[n][1] = "delete"
  <2>1. CASE state_[i] = "CREATED"
    <3>1. /\ monitored_item_id_[i] \in Ids
          /\ monitored_item_ids_[monitored_item_id_[i]] = i
      BY <2>1 DEF IInv, ProxiesInv, ItemInv
    <3>2. PICK x \in Ids : x = monitored_item_id_[i]
      BY <3>1
    <3>3. /\ RemoveObservers({i}) /\ toServer' = Append(toServer, DeleteRequest(x))
          /\ panic' = panic
      BY <2>1, <3>1, <3>2, ConstantsAssumption DEF DestroyItem
    <3>4. \A id \in Ids : monitored_item_ids_[id] = i <=> id = x
      BY <1>3, <3>1, <3>2
    <3>5. monitored_item_ids_' = [id \in Ids |-> IF id = x THEN None
                                                 ELSE monitored_item_ids_[id]]
      BY <3>2, <3>3 DEF RemoveObservers
    <3>6. DeleteRequest(x) \in Request
      BY DEF DeleteRequest, Request
    <3>7. PICK m \in Request : m = DeleteRequest(x)
      BY <3>6
    <3>8. toServer' = Append(toServer, m) /\ m[1] = "delete"
      BY <3>3, <3>7 DEF DeleteRequest
    <3>9. /\ toServer' \in Seq(Request)
          /\ \A n \in 1..Len(toServer') :
               \/ n + 0 \in 1..Len(toServer) /\ toServer'[n] = toServer[n + 0]
               \/ toServer'[n] = m
      <4>1. toServer \in Seq(Request)
        BY <1>1
      <4> QED
        BY ONLY <3>8, <4>1, m \in Request
    <3> QED
      BY <1>1, <3>3, <3>4, <3>5, <3>8, <3>9
  <2>2. CASE state_[i] # "CREATED"
    <3>1. UNCHANGED <<monitored_item_ids_, toServer, panic>>
      BY <2>2 DEF DestroyItem
    <3>2. \A id \in Ids : monitored_item_ids_[id] # i
      BY <1>3, <2>2
    <3> QED
      BY <1>1, <3>1, <3>2
  <2> QED
    BY <2>1, <2>2
<1>5. Types'
  BY <1>1, <1>2, <1>4, Zenon DEF IInv, Types, TypeOK
<1>6. ChannelInv'
  <2>1. \A n \in 1..Len(toClient') : n + 0 \in 1..Len(toClient) /\ toClient'[n] = toClient[n + 0]
    BY <1>1
  <2>2. \A n \in 1..Len(toServer') : Opens(toServer'[n]) => toServer'[n][1] # "delete"
    BY DEF Opens, CreateRequest
  <2> QED
    BY <1>1, <1>4, <2>1, <2>2, ChannelSame, Zenon DEF IInv
<1>7. RequestInv'
  <2> SUFFICES ASSUME NEW n \in 1..Len(toServer'), toServer'[n][1] = "create",
                      toServer'[n][2] # None
               PROVE  life'[toServer'[n][2]] # "unborn"
    BY DEF RequestInv
  <2>1. n \in 1..Len(toServer) /\ toServer'[n] = toServer[n]
    BY <1>4
  <2>2. toServer[n] \in Request
    BY <1>1, <2>1
  <2>3. toServer[n][2] \in Items
    BY <2>1, <2>2, RequestKinds
  <2>4. life[toServer[n][2]] # "unborn"
    BY <2>1 DEF IInv, RequestInv
  <2> QED
    BY <1>2, <2>1, <2>3, <2>4
<1>8. ASSUME NEW j \in Items PROVE ItemInv(j)'
  <2>1. ItemInv(j)
    BY DEF IInv, ProxiesInv
  <2>2. CASE j = i
    BY <1>1, <1>2, <2>1, <2>2, Zenon DEF ItemInv
  <2>3. CASE j # i
    <3>1. \A id \in Ids : monitored_item_ids_[id] = j => monitored_item_ids_'[id] = j
      BY <1>4, <2>3
    <3> QED
      BY <1>1, <1>2, <2>1, <2>3, <3>1, ItemSame, Zenon
  <2> QED
    BY <2>2, <2>3
<1>9. ObserversMatch'
  <2> SUFFICES ASSUME NEW id \in Ids, NEW j \in Items
               PROVE  monitored_item_ids_'[id] = j
                        <=> /\ life'[j] = "alive" /\ state_'[j] = "CREATED"
                            /\ monitored_item_id_'[j] = id /\ owner[id] = j
    BY <1>1, SMTT(60) DEF ObserversMatch
  <2>1. CASE j = i
    BY <1>2, <1>4, <2>1, ConstantsAssumption
  <2>2. CASE j # i
    <3>1. monitored_item_ids_'[id] = j <=> monitored_item_ids_[id] = j
      BY <1>4, <2>2, ConstantsAssumption, Zenon
    <3>2. /\ life'[j] = life[j] /\ state_'[j] = state_[j]
          /\ monitored_item_id_'[j] = monitored_item_id_[j]
      BY <1>2, <2>2, Zenon
    <3>3. monitored_item_ids_[id] = j
            <=> /\ life[j] = "alive" /\ state_[j] = "CREATED"
                /\ monitored_item_id_[j] = id /\ owner[id] = j
      BY <1>3, SMTT(60)
    <3> QED
      BY ONLY <3>1, <3>2, <3>3, Zenon
  <2> QED
    BY <2>1, <2>2
<1>10. NoSilentStop' /\ OtherChecksHold'
  <2>1. \A j \in Items : life'[j] = "alive" => j # i /\ life[j] = "alive" /\ state_'[j] = state_[j]
    BY <1>2
  <2> QED
    BY <1>1, <1>4, <2>1 DEF IInv, ProxiesInv, NoSilentStop, OtherChecksHold, Alive
<1>11. ASSUME NEW id \in Ids PROVE IdInv(id)'
  <2>1. \/ monitored_item_ids_'[id] = monitored_item_ids_[id]
        \/ monitored_item_ids_'[id] = None /\ life'[owner[id]] # "alive"
    BY <1>2, <1>3, <1>4
  <2>2. /\ \A j \in Items : life[j] # "unborn" => life'[j] # "unborn"
        /\ \A j \in Items : life'[j] = "alive" /\ owner[id] = j => life[j] = "alive"
    BY <1>2
  <2> QED
    BY <1>1, <2>1, <2>2, IdKept, Zenon DEF IInv
<1> QED
  BY <1>5, <1>6, <1>7, <1>8, <1>9, <1>10, <1>11 DEF IInv, ProxiesInv

\* A session is created.
LEMMA SessionCreatedKeeps ==
  ASSUME IInv, SessionCreated
  PROVE  IInv'
<1>1. /\ ~sender_ /\ sessions' = sessions + 1 /\ sessions < MaxSessions
      /\ sender_' = TRUE /\ subscription' = "CREATING"
      /\ UNCHANGED <<life, subscribed_, channel_opened_, state_, monitored_item_id_,
                     current_data_, shown, monitored_item_ids_, toClient, server, owner,
                     monitored_items_, next_monitored_item_id_, stub, posted, pushed,
                     source, clock>>
  BY DEF SessionCreated, server
<1>2. subscription = "DELETED" /\ panic' = panic
  BY <1>1 DEF IInv, ChannelInv, SessionCreated
<1>3. CreateRequest(None) \in Request
  BY DEF CreateRequest, Request
<1>4. PICK m \in Request : m = CreateRequest(None)
  BY <1>3
<1>5. /\ toServer' = <<m>> /\ toServer' \in Seq(Request) /\ Len(toServer') = 1
      /\ toServer'[1] = m /\ m[2] = None
  BY <1>4 DEF SessionCreated, CreateRequest
<1>6. Types'
  <2>1. sessions' \in 0..MaxSessions
    BY <1>1, ConstantsAssumption DEF IInv, Types, TypeOK
  <2> QED
    BY <1>1, <1>2, <1>5, <2>1, Zenon DEF IInv, Types, TypeOK
<1>7. ChannelInv'
  <2>1. ~GivesSubscription
    BY <1>2 DEF IInv, ChannelInv
  <2>2. ~GivesSubscription'
    BY <1>1, <2>1 DEF GivesSubscription
  <2>3. \A x, y \in 1..Len(toServer') : x = y
    BY <1>5
  <2>4. \A x, y \in 1..Len(toClient') :
          toClient'[x][1] = "subscription" /\ toClient'[y][1] = "subscription" => x = y
    BY <2>2 DEF GivesSubscription
  <2> QED
    BY <1>1, <2>2, <2>3, <2>4, Zenon DEF ChannelInv
<1>8. RequestInv'
  BY <1>5 DEF RequestInv
<1>9. ASSUME NEW i \in Items PROVE ItemInv(i)'
  BY <1>1, <1>2 DEF IInv, ProxiesInv, ItemInv
<1>10. ObserversMatch' /\ NoSilentStop' /\ OtherChecksHold'
  BY <1>1, <1>2 DEF IInv, ProxiesInv, ObserversMatch, NoSilentStop, OtherChecksHold, Alive
<1>11. \A id \in Ids : IdInv(id)'
  BY <1>1, IdsSame
<1> QED
  BY <1>6, <1>7, <1>8, <1>9, <1>10, <1>11 DEF IInv, ProxiesInv

\* A record that is requalified.
LEMMA RequalifiedValue ==
  ASSUME NEW d \in DataValue, NEW status \in {"Good", "Bad"}, NEW offline \in BOOLEAN,
         NEW failed \in BOOLEAN
  PROVE  /\ Requalified(d, status, offline, failed) \in DataValue
         /\ Requalified(d, status, offline, failed).status = status
         /\ failed => Requalified(d, status, offline, failed).failed
  BY Zenon DEF Requalified, DataValue

\* The session is lost: every item is closed, and the server's stub is gone.
LEMMA SessionLostKeeps ==
  ASSUME IInv, SessionLost
  PROVE  IInv'
<1>1. /\ life \in [Items -> {"unborn", "alive", "gone"}]
      /\ current_data_ \in [Items -> DataValue] /\ shown \in [Items -> DataValue]
      /\ channel_opened_ \in [Items -> BOOLEAN]
      /\ monitored_item_ids_ \in [Ids -> Items \cup {None}]
      /\ panic \subseteq {"router_"}
      /\ UNCHANGED <<life, subscribed_, source, clock, sessions>>
      /\ sender_' = FALSE /\ subscription' = "DELETED" /\ toServer' = <<>> /\ toClient' = <<>>
      /\ state_' = [i \in Items |-> "DELETED"]
      /\ channel_opened_' = [i \in Items |-> channel_opened_[i] /\ i \notin Alive]
      /\ monitored_item_id_' = [i \in Items |-> 0]
      /\ RemoveObservers({i \in Alive : state_[i] = "CREATED"})
      /\ current_data_' = [i \in Items |-> DataAfterLoss(i)]
      /\ stub' = FALSE /\ monitored_items_' = Blank(None)
      /\ next_monitored_item_id_' = FirstId /\ posted' = <<>>
      /\ pushed' = Blank(NoData) /\ owner' = Blank(None)
  BY DEF SessionLost, IInv, Types, TypeOK, ProxiesInv, OtherChecksHold
<1>2. \A id \in Ids : \A j \in Items :
        monitored_item_ids_[id] = j
          <=> /\ life[j] = "alive" /\ state_[j] = "CREATED"
              /\ monitored_item_id_[j] = id /\ owner[id] = j
  BY DEF IInv, ProxiesInv, ObserversMatch
<1>3. /\ monitored_item_ids_' \in [Ids -> Items \cup {None}]
      /\ \A id \in Ids : monitored_item_ids_'[id] = None
  <2> DEFINE S == {i \in Alive : state_[i] = "CREATED"}
  <2>1. monitored_item_ids_' = [id \in Ids |->
          IF \E i \in S : monitored_item_id_[i] = id THEN None ELSE monitored_item_ids_[id]]
    BY <1>1 DEF RemoveObservers
  <2>2. ASSUME NEW id \in Ids, monitored_item_ids_[id] # None
        PROVE  \E i \in S : monitored_item_id_[i] = id
    <3>1. monitored_item_ids_[id] \in Items
      BY <1>1, <2>2
    <3> QED
      BY <1>2, <3>1 DEF Alive
  <2> HIDE DEF S
  <2> QED
    BY <2>1, <2>2
<1>4. \A i \in Items : DataAfterLoss(i) \in DataValue
  <2> SUFFICES ASSUME NEW i \in Items PROVE DataAfterLoss(i) \in DataValue
    OBVIOUS
  <2>1. current_data_[i] \in DataValue /\ current_data_[i].status \in {"Good", "Bad"}
    BY <1>1 DEF DataValue
  <2>2. /\ Requalified(current_data_[i], "Bad", FALSE, TRUE) \in DataValue
        /\ Requalified(current_data_[i], current_data_[i].status, TRUE, FALSE) \in DataValue
    BY <2>1, RequalifiedValue, Zenon
  <2>3. \/ DataAfterLoss(i) = Requalified(current_data_[i], "Bad", FALSE, TRUE)
        \/ DataAfterLoss(i) = Requalified(current_data_[i], current_data_[i].status, TRUE, FALSE)
        \/ DataAfterLoss(i) = current_data_[i]
    BY Zenon DEF DataAfterLoss
  <2> QED
    BY <2>1, <2>2, <2>3, Zenon
<1>5. shown' \in [Items -> DataValue]
  BY <1>1, <1>4, Zenon DEF SessionLost
<1>6. panic' \subseteq {"router_"}
  <2>1. \A i \in Alive : state_[i] = "CREATED" => monitored_item_ids_[monitored_item_id_[i]] # None
    BY ConstantsAssumption DEF IInv, ProxiesInv, ItemInv, Alive
  <2> QED
    BY <1>1, <2>1 DEF SessionLost
<1>7. Types'
  <2>1. /\ FirstId \in 1..(MaxIds + 1)
        /\ <<>> \in Seq(Request) /\ <<>> \in Seq(Response) /\ <<>> \in Seq(Ids \X DataValue)
    BY ConstantsAssumption DEF FirstId
  <2>2. /\ toServer' \in Seq(Request) /\ toClient' \in Seq(Response)
        /\ posted' \in Seq(Ids \X DataValue)
    BY <1>1, <2>1, Zenon
  <2>3. /\ Blank(None) \in [Ids -> Items \cup {None}] /\ Blank(NoData) \in [Ids -> DataValue]
    BY Values DEF Blank
  <2>4. current_data_' \in [Items -> DataValue]
    BY <1>1, <1>4
  <2>5. /\ state_' \in [Items -> {"DELETED", "CREATING", "CREATED"}]
        /\ channel_opened_' \in [Items -> BOOLEAN]
        /\ monitored_item_id_' \in [Items -> 0..MaxIds]
    BY <1>1, ConstantsAssumption
  <2> QED
    BY <1>1, <1>3, <1>5, <1>6, <2>1, <2>2, <2>3, <2>4, <2>5, Zenon DEF IInv, Types, TypeOK
<1>8. Len(toServer') = 0 /\ Len(toClient') = 0
  BY <1>1
<1>9. ChannelInv' /\ RequestInv'
  BY <1>1, <1>8 DEF ChannelInv, RequestInv, AsksSubscription, GivesSubscription
<1>10. ASSUME NEW i \in Items
       PROVE  /\ ItemInv(i)'
              /\ life'[i] = "alive" => ~channel_opened_'[i]
  <2>1. /\ state_'[i] = "DELETED" /\ life'[i] = life[i] /\ subscribed_'[i] = subscribed_[i]
        /\ life[i] = "alive" => ~channel_opened_'[i]
        /\ channel_opened_'[i] => channel_opened_[i]
    BY <1>1, Zenon DEF Alive
  <2>2. ~subscribed_[i] => current_data_'[i] = NoData
    <3> SUFFICES ASSUME ~subscribed_[i] PROVE DataAfterLoss(i) = NoData
      BY <1>1, Zenon
    <3>1. state_[i] = "DELETED" /\ current_data_[i] = NoData
      BY Zenon DEF IInv, ProxiesInv, ItemInv
    <3> QED
      BY <3>1 DEF DataAfterLoss
  <2>3. ItemInv(i)
    BY DEF IInv, ProxiesInv
  <2> QED
    BY <2>1, <2>2, <2>3 DEF ItemInv
<1>11. ObserversMatch'
  <2>1. \A i \in Items : state_'[i] # "CREATED"
    BY <1>1
  <2> QED
    BY <1>3, <2>1, ConstantsAssumption DEF ObserversMatch
<1>12. NoSilentStop' /\ OtherChecksHold'
  BY <1>6, <1>10 DEF NoSilentStop, OtherChecksHold, Alive
<1>13. ASSUME NEW id \in Ids PROVE IdInv(id)'
  <2>1. owner'[id] = None /\ monitored_items_'[id] = None /\ monitored_item_ids_'[id] = None
    BY <1>1, <1>3 DEF Blank
  <2>2. id >= next_monitored_item_id_' /\ ~(id < next_monitored_item_id_')
    BY <1>1, ConstantsAssumption DEF FirstId, Ids
  <2> QED
    BY <1>8, <2>1, <2>2 DEF IdInv, Answering
<1> QED
  BY <1>7, <1>9, <1>10, <1>11, <1>12, <1>13 DEF IInv, ProxiesInv

\* CreateSubscription is answered: the items that exist are opened.
LEMMA SubscriptionResultKeeps ==
  ASSUME IInv, CreateSubscriptionResult
  PROVE  IInv'
<1>1. /\ Types /\ toClient # <<>> /\ Head(toClient)[1] = "subscription"
      /\ toClient' = Tail(toClient) /\ subscription' = "CREATED" /\ OnItemsOpened(Alive)
      /\ UNCHANGED <<sender_, life, subscribed_, monitored_item_id_, monitored_item_ids_,
                     server, owner, monitored_items_, next_monitored_item_id_, stub,
                     posted, pushed, source, clock, sessions>>
  BY DEF CreateSubscriptionResult, Arrives, IInv, server
<1>2. /\ toClient' \in Seq(Response) /\ Head(toClient) = toClient[1]
      /\ 1 \in 1..Len(toClient) /\ Len(toClient') = Len(toClient) - 1
      /\ \A n \in 1..Len(toClient') :
           n + 1 \in 1..Len(toClient) /\ toClient'[n] = toClient[n + 1]
  BY <1>1, TakenResponse DEF Types
<1>3. subscription = "CREATING" /\ ~AsksSubscription /\ sender_
  <2>1. GivesSubscription
    BY <1>1, <1>2 DEF GivesSubscription
  <2> QED
    BY <2>1 DEF IInv, ChannelInv
<1>4. PICK S \in SUBSET Items : S = Alive
  BY Zenon DEF Alive
<1>5. /\ \A i \in S : ~channel_opened_[i] /\ state_[i] = "DELETED" /\ life'[i] = "alive"
      /\ \A i \in Items \ S : life'[i] = life[i]
      /\ \A i \in Items : life[i] # "unborn" => life'[i] # "unborn"
  BY <1>1, <1>3, <1>4 DEF IInv, ProxiesInv, ItemInv, Alive
<1>6. /\ ProxiesInv' /\ panic' = panic /\ RequestInv' /\ toServer' \in Seq(Request)
      /\ \A n \in 1..Len(toServer') : Opens(toServer'[n]) =>
           n + 0 \in 1..Len(toServer) /\ toServer'[n] = toServer[n + 0]
      /\ channel_opened_' \in [Items -> BOOLEAN]
      /\ state_' \in [Items -> {"DELETED", "CREATING", "CREATED"}]
      /\ current_data_' \in [Items -> DataValue] /\ shown' \in [Items -> DataValue]
  BY <1>1, <1>4, <1>5, OpenedEffect
<1>7. Types'
  BY <1>1, <1>2, <1>6, Zenon DEF Types, TypeOK
<1>8. ChannelInv'
  <2>1. ~AsksSubscription'
    <3>1. toServer \in Seq(Request)
      BY <1>1 DEF Types
    <3>2. \A n \in 1..Len(toServer) : ~Opens(toServer[n])
      BY <1>3 DEF AsksSubscription
    <3>3. ASSUME NEW n \in 1..Len(toServer'), Opens(toServer'[n]) PROVE FALSE
      <4>1. n \in 1..Len(toServer) /\ toServer'[n] = toServer[n]
        BY <1>6, <3>3
      <4> QED
        BY <3>2, <3>3, <4>1
    <3> QED
      BY <3>3 DEF AsksSubscription
  <2>2. ~GivesSubscription'
    <3> SUFFICES ASSUME NEW n \in 1..Len(toClient'), toClient'[n][1] = "subscription"
                 PROVE  FALSE
      BY DEF GivesSubscription
    <3>1. n + 1 = 1
      BY <1>1, <1>2 DEF IInv, ChannelInv
    <3> QED
      BY <3>1
  <2> QED
    BY <1>1, <1>3, <2>1, <2>2, Zenon DEF ChannelInv, AsksSubscription, GivesSubscription
<1>9. ASSUME NEW id \in Ids PROVE IdInv(id)'
  <2>1. \A n \in 1..Len(toClient) : n > 1 => n - 1 \in 1..Len(toClient')
    BY <1>2
  <2>2. ~AnswerAt(1, id)
    BY <1>1, <1>2 DEF AnswerAt
  <2> QED
    BY <1>1, <1>2, <1>5, <2>1, <2>2, IdSuffix DEF IInv
<1> QED
  BY <1>6, <1>7, <1>8, <1>9 DEF IInv

\* A create response is read: its item observes the id, or has failed, or is
\* gone.
LEMMA ItemResultKeeps ==
  ASSUME IInv, CreateMonitoredItemResult
  PROVE  IInv'
<1>1. /\ Types /\ toClient # <<>> /\ Head(toClient)[1] = "item"
      /\ toClient' = Tail(toClient)
      /\ UNCHANGED <<sender_, subscription, life, subscribed_, channel_opened_, toServer,
                     server, owner, monitored_items_, next_monitored_item_id_, stub, posted,
                     pushed, source, clock, sessions>>
  BY Zenon DEF CreateMonitoredItemResult, Arrives, IInv, server
<1>2. /\ toClient' \in Seq(Response) /\ Head(toClient) = toClient[1]
      /\ 1 \in 1..Len(toClient) /\ toClient[1] \in Response
      /\ Len(toClient') = Len(toClient) - 1
      /\ \A n \in 1..Len(toClient') :
           n + 1 \in 1..Len(toClient) /\ toClient'[n] = toClient[n + 1]
  BY <1>1, TakenResponse DEF Types
<1>3. toClient[1][2] \in Items /\ toClient[1][3] \in 0..MaxIds
  BY <1>1, <1>2, ResponseKinds
<1>4. PICK i \in Items, id \in 0..MaxIds : i = toClient[1][2] /\ id = toClient[1][3]
  BY <1>3
<1>5. /\ id # 0 => id \in Ids
      /\ \A x \in Ids : AnswerAt(1, x) <=> x = id
  BY <1>1, <1>2, <1>4, ConstantsAssumption DEF AnswerAt, Ids
<1>6. id # 0 => /\ owner[id] = i /\ monitored_item_ids_[id] = None
                /\ \A n \in 1..Len(toClient') : ~AnswerAt(n + 1, id)
  <2> SUFFICES ASSUME id \in Ids
               PROVE  /\ owner[id] = i /\ monitored_item_ids_[id] = None
                      /\ \A n \in 1..Len(toClient') : ~AnswerAt(n + 1, id)
    BY <1>5
  <2>1. IdInv(id) /\ AnswerAt(1, id) /\ Answering(id)
    BY <1>2, <1>5 DEF IInv, Answering
  <2>2. ASSUME NEW n \in 1..Len(toClient'), AnswerAt(n + 1, id) PROVE FALSE
    <3>1. n + 1 \in 1..Len(toClient) /\ n + 1 # 1
      BY <1>2
    <3> QED
      BY <1>2, <2>1, <2>2, <3>1 DEF IdInv
  <2> QED
    BY <1>2, <1>4, <2>1, <2>2 DEF IdInv
<1>7. /\ state_ \in [Items -> {"DELETED", "CREATING", "CREATED"}]
      /\ monitored_item_id_ \in [Items -> 0..MaxIds]
      /\ monitored_item_ids_ \in [Ids -> Items \cup {None}]
      /\ current_data_ \in [Items -> DataValue] /\ shown \in [Items -> DataValue]
      /\ \A j \in Items : ItemInv(j)
      /\ ObserversMatch /\ NoSilentStop /\ OtherChecksHold
  BY <1>1, Zenon DEF Types, TypeOK, IInv, ProxiesInv
<1>8. PICK data \in DataValue : /\ data = Requalified(current_data_[i], "Bad", FALSE, TRUE)
                                /\ data.status = "Bad" /\ data.failed
  <2>1. current_data_[i] \in DataValue
    BY <1>7
  <2> QED
    BY <2>1, RequalifiedValue, Zenon
<1>9. \/ /\ life[i] = "alive" /\ channel_opened_[i] /\ state_[i] = "CREATING" /\ id # 0
         /\ state_' = [state_ EXCEPT ![i] = "CREATED"]
         /\ monitored_item_id_' = [monitored_item_id_ EXCEPT ![i] = id]
         /\ monitored_item_ids_' = [monitored_item_ids_ EXCEPT ![id] = i]
         /\ panic' = panic /\ UNCHANGED <<current_data_, shown>>
      \/ /\ life[i] = "alive" /\ channel_opened_[i] /\ state_[i] = "CREATING" /\ id = 0
         /\ state_' = [state_ EXCEPT ![i] = "DELETED"]
         /\ current_data_' = [current_data_ EXCEPT ![i] = data]
         /\ shown' = IF data = current_data_[i] THEN shown ELSE [shown EXCEPT ![i] = data]
         /\ UNCHANGED <<monitored_item_id_, monitored_item_ids_, panic>>
      \/ /\ life[i] # "alive"
         /\ UNCHANGED <<state_, monitored_item_id_, monitored_item_ids_, current_data_,
                        shown, panic>>
  BY <1>2, <1>4, <1>6, <1>8, Zenon DEF CreateMonitoredItemResult
<1>10. /\ ProxiesInv' /\ panic' = panic
       /\ state_' \in [Items -> {"DELETED", "CREATING", "CREATED"}]
       /\ monitored_item_id_' \in [Items -> 0..MaxIds]
       /\ monitored_item_ids_' \in [Ids -> Items \cup {None}]
       /\ current_data_' \in [Items -> DataValue] /\ shown' \in [Items -> DataValue]
       /\ \A x \in Ids : x # id => monitored_item_ids_'[x] = monitored_item_ids_[x]
       /\ id # 0 /\ life[i] = "alive" => monitored_item_ids_'[id] = i
  <2>1. CASE /\ life[i] = "alive" /\ channel_opened_[i] /\ state_[i] = "CREATING" /\ id # 0
             /\ state_' = [state_ EXCEPT ![i] = "CREATED"]
             /\ monitored_item_id_' = [monitored_item_id_ EXCEPT ![i] = id]
             /\ monitored_item_ids_' = [monitored_item_ids_ EXCEPT ![id] = i]
             /\ panic' = panic /\ UNCHANGED <<current_data_, shown>>
    <3>1. /\ state_' \in [Items -> {"DELETED", "CREATING", "CREATED"}]
          /\ monitored_item_id_' \in [Items -> 0..MaxIds]
          /\ monitored_item_ids_' \in [Ids -> Items \cup {None}] /\ id \in Ids
          /\ state_'[i] = "CREATED" /\ monitored_item_id_'[i] = id
          /\ monitored_item_ids_'[id] = i
          /\ \A j \in Items \ {i} : /\ state_'[j] = state_[j]
                                    /\ monitored_item_id_'[j] = monitored_item_id_[j]
          /\ \A x \in Ids \ {id} : monitored_item_ids_'[x] = monitored_item_ids_[x]
      BY <1>5, <1>7, <2>1, Zenon
    <3>2. ASSUME NEW j \in Items PROVE ItemInv(j)'
      <4>1. CASE j = i
        BY <1>1, <1>7, <2>1, <3>1, <4>1, Zenon DEF ItemInv
      <4>2. CASE j # i
        <5>1. monitored_item_ids_[id] = None /\ j # None /\ ItemInv(j)
          BY <1>6, <1>7, <2>1, ConstantsAssumption, Zenon
        <5>2. ASSUME NEW x \in Ids, monitored_item_ids_[x] = j
              PROVE  monitored_item_ids_'[x] = j
          <6>1. x # id
            BY <5>1, <5>2, Zenon
          <6> QED
            BY <3>1, <5>2, <6>1, Zenon
        <5> QED
          BY <1>1, <2>1, <3>1, <4>2, <5>1, <5>2, ItemSame, Zenon
      <4> QED
        BY <4>1, <4>2
    <3>3. ObserversMatch'
      <4> SUFFICES ASSUME NEW x \in Ids, NEW j \in Items
                   PROVE  monitored_item_ids_'[x] = j
                            <=> /\ life[j] = "alive" /\ state_'[j] = "CREATED"
                                /\ monitored_item_id_'[j] = x /\ owner[x] = j
        BY <1>1 DEF ObserversMatch
      <4>1. monitored_item_ids_[x] = j
              <=> /\ life[j] = "alive" /\ state_[j] = "CREATED"
                  /\ monitored_item_id_[j] = x /\ owner[x] = j
        BY <1>7 DEF ObserversMatch
      <4>2. CASE x = id
        BY <1>6, <2>1, <3>1, <4>2
      <4>3. CASE x # id
        BY <2>1, <3>1, <4>1, <4>3
      <4> QED
        BY <4>2, <4>3, Zenon
    <3>4. NoSilentStop'
      <4>1. \A j \in Items : state_'[j] = "DELETED" => state_[j] = "DELETED"
        BY <3>1
      <4> QED
        BY <1>1, <1>7, <2>1, <4>1 DEF NoSilentStop, Alive
    <3> QED
      BY <1>7, <2>1, <3>1, <3>2, <3>3, <3>4, Zenon DEF ProxiesInv, OtherChecksHold
  <2>2. CASE /\ life[i] = "alive" /\ channel_opened_[i] /\ state_[i] = "CREATING" /\ id = 0
             /\ state_' = [state_ EXCEPT ![i] = "DELETED"]
             /\ current_data_' = [current_data_ EXCEPT ![i] = data]
             /\ shown' = IF data = current_data_[i] THEN shown ELSE [shown EXCEPT ![i] = data]
             /\ UNCHANGED <<monitored_item_id_, monitored_item_ids_, panic>>
    <3>1. data # current_data_[i]
      BY <1>7, <1>8, <2>2, Zenon DEF ItemInv
    <3>2. /\ state_' \in [Items -> {"DELETED", "CREATING", "CREATED"}]
          /\ current_data_' \in [Items -> DataValue] /\ shown' \in [Items -> DataValue]
          /\ state_'[i] = "DELETED" /\ shown'[i] = data /\ shown'[i].status = "Bad"
          /\ \A j \in Items \ {i} : /\ state_'[j] = state_[j] /\ shown'[j] = shown[j]
                                    /\ current_data_'[j] = current_data_[j]
      BY <1>7, <1>8, <2>2, <3>1, Zenon
    <3>3. ASSUME NEW j \in Items PROVE ItemInv(j)'
      <4>1. CASE j = i
        BY <1>1, <1>7, <2>2, <3>2, <4>1, Zenon DEF ItemInv
      <4>2. CASE j # i
        BY <1>1, <1>7, <2>2, <3>2, <4>2 DEF ItemInv
      <4> QED
        BY <4>1, <4>2
    <3>4. ObserversMatch'
      <4>1. \A j \in Items : state_'[j] = "CREATED" <=> state_[j] = "CREATED"
        BY <2>2, <3>2
      <4> QED
        BY <1>1, <1>7, <2>2, <4>1 DEF ObserversMatch
    <3>5. NoSilentStop'
      <4> SUFFICES ASSUME NEW j \in Items, life[j] = "alive", subscribed_[j],
                          channel_opened_[j], state_'[j] = "DELETED"
                   PROVE  shown'[j].status = "Bad"
        BY <1>1 DEF NoSilentStop, Alive
      <4> QED
        BY <1>7, <3>2 DEF NoSilentStop, Alive
    <3> QED
      BY <1>7, <2>2, <3>2, <3>3, <3>4, <3>5, Zenon DEF ProxiesInv, OtherChecksHold
  <2>3. CASE /\ life[i] # "alive"
             /\ UNCHANGED <<state_, monitored_item_id_, monitored_item_ids_, current_data_,
                            shown, panic>>
    <3>1. ProxiesInv'
      BY <1>1, <1>7, <2>3 DEF ProxiesInv, ObserversMatch, NoSilentStop, OtherChecksHold,
                              ItemInv, Alive
    <3> QED
      BY <1>7, <2>3, <3>1
  <2> QED
    BY <1>9, <2>1, <2>2, <2>3, Zenon
<1>11. Types'
  BY <1>1, <1>2, <1>10, Zenon DEF Types, TypeOK
<1>12. ChannelInv' /\ RequestInv'
  <2>1. \A n \in 1..Len(toServer') : n + 0 \in 1..Len(toServer) /\ toServer'[n] = toServer[n + 0]
    BY <1>1 DEF Types
  <2> QED
    BY <1>1, <1>2, <2>1, ChannelSame, Zenon DEF IInv, RequestInv
<1>13. ASSUME NEW x \in Ids PROVE IdInv(x)'
  <2>1. IdInv(x)
    BY DEF IInv
  <2>2. CASE x # id
    <3>1. \A n \in 1..Len(toClient) : n > 1 => n - 1 \in 1..Len(toClient')
      BY <1>2
    <3> QED
      BY <1>1, <1>2, <1>5, <1>10, <2>1, <2>2, <3>1, IdSuffix, Zenon
  <2>3. CASE x = id
    <3>1. \A n \in 1..Len(toClient') : /\ ~AnswerAt(n, x)'
                                       /\ DataAt(n, x)' <=> DataAt(n + 1, x)
                                       /\ n \in Nat
      <4>1. \A n \in 1..Len(toClient') : n \in Nat /\ toClient'[n] = toClient[n + 1]
        BY <1>2
      <4>2. x # 0
        BY ConstantsAssumption DEF Ids
      <4>3. ASSUME NEW n \in 1..Len(toClient')
            PROVE  /\ AnswerAt(n, x)' <=> AnswerAt(n + 1, x)
                   /\ DataAt(n, x)' <=> DataAt(n + 1, x)
        BY <4>1, Zenon DEF AnswerAt, DataAt
      <4> QED
        BY <1>6, <2>3, <4>1, <4>2, <4>3, Zenon
    <3>2. ~Answering(x)'
      BY <3>1 DEF Answering
    <3>3. \A n \in 1..Len(toClient') :
            /\ DataAt(n, x)' => owner'[x] # None
            /\ DataAt(n, x)' /\ toClient'[n][3].status = "Bad" => monitored_items_'[x] = None
      BY <1>1, <1>2, <2>1, <3>1, Zenon DEF IdInv
    <3>4. ASSUME NEW m \in 1..Len(toClient'), NEW n \in 1..Len(toClient'), DataAt(m, x)',
                 DataAt(n, x)', toClient'[m][3].status = "Bad"
          PROVE  n <= m
      <4>1. /\ m + 1 \in 1..Len(toClient) /\ n + 1 \in 1..Len(toClient)
            /\ DataAt(m + 1, x) /\ DataAt(n + 1, x) /\ toClient[m + 1][3].status = "Bad"
        BY <1>2, <3>1, <3>4, Zenon
      <4>2. n + 1 <= m + 1
        BY <2>1, <4>1, Zenon DEF IdInv
      <4> QED
        BY <3>1, <4>2
    <3>5. owner'[x] = i /\ (life'[i] = "alive" => monitored_item_ids_'[x] = i)
      BY <1>1, <1>6, <1>10, <2>3, ConstantsAssumption DEF Ids
    <3>6. /\ x >= next_monitored_item_id_' => owner'[x] = None /\ monitored_items_'[x] = None
          /\ x < next_monitored_item_id_' => owner'[x] \in Items
          /\ owner'[x] # None => life'[owner'[x]] # "unborn"
      BY <1>1, <2>1, Zenon DEF IdInv
    <3> QED
      BY <3>1, <3>2, <3>3, <3>4, <3>5, <3>6, Zenon DEF IdInv
  <2> QED
    BY <2>2, <2>3
<1> QED
  BY <1>10, <1>11, <1>12, <1>13 DEF IInv

\* What a new value does to the item that observes its id.
LEMMA ItemValueKeeps ==
  ASSUME IInv, NEW id \in Ids, NEW value \in DataValue, NEW i \in Items,
         monitored_item_ids_[id] = i, value # current_data_[i], OnItemDataChange(i, value),
         UNCHANGED <<subscription, life, subscribed_, channel_opened_, owner, panic>>
  PROVE  /\ ProxiesInv'
         /\ state_' \in [Items -> {"DELETED", "CREATING", "CREATED"}]
         /\ monitored_item_id_' \in [Items -> 0..MaxIds]
         /\ monitored_item_ids_' \in [Ids -> Items \cup {None}]
         /\ current_data_' \in [Items -> DataValue] /\ shown' \in [Items -> DataValue]
         /\ \A x \in Ids :
              \/ monitored_item_ids_'[x] = monitored_item_ids_[x]
              \/ x = id /\ value.status = "Bad" /\ monitored_item_ids_'[x] = None
<1>1. /\ state_ \in [Items -> {"DELETED", "CREATING", "CREATED"}]
      /\ monitored_item_id_ \in [Items -> 0..MaxIds] /\ 0 \in 0..MaxIds
      /\ monitored_item_ids_ \in [Ids -> Items \cup {None}]
      /\ current_data_ \in [Items -> DataValue] /\ shown \in [Items -> DataValue]
      /\ \A j \in Items : ItemInv(j)
      /\ ObserversMatch /\ NoSilentStop /\ OtherChecksHold
  BY ConstantsAssumption DEF Types, TypeOK, IInv, ProxiesInv
<1>2. /\ life[i] = "alive" /\ state_[i] = "CREATED" /\ monitored_item_id_[i] = id
      /\ owner[id] = i
  BY <1>1 DEF ObserversMatch
<1>3. /\ IF value.status = "Bad"
         THEN /\ state_' = [state_ EXCEPT ![i] = "DELETED"]
              /\ monitored_item_ids_' = [monitored_item_ids_ EXCEPT ![id] = None]
              /\ monitored_item_id_' = [monitored_item_id_ EXCEPT ![i] = 0]
         ELSE UNCHANGED <<state_, monitored_item_id_, monitored_item_ids_>>
      /\ \/ current_data_' = [current_data_ EXCEPT ![i] = value]
         \/ current_data_' = current_data_
      /\ shown' = [shown EXCEPT ![i] = value]
  BY <1>2 DEF OnItemDataChange
<1>4. /\ current_data_' \in [Items -> DataValue] /\ shown' \in [Items -> DataValue]
      /\ shown'[i] = value
      /\ \A j \in Items \ {i} : current_data_'[j] = current_data_[j] /\ shown'[j] = shown[j]
  BY <1>1, <1>3
<1>5. CASE value.status = "Bad"
  <2>1. /\ state_' \in [Items -> {"DELETED", "CREATING", "CREATED"}]
        /\ monitored_item_id_' \in [Items -> 0..MaxIds]
        /\ monitored_item_ids_' \in [Ids -> Items \cup {None}]
        /\ state_'[i] = "DELETED" /\ monitored_item_ids_'[id] = None
        /\ \A j \in Items \ {i} : /\ state_'[j] = state_[j]
                                  /\ monitored_item_id_'[j] = monitored_item_id_[j]
        /\ \A x \in Ids \ {id} : monitored_item_ids_'[x] = monitored_item_ids_[x]
    BY <1>1, <1>3, <1>5
  <2>2. ASSUME NEW j \in Items PROVE ItemInv(j)'
    <3>1. CASE j = i
      BY <1>1, <1>2, <2>1, <3>1 DEF ItemInv
    <3>2. CASE j # i
      <4>1. state_[j] = "CREATED" => monitored_item_id_[j] # id
        BY <1>1, <3>2 DEF ItemInv
      <4> QED
        BY <1>1, <1>4, <2>1, <3>2, <4>1 DEF ItemInv
    <3> QED
      BY <3>1, <3>2
  <2>3. ObserversMatch'
    <3> SUFFICES ASSUME NEW x \in Ids, NEW j \in Items
                 PROVE  monitored_item_ids_'[x] = j
                          <=> /\ life[j] = "alive" /\ state_'[j] = "CREATED"
                              /\ monitored_item_id_'[j] = x /\ owner[x] = j
      BY DEF ObserversMatch
    <3>1. monitored_item_ids_[x] = j
            <=> /\ life[j] = "alive" /\ state_[j] = "CREATED"
                /\ monitored_item_id_[j] = x /\ owner[x] = j
      BY <1>1 DEF ObserversMatch
    <3>2. CASE x = id
      BY <1>2, <2>1, <3>2, ConstantsAssumption
    <3>3. CASE x # id
      BY <1>2, <2>1, <3>1, <3>3
    <3> QED
      BY <3>2, <3>3
  <2>4. NoSilentStop'
    <3> SUFFICES ASSUME NEW j \in Items, life[j] = "alive", subscribed_[j],
                        channel_opened_[j], state_'[j] = "DELETED"
                 PROVE  shown'[j].status = "Bad"
      BY DEF NoSilentStop, Alive
    <3> QED
      BY <1>1, <1>4, <1>5, <2>1 DEF NoSilentStop, Alive
  <2> QED
    BY <1>1, <1>4, <1>5, <2>1, <2>2, <2>3, <2>4 DEF ProxiesInv, OtherChecksHold
<1>6. CASE value.status # "Bad"
  <2>1. UNCHANGED <<state_, monitored_item_id_, monitored_item_ids_>>
    BY <1>3, <1>6
  <2>2. ASSUME NEW j \in Items PROVE ItemInv(j)'
    <3>1. CASE j = i
      BY <1>1, <1>2, <2>1, <3>1 DEF ItemInv
    <3>2. CASE j # i
      BY <1>1, <1>4, <2>1, <3>2 DEF ItemInv
    <3> QED
      BY <3>1, <3>2
  <2>3. NoSilentStop'
    <3> SUFFICES ASSUME NEW j \in Items, life[j] = "alive", subscribed_[j],
                        channel_opened_[j], state_[j] = "DELETED"
                 PROVE  shown'[j].status = "Bad"
      BY <2>1 DEF NoSilentStop, Alive
    <3> QED
      BY <1>1, <1>2, <1>4 DEF NoSilentStop, Alive
  <2> QED
    BY <1>1, <1>4, <2>1, <2>2, <2>3 DEF ProxiesInv, ObserversMatch, OtherChecksHold
<1> QED
  BY <1>5, <1>6

\* A value is read: by the item that observes its id, or by nobody.
LEMMA ValueReadKeeps ==
  ASSUME IInv, DataChangeNotification
  PROVE  IInv'
<1>1. /\ Types /\ toClient # <<>> /\ Head(toClient)[1] = "data"
      /\ toClient' = Tail(toClient)
      /\ UNCHANGED <<sender_, subscription, life, subscribed_, channel_opened_, toServer,
                     server, owner, monitored_items_, next_monitored_item_id_, stub, posted,
                     pushed, source, clock, sessions, panic>>
  BY Zenon DEF DataChangeNotification, Arrives, IInv, server
<1>2. /\ toClient' \in Seq(Response) /\ Head(toClient) = toClient[1]
      /\ 1 \in 1..Len(toClient) /\ toClient[1] \in Response
      /\ Len(toClient') = Len(toClient) - 1
      /\ \A n \in 1..Len(toClient') :
           n + 1 \in 1..Len(toClient) /\ toClient'[n] = toClient[n + 1]
  BY <1>1, TakenResponse DEF Types
<1>3. toClient[1][2] \in Ids /\ toClient[1][3] \in DataValue
  BY <1>1, <1>2, ResponseKinds
<1>4. PICK id \in Ids, value \in DataValue : id = toClient[1][2] /\ value = toClient[1][3]
  BY <1>3
<1>5. DataAt(1, id) /\ \A x \in Ids : ~AnswerAt(1, x)
  BY <1>1, <1>2, <1>4 DEF DataAt, AnswerAt
<1>6. /\ state_ \in [Items -> {"DELETED", "CREATING", "CREATED"}]
      /\ monitored_item_id_ \in [Items -> 0..MaxIds] /\ 0 \in 0..MaxIds
      /\ monitored_item_ids_ \in [Ids -> Items \cup {None}]
      /\ current_data_ \in [Items -> DataValue] /\ shown \in [Items -> DataValue]
      /\ \A j \in Items : ItemInv(j)
      /\ ObserversMatch /\ NoSilentStop /\ OtherChecksHold
  BY <1>1, ConstantsAssumption DEF Types, TypeOK, IInv, ProxiesInv
<1>7. value.status = "Bad" => Ended(id)'
  <2> SUFFICES ASSUME value.status = "Bad" PROVE Ended(id)'
    OBVIOUS
  <2>1. monitored_items_'[id] = None
    BY <1>1, <1>2, <1>4, <1>5, Zenon DEF IInv, IdInv
  <2>2. ASSUME NEW n \in 1..Len(toClient'), DataAt(n, id)' PROVE FALSE
    <3>1. n + 1 \in 1..Len(toClient) /\ DataAt(n + 1, id)
      BY <1>2, <2>2, Zenon DEF DataAt
    <3>2. n + 1 <= 1
      BY <1>2, <1>4, <1>5, <3>1, Zenon DEF IInv, IdInv
    <3> QED
      BY <3>2
  <2> QED
    BY <2>1, <2>2 DEF Ended
<1>8. /\ ProxiesInv'
      /\ state_' \in [Items -> {"DELETED", "CREATING", "CREATED"}]
      /\ monitored_item_id_' \in [Items -> 0..MaxIds]
      /\ monitored_item_ids_' \in [Ids -> Items \cup {None}]
      /\ current_data_' \in [Items -> DataValue] /\ shown' \in [Items -> DataValue]
      /\ \A x \in Ids : \/ monitored_item_ids_'[x] = monitored_item_ids_[x]
                        \/ monitored_item_ids_'[x] = None /\ Ended(x)'
  <2>1. CASE UNCHANGED <<state_, monitored_item_id_, monitored_item_ids_, current_data_, shown>>
    <3>1. ProxiesInv'
      BY <1>1, <1>6, <2>1 DEF ProxiesInv, ObserversMatch, NoSilentStop, OtherChecksHold,
                              ItemInv, Alive
    <3> QED
      BY <1>6, <2>1, <3>1
  <2>2. CASE \E i \in Items : /\ monitored_item_ids_[id] = i /\ value # current_data_[i]
                              /\ OnItemDataChange(i, value)
    <3>1. PICK i \in Items : /\ monitored_item_ids_[id] = i /\ value # current_data_[i]
                             /\ OnItemDataChange(i, value)
      BY <2>2
    <3> QED
      BY <1>1, <1>7, <3>1, ItemValueKeeps
  <2>3. \/ /\ monitored_item_ids_[id] # None
           /\ OnItemDataChange(monitored_item_ids_[id], value)
        \/ UNCHANGED <<state_, monitored_item_id_, monitored_item_ids_, current_data_, shown>>
    BY <1>2, <1>4, Zenon DEF DataChangeNotification
  <2>4. CASE /\ monitored_item_ids_[id] # None
             /\ OnItemDataChange(monitored_item_ids_[id], value)
    <3>1. monitored_item_ids_[id] \in Items
      BY <1>6, <2>4
    <3>2. value = current_data_[monitored_item_ids_[id]] =>
            UNCHANGED <<state_, monitored_item_id_, monitored_item_ids_, current_data_, shown>>
      BY <2>4 DEF OnItemDataChange
    <3> QED
      BY <2>1, <2>2, <2>4, <3>1, <3>2
  <2> QED
    BY <2>1, <2>3, <2>4
<1>9. Types'
  BY <1>1, <1>2, <1>8, Zenon DEF Types, TypeOK
<1>10. ChannelInv' /\ RequestInv'
  <2>1. \A n \in 1..Len(toServer') : n + 0 \in 1..Len(toServer) /\ toServer'[n] = toServer[n + 0]
    BY <1>1 DEF Types
  <2> QED
    BY <1>1, <1>2, <2>1, ChannelSame, Zenon DEF IInv, RequestInv
<1>11. ASSUME NEW x \in Ids PROVE IdInv(x)'
  <2>1. \A n \in 1..Len(toClient) : n > 1 => n - 1 \in 1..Len(toClient')
    BY <1>2
  <2> QED
    BY <1>1, <1>2, <1>5, <1>8, <2>1, IdSuffix, Zenon DEF IInv
<1> QED
  BY <1>8, <1>9, <1>10, <1>11 DEF IInv

\* There is no session at first.
LEMMA ItemsInit ==
  ASSUME Init PROVE IInv
<1>1. Types
  <2>1. /\ FirstId \in 1..(MaxIds + 1) /\ 0 \in 0..MaxIds /\ 1 \in 1..MaxClock
        /\ 0 \in 0..MaxSessions
        /\ <<>> \in Seq(Request) /\ <<>> \in Seq(Response) /\ <<>> \in Seq(Ids \X DataValue)
    BY ConstantsAssumption DEF FirstId
  <2>2. toServer \in Seq(Request) /\ toClient \in Seq(Response) /\ posted \in Seq(Ids \X DataValue)
    BY <2>1, Zenon DEF Init
  <2>3. /\ Blank(None) \in [Ids -> Items \cup {None}] /\ Blank(NoData) \in [Ids -> DataValue]
        /\ Sample(1) \in DataValue
    BY <2>1, Values DEF Blank
  <2> QED
    BY <2>1, <2>2, <2>3, Values, Zenon DEF Types, TypeOK, Init
<1>2. Len(toServer) = 0 /\ Len(toClient) = 0
  BY DEF Init
<1>3. ChannelInv /\ RequestInv
  BY <1>2 DEF Init, ChannelInv, RequestInv, AsksSubscription, GivesSubscription
<1>4. ProxiesInv
  BY ConstantsAssumption DEF Init, ProxiesInv, ObserversMatch, NoSilentStop, OtherChecksHold,
                             ItemInv, Alive, Blank
<1>5. ASSUME NEW id \in Ids PROVE IdInv(id)
  <2>1. owner[id] = None /\ monitored_items_[id] = None /\ monitored_item_ids_[id] = None
    BY DEF Init, Blank
  <2>2. id >= next_monitored_item_id_ /\ ~(id < next_monitored_item_id_)
    BY ConstantsAssumption DEF Init, FirstId, Ids
  <2>3. \A n \in 1..Len(toClient) : FALSE
    BY ONLY <1>2
  <2> QED
    BY ONLY <2>1, <2>2, <2>3, Zenon DEF IdInv, Answering
<1> QED
  BY <1>1, <1>3, <1>4, <1>5 DEF IInv

\* Every step keeps the invariant.
LEMMA ItemsStep ==
  ASSUME IInv, [Next]_vars PROVE IInv'
<1>1. CASE SessionCreated
  BY <1>1, SessionCreatedKeeps
<1>2. CASE SessionLost
  BY <1>2, SessionLostKeeps
<1>3. CASE \E i \in Items : CreateMonitoredItem(i) \/ Subscribe(i) \/ DestroyItem(i)
  BY <1>3, CreateItemKeeps, SubscribeKeeps, DestroyKeeps
<1>4. CASE CreateSubscriptionResult
  BY <1>4, SubscriptionResultKeeps
<1>5. CASE CreateMonitoredItemResult
  BY <1>5, ItemResultKeeps
<1>6. CASE DataChangeNotification
  BY <1>6, ValueReadKeeps
<1>7. CASE OnCreateSubscription
  BY <1>7, OnCreateSubscriptionKeeps
<1>8. CASE OnCreateMonitoredItem
  BY <1>8, OnCreateItemKeeps
<1>9. CASE OnDeleteMonitoredItem
  BY <1>9, OnDeleteKeeps
<1>10. CASE \E id \in Ids : Publish(id) \/ ItemFails(id)
  <2>1. source \in DataValue /\ MakeFailure(clock) \in DataValue
    BY Values DEF IInv, Types, TypeOK
  <2>2. PICK id \in Ids : Push(id, source) \/ Push(id, MakeFailure(clock))
    BY <1>10, Zenon DEF Publish, ItemFails
  <2> QED
    BY <2>1, <2>2, PushKeeps, Zenon
<1>11. CASE OnDataChange
  BY <1>11, OnDataChangeKeeps
<1>12. CASE TimePasses
  BY <1>12, TimeKeeps
<1>13. CASE UNCHANGED vars
  <2>1. /\ posted' \in Seq(Ids \X DataValue) /\ pushed' \in [Ids -> DataValue]
        /\ source' \in DataValue /\ clock' \in 1..MaxClock
    BY <1>13, Zenon DEF vars, server, IInv, Types, TypeOK
  <2> QED
    BY <1>13, <2>1, Quietly, Zenon DEF vars, server
<1> QED
  BY <1>1, <1>2, <1>3, <1>4, <1>5, <1>6, <1>7, <1>8, <1>9, <1>10, <1>11, <1>12, <1>13 DEF Next

\* What the invariant says of a value that is next to be read.
LEMMA NextValueIsMet ==
  ASSUME IInv PROVE NoValueIsMissed
<1> SUFFICES ASSUME toClient # <<>>, Head(toClient)[1] = "data",
                    life[owner[Head(toClient)[2]]] = "alive"
             PROVE  monitored_item_ids_[Head(toClient)[2]] = owner[Head(toClient)[2]]
  BY DEF NoValueIsMissed
<1>1. /\ Head(toClient) = toClient[1] /\ 1 \in 1..Len(toClient) /\ toClient[1] \in Response
  BY DEF IInv, Types
<1>2. PICK id \in Ids : id = toClient[1][2]
  BY <1>1, ResponseKinds
<1>3. IdInv(id) /\ DataAt(1, id)
  BY <1>1, <1>2 DEF IInv, DataAt
<1>4. ~Answering(id)
  <2> SUFFICES ASSUME NEW m \in 1..Len(toClient), AnswerAt(m, id) PROVE FALSE
    BY DEF Answering
  <2>1. m < 1
    BY <1>1, <1>3 DEF IdInv
  <2> QED
    BY <2>1
<1>5. ~Ended(id)
  BY <1>1, <1>3 DEF Ended
<1>6. owner[id] # None
  BY <1>1, <1>3 DEF IdInv
<1> QED
  BY <1>1, <1>2, <1>3, <1>4, <1>5, <1>6, Zenon DEF IdInv

\* The invariant holds in every state.
THEOREM ItemsInvariant == Spec => []IInv
<1>1. Init => IInv
  BY ItemsInit
<1>2. IInv /\ [Next]_vars => IInv'
  BY ItemsStep
<1> QED
  BY <1>1, <1>2, PTL DEF Spec

\* Items, router and server agree on every id, over every loss of a session, and
\* no other check of the proxies fails (AddMonitoredItemDataObserver,
\* RemoveMonitoredItemDataObserver, OnChannelOpened, OnChannelClosed).
THEOREM ItemsStayInAgreement == Spec => []ItemsAgree
<1>1. IInv => ItemsAgree
  BY DEF IInv, ProxiesInv, ItemsAgree
<1> QED
  BY <1>1, ItemsInvariant, PTL

\* Every value that reaches the client meets the item it is for, unless the
\* application destroyed it (SubscriptionStub::OnCreateMonitoredItem,
\* SubscriptionStub::OnDataChange, SubscriptionProxy::OnDataChange).
THEOREM EveryValueIsMet == Spec => []NoValueIsMissed
<1>1. IInv => NoValueIsMissed
  BY NextValueIsMet
<1> QED
  BY <1>1, ItemsInvariant, PTL

\* An item that stopped while its channel is open shows a bad value
\* (OnCreateMonitoredItemResult, OnDataChange).
THEOREM NoItemStopsSilently == Spec => []NoSilentStop
<1>1. IInv => NoSilentStop
  BY DEF IInv, ProxiesInv
<1> QED
  BY <1>1, ItemsInvariant, PTL
=============================================================================

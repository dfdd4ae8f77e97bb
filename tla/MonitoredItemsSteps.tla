------------------------- MODULE MonitoredItemsSteps -------------------------
(***************************************************************************)
(* The inductive invariant of monitored items across the wire, and the     *)
(* steps of the server and of the application that keep it.  The argument  *)
(* follows an id through one session: its response is on its way and       *)
(* nobody observes it; then its item observes it or, once the last value   *)
(* of the id is read, has stopped.                                         *)
(***************************************************************************)
EXTENDS MonitoredItems, TLAPS

\* A step that names no prover is tried with these.
USE SMTT(30), ZenonT(30)

Request == ({"create"} \X (Items \cup {None})) \cup ({"delete"} \X Ids)
Response == {<<"subscription">>} \cup ({"item"} \X Items \X (0..MaxIds))
            \cup ({"data"} \X Ids \X DataValue)

Types ==
  /\ TypeOK
  /\ toServer \in Seq(Request) /\ toClient \in Seq(Response)

Opens(m) == m = CreateRequest(None)
AsksSubscription == \E n \in 1..Len(toServer) : Opens(toServer[n])
GivesSubscription == \E n \in 1..Len(toClient) : toClient[n][1] = "subscription"

\* CreateSubscription is asked and answered once while the proxy is CREATING.
ChannelInv ==
  /\ ~sender_ => subscription = "DELETED"
  /\ AsksSubscription \/ GivesSubscription => subscription = "CREATING"
  /\ ~(AsksSubscription /\ GivesSubscription)
  /\ \A m, n \in 1..Len(toServer) : Opens(toServer[m]) /\ Opens(toServer[n]) => m = n
  /\ \A m, n \in 1..Len(toClient) :
       toClient[m][1] = "subscription" /\ toClient[n][1] = "subscription" => m = n

\* What an item's fields say of each other.
ItemInv(i) ==
  /\ state_[i] # "DELETED" => life[i] = "alive" /\ subscribed_[i] /\ channel_opened_[i]
  /\ state_[i] = "CREATED" => /\ monitored_item_id_[i] \in Ids
                              /\ monitored_item_ids_[monitored_item_id_[i]] = i
  /\ life[i] = "unborn" => ~subscribed_[i] /\ ~channel_opened_[i]
  /\ life[i] = "alive" /\ channel_opened_[i] => subscription = "CREATED"
  /\ ~subscribed_[i] => current_data_[i] = NoData
  /\ state_[i] = "CREATING" => ~current_data_[i].failed

AnswerAt(n, id) == toClient[n][1] = "item" /\ toClient[n][3] = id
DataAt(n, id) == toClient[n][1] = "data" /\ toClient[n][2] = id
Answering(id) == \E n \in 1..Len(toClient) : AnswerAt(n, id)
Ended(id) ==
  /\ monitored_items_[id] = None
  /\ \A n \in 1..Len(toClient) : ~DataAt(n, id)

\* An id is given out once.  Its response precedes its values, and a bad value
\* is the last one; once it is answered, its item observes it until it ended.
IdInv(id) ==
  /\ id >= next_monitored_item_id_ => owner[id] = None /\ monitored_items_[id] = None
  /\ id < next_monitored_item_id_ => owner[id] \in Items
  /\ owner[id] # None => life[owner[id]] # "unborn"
  /\ \A n \in 1..Len(toClient) :
       /\ AnswerAt(n, id) => owner[id] = toClient[n][2]
       /\ DataAt(n, id) => owner[id] # None
       /\ DataAt(n, id) /\ toClient[n][3].status = "Bad" => monitored_items_[id] = None
  /\ \A m, n \in 1..Len(toClient) :
       /\ AnswerAt(m, id) /\ AnswerAt(n, id) => m = n
       /\ AnswerAt(m, id) /\ DataAt(n, id) => m < n
       /\ DataAt(m, id) /\ DataAt(n, id) /\ toClient[m][3].status = "Bad" => n <= m
  /\ Answering(id) => monitored_item_ids_[id] = None
  /\ ~Answering(id) /\ owner[id] # None /\ life[owner[id]] = "alive"
       => monitored_item_ids_[id] = owner[id] \/ Ended(id)

\* Only an item that was subscribed is asked for.
RequestInv ==
  \A n \in 1..Len(toServer) :
    toServer[n][1] = "create" /\ toServer[n][2] # None => life[toServer[n][2]] # "unborn"

\* What concerns the client's proxies only, and the items the server made ids for.
ProxiesInv ==
  /\ ObserversMatch /\ NoSilentStop /\ OtherChecksHold
  /\ \A i \in Items : ItemInv(i)

IInv ==
  /\ Types /\ ChannelInv /\ RequestInv /\ ProxiesInv
  /\ \A id \in Ids : IdInv(id)

\* The kinds of messages to the client.
LEMMA ResponseKinds ==
  ASSUME NEW m \in Response
  PROVE  /\ m[1] \in {"subscription", "item", "data"}
         /\ m[1] = "item" => m[2] \in Items /\ m[3] \in 0..MaxIds
         /\ m[1] = "data" => m[2] \in Ids /\ m[3] \in DataValue
  BY DEF Response

\* The kinds of messages to the server.
LEMMA RequestKinds ==
  ASSUME NEW m \in Request
  PROVE  /\ m[1] \in {"create", "delete"}
         /\ m[1] = "create" => m[2] \in Items \cup {None} /\ m = CreateRequest(m[2])
         /\ m[1] = "delete" => m[2] \in Ids
  BY DEF Request, CreateRequest

\* What is left of the client's messages when one is taken.
LEMMA TakenResponse ==
  ASSUME toClient \in Seq(Response), toClient # <<>>, toClient' = Tail(toClient)
  PROVE  /\ toClient' \in Seq(Response) /\ Head(toClient) = toClient[1]
         /\ 1 \in 1..Len(toClient) /\ toClient[1] \in Response
         /\ Len(toClient') = Len(toClient) - 1
         /\ \A n \in 1..Len(toClient') :
              n + 1 \in 1..Len(toClient) /\ toClient'[n] = toClient[n + 1]
  OBVIOUS

\* What the client's messages are when one is added.
LEMMA AddedResponse ==
  ASSUME toClient \in Seq(Response), NEW m \in Response, toClient' = Append(toClient, m)
  PROVE  /\ toClient' \in Seq(Response) /\ Len(toClient') = Len(toClient) + 1
         /\ \A n \in 1..Len(toClient) : n \in 1..Len(toClient') /\ toClient'[n] = toClient[n]
         /\ toClient'[Len(toClient) + 1] = m /\ Len(toClient) + 1 \in 1..Len(toClient')
         /\ \A n \in 1..Len(toClient') : n \in 1..Len(toClient) \/ n = Len(toClient) + 1
         /\ Len(toClient) \in Nat
  OBVIOUS

\* What is left of the server's messages when one is taken.
LEMMA TakenRequest ==
  ASSUME toServer \in Seq(Request), toServer # <<>>, toServer' = Tail(toServer)
  PROVE  /\ toServer' \in Seq(Request) /\ Head(toServer) = toServer[1]
         /\ 1 \in 1..Len(toServer) /\ toServer[1] \in Request
         /\ Len(toServer') = Len(toServer) - 1
         /\ \A n \in 1..Len(toServer') :
              n + 1 \in 1..Len(toServer) /\ toServer'[n] = toServer[n + 1]
  OBVIOUS

\* An id whose response is not taken away, and to whose messages nothing is
\* added: values taken away and an item deleted at the server do no harm, nor
\* does it that an item that is gone or has ended stops to observe it.
LEMMA IdSuffix ==
  ASSUME NEW id \in Ids, Types, IdInv(id), NEW d \in {0, 1},
         \A n \in 1..Len(toClient') :
           n + d \in 1..Len(toClient) /\ toClient'[n] = toClient[n + d],
         \A n \in 1..Len(toClient) : n > d => n - d \in 1..Len(toClient'),
         d = 1 => ~AnswerAt(1, id),
         owner'[id] = owner[id], next_monitored_item_id_' = next_monitored_item_id_,
         monitored_items_'[id] = monitored_items_[id] \/ monitored_items_'[id] = None,
         \/ monitored_item_ids_'[id] = monitored_item_ids_[id]
         \/ /\ monitored_item_ids_'[id] = None
            /\ life'[owner[id]] # "alive" \/ Ended(id)',
         \A i \in Items : life[i] # "unborn" => life'[i] # "unborn",
         \A i \in Items : life'[i] = "alive" /\ owner[id] = i => life[i] = "alive"
  PROVE  IdInv(id)'
<1>1. owner[id] \in Items \cup {None}
  BY DEF Types, TypeOK
<1>2. \A n \in 1..Len(toClient') : /\ AnswerAt(n, id)' <=> AnswerAt(n + d, id)
                                   /\ DataAt(n, id)' <=> DataAt(n + d, id)
                                   /\ n \in Nat
  BY DEF AnswerAt, DataAt
<1>3. /\ id >= next_monitored_item_id_' => owner'[id] = None /\ monitored_items_'[id] = None
      /\ id < next_monitored_item_id_' => owner'[id] \in Items
      /\ owner'[id] # None => life'[owner'[id]] # "unborn"
  BY <1>1 DEF IdInv
<1>4. ASSUME NEW n \in 1..Len(toClient')
      PROVE  /\ AnswerAt(n, id)' => owner'[id] = toClient'[n][2]
             /\ DataAt(n, id)' => owner'[id] # None
             /\ DataAt(n, id)' /\ toClient'[n][3].status = "Bad" => monitored_items_'[id] = None
  <2>1. n + d \in 1..Len(toClient) /\ toClient'[n] = toClient[n + d]
    OBVIOUS
  <2>2. /\ AnswerAt(n + d, id) => owner[id] = toClient[n + d][2]
        /\ DataAt(n + d, id) => owner[id] # None
        /\ DataAt(n + d, id) /\ toClient[n + d][3].status = "Bad" => monitored_items_[id] = None
    BY <2>1 DEF IdInv
  <2> QED
    BY <1>2, <2>1, <2>2, Zenon
<1>5. ASSUME NEW m \in 1..Len(toClient'), NEW n \in 1..Len(toClient')
      PROVE  /\ AnswerAt(m, id)' /\ AnswerAt(n, id)' => m = n
             /\ AnswerAt(m, id)' /\ DataAt(n, id)' => m < n
             /\ DataAt(m, id)' /\ DataAt(n, id)' /\ toClient'[m][3].status = "Bad" => n <= m
  <2>1. /\ m + d \in 1..Len(toClient) /\ n + d \in 1..Len(toClient)
        /\ toClient'[m] = toClient[m + d] /\ m \in Nat /\ n \in Nat
    OBVIOUS
  <2>2. /\ AnswerAt(m + d, id) /\ AnswerAt(n + d, id) => m + d = n + d
        /\ AnswerAt(m + d, id) /\ DataAt(n + d, id) => m + d < n + d
        /\ DataAt(m + d, id) /\ DataAt(n + d, id) /\ toClient[m + d][3].status = "Bad"
             => n + d <= m + d
    BY <2>1, Zenon DEF IdInv
  <2>3. /\ AnswerAt(m + d, id) /\ AnswerAt(n + d, id) => m = n
        /\ AnswerAt(m + d, id) /\ DataAt(n + d, id) => m < n
        /\ DataAt(m + d, id) /\ DataAt(n + d, id) /\ toClient[m + d][3].status = "Bad"
             => n <= m
    BY ONLY <2>1, <2>2, d \in {0, 1}
  <2> QED
    BY <1>2, <2>1, <2>3, Zenon
<1>6. Answering(id)' <=> Answering(id)
  <2>1. Answering(id)' => Answering(id)
    BY <1>2 DEF Answering
  <2>2. ASSUME NEW n \in 1..Len(toClient), AnswerAt(n, id)
        PROVE  Answering(id)'
    <3>1. n > d /\ n \in Nat
      BY <2>2
    <3>2. PICK m \in 1..Len(toClient') : m = n - d
      BY <3>1
    <3>3. m + d = n
      BY ONLY <3>1, <3>2, d \in {0, 1}
    <3> QED
      BY <1>2, <2>2, <3>3 DEF Answering
  <2> QED
    BY <2>1, <2>2 DEF Answering
<1>7. Ended(id) => Ended(id)'
  BY <1>2 DEF Ended
<1>8. Answering(id)' => monitored_item_ids_'[id] = None
  BY <1>6 DEF IdInv
<1>9. ~Answering(id)' /\ owner'[id] # None /\ life'[owner'[id]] = "alive"
        => monitored_item_ids_'[id] = owner'[id] \/ Ended(id)'
  BY <1>1, <1>6, <1>7 DEF IdInv
<1> QED
  BY <1>3, <1>4, <1>5, <1>8, <1>9 DEF IdInv

\* The same where no message to the client comes or goes.
LEMMA IdKept ==
  ASSUME NEW id \in Ids, Types, IdInv(id), toClient' = toClient,
         owner'[id] = owner[id], next_monitored_item_id_' = next_monitored_item_id_,
         monitored_items_'[id] = monitored_items_[id] \/ monitored_items_'[id] = None,
         \/ monitored_item_ids_'[id] = monitored_item_ids_[id]
         \/ monitored_item_ids_'[id] = None /\ life'[owner[id]] # "alive",
         \A i \in Items : life[i] # "unborn" => life'[i] # "unborn",
         \A i \in Items : life'[i] = "alive" /\ owner[id] = i => life[i] = "alive"
  PROVE  IdInv(id)'
<1>1. /\ \A n \in 1..Len(toClient') : n + 0 \in 1..Len(toClient) /\ toClient'[n] = toClient[n + 0]
      /\ \A n \in 1..Len(toClient) : n > 0 => n - 0 \in 1..Len(toClient')
  BY DEF Types
<1>2. 0 \in {0, 1} /\ 0 # 1
  OBVIOUS
<1> QED
  BY <1>1, <1>2, IdSuffix, Zenon

\* A message about something else is added.
LEMMA IdAppended ==
  ASSUME NEW id \in Ids, Types, IdInv(id), NEW m \in Response,
         toClient' = Append(toClient, m),
         m[1] = "item" => m[3] # id, m[1] = "data" => m[2] # id,
         owner'[id] = owner[id], monitored_items_'[id] = monitored_items_[id],
         next_monitored_item_id_' \in Nat,
         next_monitored_item_id_' = next_monitored_item_id_
           \/ (next_monitored_item_id_ # id
               /\ next_monitored_item_id_' = next_monitored_item_id_ + 1),
         UNCHANGED <<monitored_item_ids_, life>>
  PROVE  IdInv(id)'
<1>1. /\ Len(toClient') = Len(toClient) + 1 /\ Len(toClient) \in Nat
      /\ \A n \in 1..Len(toClient) : n \in 1..Len(toClient') /\ toClient'[n] = toClient[n]
      /\ toClient'[Len(toClient) + 1] = m
      /\ \A n \in 1..Len(toClient') : n \in 1..Len(toClient) \/ n = Len(toClient) + 1
  BY AddedResponse DEF Types
<1>2. \A n \in 1..Len(toClient) : /\ AnswerAt(n, id)' <=> AnswerAt(n, id)
                                  /\ DataAt(n, id)' <=> DataAt(n, id)
  BY <1>1 DEF AnswerAt, DataAt
<1>3. \A n \in 1..Len(toClient') : n \notin 1..Len(toClient) => ~AnswerAt(n, id)' /\ ~DataAt(n, id)'
  BY <1>1 DEF AnswerAt, DataAt
<1>4. \A n \in 1..Len(toClient') : /\ AnswerAt(n, id)' => n \in 1..Len(toClient) /\ AnswerAt(n, id)
                                   /\ DataAt(n, id)' => n \in 1..Len(toClient) /\ DataAt(n, id)
  BY <1>1, <1>2, <1>3
<1>5. Answering(id)' <=> Answering(id)
  BY <1>1, <1>2, <1>4 DEF Answering
<1>6. Ended(id) => Ended(id)'
  BY <1>4 DEF Ended
<1>7. next_monitored_item_id_ \in Nat /\ id \in Nat
  BY ConstantsAssumption DEF Types, TypeOK, Ids
<1>8. /\ id >= next_monitored_item_id_' => id >= next_monitored_item_id_
      /\ id < next_monitored_item_id_' => id < next_monitored_item_id_
  BY <1>7
<1>9. /\ \A n \in 1..Len(toClient') :
          /\ AnswerAt(n, id)' => owner'[id] = toClient'[n][2]
          /\ DataAt(n, id)' => owner'[id] # None
          /\ DataAt(n, id)' /\ toClient'[n][3].status = "Bad" => monitored_items_'[id] = None
      /\ \A k, n \in 1..Len(toClient') :
           /\ AnswerAt(k, id)' /\ AnswerAt(n, id)' => k = n
           /\ AnswerAt(k, id)' /\ DataAt(n, id)' => k < n
           /\ DataAt(k, id)' /\ DataAt(n, id)' /\ toClient'[k][3].status = "Bad" => n <= k
  <2>1. /\ \A n \in 1..Len(toClient) :
             /\ AnswerAt(n, id) => owner[id] = toClient[n][2]
             /\ DataAt(n, id) => owner[id] # None
             /\ DataAt(n, id) /\ toClient[n][3].status = "Bad" => monitored_items_[id] = None
        /\ \A k, n \in 1..Len(toClient) :
             /\ AnswerAt(k, id) /\ AnswerAt(n, id) => k = n
             /\ AnswerAt(k, id) /\ DataAt(n, id) => k < n
             /\ DataAt(k, id) /\ DataAt(n, id) /\ toClient[k][3].status = "Bad" => n <= k
    BY Zenon DEF IdInv
  <2>2. \A n \in 1..Len(toClient) : toClient'[n] = toClient[n]
    BY <1>1
  <2> QED
    BY <1>4, <2>1, <2>2
<1>10. /\ id >= next_monitored_item_id_' => owner'[id] = None /\ monitored_items_'[id] = None
       /\ id < next_monitored_item_id_' => owner'[id] \in Items
       /\ owner'[id] # None => life'[owner'[id]] # "unborn"
       /\ Answering(id)' => monitored_item_ids_'[id] = None
       /\ ~Answering(id)' /\ owner'[id] # None /\ life'[owner'[id]] = "alive"
            => monitored_item_ids_'[id] = owner'[id] \/ Ended(id)'
  BY <1>5, <1>6, <1>8, Zenon DEF IdInv
<1> QED
  BY <1>9, <1>10, Zenon DEF IdInv

\* A step that leaves the client's proxies alone keeps what concerns them.
LEMMA ProxiesSame ==
  ASSUME ProxiesInv, UNCHANGED <<client, panic>>,
         \A id \in Ids, i \in Items : monitored_item_ids_[id] = i => owner'[id] = owner[id],
         \A i \in Items : state_[i] = "CREATED" =>
           owner'[monitored_item_id_[i]] = owner[monitored_item_id_[i]]
  PROVE  ProxiesInv'
<1>1. /\ NoSilentStop' /\ OtherChecksHold' /\ \A i \in Items : ItemInv(i)'
  BY DEF ProxiesInv, NoSilentStop, OtherChecksHold, ItemInv, Alive, client
<1>2. ObserversMatch'
  BY DEF ProxiesInv, ObserversMatch, client
<1> QED
  BY <1>1, <1>2 DEF ProxiesInv

\* Taking the first request leaves the requests' invariant.
LEMMA RequestTaken ==
  ASSUME Types, RequestInv, toServer # <<>>, toServer' = Tail(toServer), UNCHANGED life
  PROVE  RequestInv' /\ toServer' \in Seq(Request)
<1>1. /\ toServer' \in Seq(Request)
      /\ \A n \in 1..Len(toServer') :
           n + 1 \in 1..Len(toServer) /\ toServer'[n] = toServer[n + 1]
  BY TakenRequest DEF Types
<1> QED
  BY <1>1 DEF RequestInv

\* The subscription is asked for and given while the client waits for it:
\* messages of another kind may come and go.
LEMMA ChannelSame ==
  ASSUME ChannelInv, UNCHANGED <<sender_, subscription>>,
         NEW c \in {0, 1}, NEW s \in {0, 1},
         \A n \in 1..Len(toServer') : Opens(toServer'[n]) =>
           n + s \in 1..Len(toServer) /\ toServer'[n] = toServer[n + s],
         \A n \in 1..Len(toClient') : toClient'[n][1] = "subscription" =>
           n + c \in 1..Len(toClient) /\ toClient'[n] = toClient[n + c]
  PROVE  ChannelInv'
<1>1. (AsksSubscription' => AsksSubscription) /\ (GivesSubscription' => GivesSubscription)
  BY DEF AsksSubscription, GivesSubscription
<1>2. ASSUME NEW m \in 1..Len(toServer'), NEW n \in 1..Len(toServer'),
             Opens(toServer'[m]), Opens(toServer'[n])
      PROVE  m = n
  <2>1. /\ m + s \in 1..Len(toServer) /\ Opens(toServer[m + s])
        /\ n + s \in 1..Len(toServer) /\ Opens(toServer[n + s])
    BY <1>2, Zenon
  <2>2. m + s = n + s
    BY <2>1, Zenon DEF ChannelInv
  <2> QED
    BY <2>2
<1>3. ASSUME NEW m \in 1..Len(toClient'), NEW n \in 1..Len(toClient'),
             toClient'[m][1] = "subscription", toClient'[n][1] = "subscription"
      PROVE  m = n
  <2>1. /\ m + c \in 1..Len(toClient) /\ toClient[m + c][1] = "subscription"
        /\ n + c \in 1..Len(toClient) /\ toClient[n + c][1] = "subscription"
    BY <1>3, Zenon
  <2>2. m + c = n + c
    BY <2>1, Zenon DEF ChannelInv
  <2> QED
    BY <2>2
<1> QED
  BY <1>1, <1>2, <1>3 DEF ChannelInv

\* CreateSubscription reaches the server.
LEMMA OnCreateSubscriptionKeeps ==
  ASSUME IInv, OnCreateSubscription
  PROVE  IInv'
<1>1. /\ Types /\ toServer # <<>> /\ toServer' = Tail(toServer)
      /\ Head(toServer)[1] = "create" /\ Head(toServer)[2] = None
      /\ UNCHANGED <<client, life, owner, monitored_items_, next_monitored_item_id_,
                     monitored_item_ids_, panic, sender_, subscription>>
  BY DEF OnCreateSubscription, Received, IInv, client
<1>2. /\ toServer' \in Seq(Request) /\ 1 \in 1..Len(toServer) /\ Opens(toServer[1])
      /\ \A n \in 1..Len(toServer') :
           n + 1 \in 1..Len(toServer) /\ toServer'[n] = toServer[n + 1]
  BY <1>1, TakenRequest, RequestKinds DEF Types, Opens
<1>3. <<"subscription">> \in Response
  BY DEF Response
<1>4. PICK m \in Response : m = <<"subscription">>
  BY <1>3
<1>5. toClient' = Append(toClient, m) /\ m[1] = "subscription"
  BY <1>4 DEF OnCreateSubscription
<1>6. /\ toClient' \in Seq(Response) /\ Len(toClient') = Len(toClient) + 1
      /\ \A n \in 1..Len(toClient) : n \in 1..Len(toClient') /\ toClient'[n] = toClient[n]
      /\ \A n \in 1..Len(toClient') : n \in 1..Len(toClient) \/ n = Len(toClient) + 1
  BY <1>1, <1>5, AddedResponse DEF Types
<1>7. Types'
  BY <1>1, <1>2, <1>6, SMTT(60) DEF Types, TypeOK, client, OnCreateSubscription
<1>8. ChannelInv'
  <2>1. AsksSubscription /\ subscription = "CREATING" /\ ~GivesSubscription
    BY <1>2 DEF AsksSubscription, IInv, ChannelInv
  <2>2. ~AsksSubscription'
    <3> SUFFICES ASSUME NEW n \in 1..Len(toServer'), Opens(toServer'[n]) PROVE FALSE
      BY DEF AsksSubscription
    <3>1. n + 1 = 1
      BY <1>2, Zenon DEF IInv, ChannelInv
    <3> QED
      BY <3>1
  <2>3. \A n \in 1..Len(toClient') :
          toClient'[n][1] = "subscription" => n = Len(toClient) + 1
    BY <1>6, <2>1 DEF GivesSubscription
  <2>4. \A x, y \in 1..Len(toServer') : ~(Opens(toServer'[x]) /\ Opens(toServer'[y]))
    BY <2>2 DEF AsksSubscription
  <2> QED
    BY <1>1, <2>1, <2>2, <2>3, <2>4, Zenon DEF IInv, ChannelInv
<1>9. RequestInv'
  BY <1>1, RequestTaken DEF IInv
<1>10. ProxiesInv'
  BY <1>1, ProxiesSame DEF IInv
<1>11. ASSUME NEW id \in Ids PROVE IdInv(id)'
  <2>1. next_monitored_item_id_' \in Nat
    BY <1>1, ConstantsAssumption DEF Types, TypeOK
  <2> QED
    BY <1>1, <1>5, <2>1, IdAppended DEF IInv
<1> QED
  BY <1>7, <1>8, <1>9, <1>10, <1>11 DEF IInv

\* A delete reaches the server.
LEMMA OnDeleteKeeps ==
  ASSUME IInv, OnDeleteMonitoredItem
  PROVE  IInv'
<1>1. /\ Types /\ toServer # <<>> /\ toServer' = Tail(toServer)
      /\ Head(toServer)[1] = "delete"
      /\ UNCHANGED <<client, life, owner, next_monitored_item_id_, toClient,
                     monitored_item_ids_, panic, sender_, subscription>>
  BY DEF OnDeleteMonitoredItem, Received, IInv, client
<1>2. /\ toServer' \in Seq(Request) /\ Head(toServer)[2] \in Ids
      /\ \A n \in 1..Len(toServer') :
           n + 1 \in 1..Len(toServer) /\ toServer'[n] = toServer[n + 1]
  BY <1>1, TakenRequest, RequestKinds DEF Types
<1>3. PICK x \in Ids : x = Head(toServer)[2]
  BY <1>2
<1>4. monitored_items_' = [monitored_items_ EXCEPT ![x] = None]
  BY <1>3 DEF OnDeleteMonitoredItem
<1>5. Types'
  BY <1>1, <1>2, <1>4, SMTT(30) DEF Types, TypeOK, client, OnDeleteMonitoredItem
<1>6. ChannelInv'
  <2>1. \A n \in 1..Len(toClient') : n + 0 \in 1..Len(toClient) /\ toClient'[n] = toClient[n + 0]
    BY <1>1
  <2> QED
    BY <1>1, <1>2, <2>1, ChannelSame DEF IInv
<1>7. RequestInv'
  BY <1>1, RequestTaken DEF IInv
<1>8. ProxiesInv'
  BY <1>1, ProxiesSame, Zenon DEF IInv
<1>9. ASSUME NEW id \in Ids PROVE IdInv(id)'
  <2>1. monitored_items_'[id] = monitored_items_[id] \/ monitored_items_'[id] = None
    BY <1>1, <1>4 DEF Types, TypeOK
  <2> QED
    BY <1>1, <2>1, IdKept, Zenon DEF IInv
<1> QED
  BY <1>5, <1>6, <1>7, <1>8, <1>9 DEF IInv

\* What changes neither messages nor items keeps the invariant but for types.
LEMMA Quietly ==
  ASSUME IInv, UNCHANGED <<client, panic, toServer, toClient, stub, monitored_items_,
                           next_monitored_item_id_, owner, sessions>>,
         posted' \in Seq(Ids \X DataValue), pushed' \in [Ids -> DataValue],
         source' \in DataValue, clock' \in 1..MaxClock
  PROVE  IInv'
<1>1. Types'
  BY Zenon DEF IInv, Types, TypeOK, client
<1>2. ChannelInv' /\ RequestInv'
  BY Zenon DEF IInv, ChannelInv, RequestInv, AsksSubscription, GivesSubscription, client
<1>3. ProxiesInv'
  BY ProxiesSame DEF IInv
<1>4. ASSUME NEW id \in Ids PROVE IdInv(id)'
  BY IdKept, Zenon DEF IInv, client
<1> QED
  BY <1>1, <1>2, <1>3, <1>4 DEF IInv

\* An item that a step leaves alone, and whose observer entry it leaves.
LEMMA ItemSame ==
  ASSUME NEW i \in Items, ItemInv(i), life'[i] = life[i], subscribed_'[i] = subscribed_[i],
         channel_opened_'[i] = channel_opened_[i], state_'[i] = state_[i],
         monitored_item_id_'[i] = monitored_item_id_[i],
         current_data_'[i] = current_data_[i], subscription' = subscription,
         \A id \in Ids : monitored_item_ids_[id] = i => monitored_item_ids_'[id] = i
  PROVE  ItemInv(i)'
  BY Zenon DEF ItemInv

\* The values the model makes.
LEMMA Values ==
  /\ NoData \in DataValue
  /\ \A t \in 1..MaxClock : Sample(t) \in DataValue /\ MakeFailure(t) \in DataValue
<1>1. 0 \in 0..MaxClock /\ 1..MaxClock \subseteq 0..MaxClock
  BY ConstantsAssumption
<1> QED
  BY <1>1, Zenon DEF NoData, DataValue, Sample, MakeFailure

\* The value of an item whose channel opens.
Reopened(d, t) == [d EXCEPT !.srv = t, !.offline = TRUE, !.failed = FALSE]
\* The fields of such a value.
LEMMA ReopenedValue ==
  ASSUME NEW d \in DataValue, NEW t \in 0..MaxClock
  PROVE  Reopened(d, t) \in DataValue /\ ~Reopened(d, t).failed
  BY Zenon DEF DataValue, Reopened

\* The backend pushes a value.
LEMMA PushKeeps ==
  ASSUME IInv, NEW id \in Ids, NEW value \in DataValue, Push(id, value)
  PROVE  IInv'
<1>1. posted \in Seq(Ids \X DataValue) /\ pushed \in [Ids -> DataValue]
      /\ source \in DataValue /\ clock \in 1..MaxClock
  BY DEF IInv, Types, TypeOK
<1>2. <<id, value>> \in Ids \X DataValue
  OBVIOUS
<1>3. PICK x \in Ids \X DataValue : x = <<id, value>>
  BY <1>2
<1>4. posted' = Append(posted, x)
  BY <1>3 DEF Push
<1>5. posted' \in Seq(Ids \X DataValue)
  BY ONLY <1>1, <1>4, x \in Ids \X DataValue
<1>6. pushed' \in [Ids -> DataValue]
  BY <1>1 DEF Push
<1> QED
  BY <1>1, <1>5, <1>6, Quietly DEF Push

\* The source changes as time passes.
LEMMA TimeKeeps ==
  ASSUME IInv, TimePasses
  PROVE  IInv'
<1>1. posted \in Seq(Ids \X DataValue) /\ pushed \in [Ids -> DataValue]
      /\ source \in DataValue /\ clock \in 1..MaxClock
  BY DEF IInv, Types, TypeOK
<1>2. clock' \in 1..MaxClock
  BY <1>1, ConstantsAssumption DEF TimePasses, MayTick
<1>3. source' \in DataValue
  BY <1>1, <1>2, Values DEF TimePasses
<1> QED
  BY <1>1, <1>2, <1>3, Quietly DEF TimePasses, server

\* An id's owner stays the same for everyone who observes an id.
LEMMA ObservedHaveOwners ==
  ASSUME ProxiesInv, NEW i \in Items, state_[i] = "CREATED"
  PROVE  /\ monitored_item_id_[i] \in Ids
         /\ monitored_item_ids_[monitored_item_id_[i]] = i
         /\ owner[monitored_item_id_[i]] = i
  BY DEF ProxiesInv, ItemInv, ObserversMatch

\* Create requests reach the server: the next id is given out, or none is.
LEMMA OnCreateItemKeeps ==
  ASSUME IInv, OnCreateMonitoredItem
  PROVE  IInv'
<1>1. /\ Types /\ toServer # <<>> /\ toServer' = Tail(toServer)
      /\ Head(toServer)[1] = "create" /\ Head(toServer)[2] # None
      /\ UNCHANGED <<client, life, monitored_item_ids_, panic, sender_, subscription>>
  BY DEF OnCreateMonitoredItem, Received, IInv, client
<1>2. /\ toServer' \in Seq(Request) /\ 1 \in 1..Len(toServer) /\ Head(toServer) = toServer[1]
      /\ \A n \in 1..Len(toServer') :
           n + 1 \in 1..Len(toServer) /\ toServer'[n] = toServer[n + 1]
      /\ Head(toServer)[2] \in Items
  BY <1>1, TakenRequest, RequestKinds DEF Types
<1>3. PICK i \in Items : i = Head(toServer)[2]
  BY <1>2
<1>4. life[i] # "unborn"
  BY <1>1, <1>2, <1>3 DEF IInv, RequestInv
<1>5. next_monitored_item_id_ \in Nat
  BY <1>1, ConstantsAssumption DEF Types, TypeOK
<1>6. PICK x \in Nat : x = next_monitored_item_id_
  BY <1>5
<1>7. ASSUME NEW y \in 0..MaxIds, toClient' = Append(toClient, <<"item", i, y>>)
      PROVE  ChannelInv' /\ RequestInv' /\ toClient' \in Seq(Response)
  <2>1. <<"item", i, y>> \in Response
    BY DEF Response
  <2>2. PICK m \in Response : m = <<"item", i, y>>
    BY <2>1
  <2>3. toClient' = Append(toClient, m) /\ m[1] # "subscription"
    BY <1>7, <2>2
  <2>4. /\ toClient' \in Seq(Response)
        /\ \A n \in 1..Len(toClient) : toClient'[n] = toClient[n]
        /\ toClient'[Len(toClient) + 1] = m
        /\ \A n \in 1..Len(toClient') : n \in 1..Len(toClient) \/ n = Len(toClient) + 1
    BY <1>1, <2>3, AddedResponse DEF Types
  <2>5. \A n \in 1..Len(toClient') : toClient'[n][1] = "subscription" =>
          n + 0 \in 1..Len(toClient) /\ toClient'[n] = toClient[n + 0]
    BY <2>3, <2>4
  <2> QED
    BY <1>1, <1>2, <2>4, <2>5, ChannelSame, RequestTaken DEF IInv
<1>8. CASE /\ x \in Ids /\ next_monitored_item_id_' = x + 1
           /\ monitored_items_' = [monitored_items_ EXCEPT ![x] = i]
           /\ owner' = [owner EXCEPT ![x] = i]
           /\ toClient' = Append(toClient, <<"item", i, x>>)
  <2>1. x \in 0..MaxIds
    BY <1>8, ConstantsAssumption DEF Ids
  <2>2. ChannelInv' /\ RequestInv' /\ toClient' \in Seq(Response)
    BY <1>7, <1>8, <2>1, Zenon
  <2>3. owner[x] = None /\ monitored_items_[x] = None
    BY <1>6, <1>8 DEF IInv, IdInv
  <2>4. x + 1 \in 1..(MaxIds + 1)
    BY <1>8, ConstantsAssumption DEF Ids
  <2>5. Types'
    BY <1>1, <1>2, <1>8, <2>2, <2>4, Zenon DEF Types, TypeOK, client, OnCreateMonitoredItem
  <2>6. \A id \in Ids \ {x} : owner'[id] = owner[id] /\ monitored_items_'[id] = monitored_items_[id]
    BY <1>1, <1>8 DEF Types, TypeOK
  <2>7. owner'[x] = i /\ monitored_items_'[x] = i
    BY <1>1, <1>8 DEF Types, TypeOK
  <2>8. ProxiesInv'
    <3>1. \A id \in Ids, j \in Items : monitored_item_ids_[id] = j => owner[id] = j
      BY DEF IInv, ProxiesInv, ObserversMatch
    <3>2. None \notin Items
      BY ConstantsAssumption
    <3>3. \A id \in Ids, j \in Items : monitored_item_ids_[id] = j => owner'[id] = owner[id]
      BY <2>3, <2>6, <3>1, <3>2
    <3>4. \A j \in Items : state_[j] = "CREATED" =>
            owner'[monitored_item_id_[j]] = owner[monitored_item_id_[j]]
      BY <3>3, ObservedHaveOwners DEF IInv
    <3> QED
      BY <1>1, <3>3, <3>4, ProxiesSame DEF IInv
  <2>9. <<"item", i, x>> \in Response
    BY <2>1 DEF Response
  <2>10. PICK m \in Response : m = <<"item", i, x>>
    BY <2>9
  <2>11. toClient' = Append(toClient, m) /\ m[1] = "item" /\ m[2] = i /\ m[3] = x
    BY <1>8, <2>10
  <2>12. ASSUME NEW id \in Ids, id # x PROVE IdInv(id)'
    <3>1. /\ next_monitored_item_id_' \in Nat /\ next_monitored_item_id_ # id
          /\ next_monitored_item_id_' = next_monitored_item_id_ + 1
      BY <1>6, <1>8, <2>12
    <3>2. /\ m[1] = "item" => m[3] # id
          /\ m[1] = "data" => m[2] # id
      BY <2>11, <2>12
    <3>3. toClient' = Append(toClient, m) /\ IdInv(id)
      BY <2>11 DEF IInv
    <3> QED
      BY <1>1, <2>6, <2>12, <3>1, <3>2, <3>3, IdAppended, Zenon
  <2>13. IdInv(x)'
    <3>1. /\ Len(toClient') = Len(toClient) + 1 /\ Len(toClient) \in Nat
          /\ \A n \in 1..Len(toClient) : n \in 1..Len(toClient') /\ toClient'[n] = toClient[n]
          /\ toClient'[Len(toClient) + 1] = m /\ Len(toClient) + 1 \in 1..Len(toClient')
          /\ \A n \in 1..Len(toClient') : n \in 1..Len(toClient) \/ n = Len(toClient) + 1
      BY <1>1, <2>11, AddedResponse DEF Types
    <3>2. \A n \in 1..Len(toClient) : ~AnswerAt(n, x) /\ ~DataAt(n, x)
      <4> SUFFICES ASSUME NEW n \in 1..Len(toClient) PROVE ~AnswerAt(n, x) /\ ~DataAt(n, x)
        OBVIOUS
      <4>1. toClient[n] \in Response
        BY <1>1 DEF Types
      <4>2. AnswerAt(n, x) => owner[x] \in Items
        BY <1>8, <4>1, ResponseKinds, Zenon DEF AnswerAt, IInv, IdInv
      <4>3. ~DataAt(n, x)
        BY <1>8, <2>3, Zenon DEF IInv, IdInv
      <4> QED
        BY <2>3, <4>2, <4>3, ConstantsAssumption
    <3>3. \A n \in 1..Len(toClient') : /\ AnswerAt(n, x)' <=> n = Len(toClient) + 1
                                       /\ ~DataAt(n, x)'
      BY <2>11, <3>1, <3>2 DEF AnswerAt, DataAt
    <3>4. Answering(x)'
      <4>1. PICK n \in 1..Len(toClient') : n = Len(toClient) + 1
        BY <3>1
      <4> QED
        BY <3>3, <4>1 DEF Answering
    <3>5. monitored_item_ids_[x] = None
      <4>1. monitored_item_ids_[x] \in Items \cup {None}
        BY <1>1, <1>8 DEF Types, TypeOK
      <4>2. \A j \in Items : monitored_item_ids_[x] # j
        BY <1>8, <2>3, ConstantsAssumption DEF IInv, ProxiesInv, ObserversMatch
      <4> QED
        BY <4>1, <4>2
    <3>6. \A n \in 1..Len(toClient') : AnswerAt(n, x)' => owner'[x] = toClient'[n][2]
      BY <2>7, <2>11, <3>1, <3>3, Zenon
    <3>7. x < next_monitored_item_id_' /\ ~(x >= next_monitored_item_id_')
      BY <1>8
    <3> QED
      BY <1>1, <1>4, <2>7, <3>3, <3>4, <3>5, <3>6, <3>7, Zenon DEF IdInv
  <2> QED
    BY <2>2, <2>5, <2>8, <2>12, <2>13 DEF IInv
<1>9. CASE /\ toClient' = Append(toClient, <<"item", i, 0>>)
           /\ UNCHANGED <<next_monitored_item_id_, monitored_items_, owner>>
  <2>1. 0 \in 0..MaxIds
    BY ConstantsAssumption
  <2>2. ChannelInv' /\ RequestInv' /\ toClient' \in Seq(Response)
    BY <1>7, <1>9, <2>1
  <2>3. Types'
    BY <1>1, <1>2, <1>9, <2>2, Zenon DEF Types, TypeOK, client, OnCreateMonitoredItem
  <2>4. ProxiesInv'
    BY <1>1, <1>9, ProxiesSame DEF IInv
  <2>5. <<"item", i, 0>> \in Response
    BY <2>1 DEF Response
  <2>6. PICK m \in Response : m = <<"item", i, 0>>
    BY <2>5
  <2>7. toClient' = Append(toClient, m) /\ m[1] = "item" /\ m[3] = 0 /\ 0 \notin Ids
    BY <1>9, <2>6 DEF Ids
  <2>8. ASSUME NEW id \in Ids PROVE IdInv(id)'
    BY <1>1, <1>5, <1>9, <2>7, IdAppended, Zenon DEF IInv
  <2> QED
    BY <2>2, <2>3, <2>4, <2>8 DEF IInv
<1> QED
  BY <1>3, <1>6, <1>8, <1>9 DEF OnCreateMonitoredItem

\* The server's executor takes a notification: it is sent for an item there
\* is, and a bad one ends the item.
LEMMA OnDataChangeKeeps ==
  ASSUME IInv, OnDataChange
  PROVE  IInv'
<1>1. /\ Types /\ posted # <<>> /\ posted' = Tail(posted) /\ posted \in Seq(Ids \X DataValue)
      /\ UNCHANGED <<client, life, monitored_item_ids_, panic, sender_, subscription,
                     next_monitored_item_id_, owner, toServer, pushed, source, clock,
                     sessions, stub>>
  <2>1. Types /\ posted \in Seq(Ids \X DataValue)
    BY Zenon DEF IInv, Types, TypeOK
  <2> QED
    BY <2>1, Zenon DEF OnDataChange, client
<1>2. posted' \in Seq(Ids \X DataValue) /\ Head(posted) \in Ids \X DataValue
  BY <1>1
<1>3. PICK x \in Ids, v \in DataValue : x = Head(posted)[1] /\ v = Head(posted)[2]
  BY <1>2
<1>4. CASE monitored_items_[x] = None /\ UNCHANGED <<monitored_items_, toClient>>
  BY <1>1, <1>2, <1>4, Quietly DEF Types, TypeOK
<1>5. CASE /\ monitored_items_[x] # None
           /\ monitored_items_' = IF v.status = "Bad"
                                  THEN [monitored_items_ EXCEPT ![x] = None]
                                  ELSE monitored_items_
           /\ toClient' = Append(toClient, <<"data", x, v>>)
  <2>1. <<"data", x, v>> \in Response
    BY DEF Response
  <2>2. PICK m \in Response : m = <<"data", x, v>>
    BY <2>1
  <2>3. toClient' = Append(toClient, m) /\ m[1] = "data" /\ m[2] = x /\ m[3] = v
    BY <1>5, <2>2
  <2>4. /\ Len(toClient') = Len(toClient) + 1 /\ Len(toClient) \in Nat
        /\ toClient' \in Seq(Response)
        /\ \A n \in 1..Len(toClient) : n \in 1..Len(toClient') /\ toClient'[n] = toClient[n]
        /\ toClient'[Len(toClient) + 1] = m /\ Len(toClient) + 1 \in 1..Len(toClient')
        /\ \A n \in 1..Len(toClient') : n \in 1..Len(toClient) \/ n = Len(toClient) + 1
    BY <1>1, <2>3, AddedResponse DEF Types
  <2>5. /\ monitored_items_' \in [Ids -> Items \cup {None}]
        /\ \A id \in Ids \ {x} : monitored_items_'[id] = monitored_items_[id]
        /\ v.status = "Bad" => monitored_items_'[x] = None
        /\ v.status # "Bad" => monitored_items_'[x] = monitored_items_[x]
    BY <1>1, <1>5, Zenon DEF Types, TypeOK
  <2>6. Types'
    BY <1>1, <1>2, <2>4, <2>5, SMTT(30) DEF Types, TypeOK, client
  <2>7. ChannelInv' /\ RequestInv'
    <3>1. \A n \in 1..Len(toClient') : toClient'[n][1] = "subscription" =>
            n + 0 \in 1..Len(toClient) /\ toClient'[n] = toClient[n + 0]
      BY <2>3, <2>4
    <3>2. \A n \in 1..Len(toServer') : n + 0 \in 1..Len(toServer) /\ toServer'[n] = toServer[n + 0]
      BY <1>1 DEF Types
    <3>3. ChannelInv'
      BY <1>1, <3>1, <3>2, ChannelSame, Zenon DEF IInv
    <3> QED
      BY <1>1, <3>3 DEF IInv, RequestInv
  <2>8. ProxiesInv'
    BY <1>1, ProxiesSame DEF IInv
  <2>9. next_monitored_item_id_' \in Nat /\ next_monitored_item_id_ \in Nat /\ Ids \subseteq Nat
    BY <1>1, ConstantsAssumption DEF Types, TypeOK, Ids
  <2>10. ASSUME NEW id \in Ids, id # x PROVE IdInv(id)'
    BY <1>1, <2>3, <2>5, <2>9, <2>10, IdAppended, Zenon DEF IInv
  <2>11. IdInv(x)'
    <3>1. x < next_monitored_item_id_ /\ owner[x] \in Items /\ owner[x] # None
          /\ ~(x >= next_monitored_item_id_)
      BY <1>5, <2>9, ConstantsAssumption DEF IInv, IdInv
    <3>2. \A n \in 1..Len(toClient) : /\ AnswerAt(n, x)' <=> AnswerAt(n, x)
                                      /\ DataAt(n, x)' <=> DataAt(n, x)
      BY <2>4 DEF AnswerAt, DataAt
    <3>3. \A n \in 1..Len(toClient') : n = Len(toClient) + 1 => ~AnswerAt(n, x)'
      BY <2>3, <2>4 DEF AnswerAt
    <3>4. Answering(x)' <=> Answering(x)
      BY <2>4, <3>2, <3>3 DEF Answering
    <3>5. \A n \in 1..Len(toClient) : DataAt(n, x) => toClient[n][3].status # "Bad"
      BY <1>5, Zenon DEF IInv, IdInv
    <3>6. \A n \in 1..Len(toClient') :
            /\ AnswerAt(n, x)' => owner'[x] = toClient'[n][2]
            /\ DataAt(n, x)' /\ toClient'[n][3].status = "Bad" =>
                 n = Len(toClient) + 1 /\ monitored_items_'[x] = None
      <4>1. \A n \in 1..Len(toClient) : AnswerAt(n, x) => owner[x] = toClient[n][2]
        BY DEF IInv, IdInv
      <4>2. ASSUME NEW n \in 1..Len(toClient), AnswerAt(n, x)'
            PROVE  owner'[x] = toClient'[n][2]
        BY <1>1, <2>4, <3>2, <4>1, <4>2, Zenon
      <4>3. ASSUME NEW n \in 1..Len(toClient), DataAt(n, x)'
            PROVE  toClient'[n][3].status # "Bad"
        BY <2>4, <3>2, <3>5, <4>3
      <4>4. ASSUME NEW n \in 1..Len(toClient'), n = Len(toClient) + 1,
                   toClient'[n][3].status = "Bad"
            PROVE  monitored_items_'[x] = None
        BY <2>3, <2>4, <2>5, <4>4
      <4> QED
        BY <2>4, <3>3, <4>2, <4>3, <4>4, Zenon
    <3>7. ASSUME NEW k \in 1..Len(toClient'), NEW n \in 1..Len(toClient')
          PROVE  /\ AnswerAt(k, x)' /\ AnswerAt(n, x)' => k = n
                 /\ AnswerAt(k, x)' /\ DataAt(n, x)' => k < n
                 /\ DataAt(k, x)' /\ DataAt(n, x)' /\ toClient'[k][3].status = "Bad" => n <= k
      <4>1. AnswerAt(k, x)' => k \in 1..Len(toClient) /\ AnswerAt(k, x)
        BY <2>4, <3>2, <3>3
      <4>2. AnswerAt(n, x)' => n \in 1..Len(toClient) /\ AnswerAt(n, x)
        BY <2>4, <3>2, <3>3
      <4>3. AnswerAt(k, x)' /\ AnswerAt(n, x)' => k = n
        BY <4>1, <4>2, Zenon DEF IInv, IdInv
      <4>4. AnswerAt(k, x)' /\ DataAt(n, x)' => k < n
        <5>1. CASE n \in 1..Len(toClient)
          BY <3>2, <4>1, <5>1 DEF IInv, IdInv
        <5>2. CASE n = Len(toClient) + 1
          BY <2>4, <4>1, <5>2
        <5> QED
          BY <2>4, <5>1, <5>2
      <4>5. DataAt(k, x)' /\ toClient'[k][3].status = "Bad" => n <= k
        BY <2>4, <3>6
      <4> QED
        BY <4>3, <4>4, <4>5
    <3>8. Answering(x)' => monitored_item_ids_'[x] = None
      BY <1>1, <3>4, Zenon DEF IInv, IdInv
    <3>9. ~Answering(x)' /\ life'[owner'[x]] = "alive" => monitored_item_ids_'[x] = owner'[x]
      <4>1. ~Ended(x)
        BY <1>5 DEF Ended
      <4>2. ~Answering(x) /\ owner[x] # None /\ life[owner[x]] = "alive"
              => monitored_item_ids_[x] = owner[x] \/ Ended(x)
        BY Zenon DEF IInv, IdInv
      <4> QED
        BY <1>1, <3>1, <3>4, <4>1, <4>2
    <3>10. life'[owner'[x]] # "unborn"
      BY <1>1, <3>1, Zenon DEF IInv, IdInv
    <3> QED
      BY <1>1, <3>1, <3>6, <3>7, <3>8, <3>9, <3>10, Zenon DEF IdInv
  <2> QED
    BY <2>6, <2>7, <2>8, <2>10, <2>11 DEF IInv
<1> QED
  BY <1>3, <1>4, <1>5 DEF OnDataChange

\* Requests for the items in T are added, in some order.
LEMMA StubsAsked ==
  ASSUME toServer \in Seq(Request), NEW T \in SUBSET Items, CreateStubs(T)
  PROVE  /\ toServer' \in Seq(Request)
         /\ \A n \in 1..Len(toServer') :
              \/ n \in 1..Len(toServer) /\ toServer'[n] = toServer[n]
              \/ \E i \in T : toServer'[n] = CreateRequest(i)
<1>1. PICK m \in 0..Cardinality(Items) : \E q \in [1..m -> T] :
        /\ \A i \in T : \E k \in 1..m : q[k] = i
        /\ \A j, k \in 1..m : q[j] = q[k] => j = k
        /\ toServer' = toServer \o [k \in 1..m |-> CreateRequest(q[k])]
  BY Zenon DEF CreateStubs
<1>2. m \in Nat
  BY ConstantsAssumption
<1>3. PICK q \in [1..m -> T] :
        toServer' = toServer \o [k \in 1..m |-> CreateRequest(q[k])]
  BY <1>1, Zenon
<1> DEFINE r == [k \in 1..m |-> CreateRequest(q[k])]
<1>6. \A i \in T : CreateRequest(i) \in Request
  BY DEF CreateRequest, Request
<1>7. r \in Seq(Request) /\ Len(r) = m /\ \A n \in 1..m : r[n] = CreateRequest(q[n])
  BY <1>2, <1>6
<1>8. \A n \in 1..Len(r) : \E i \in T : r[n] = CreateRequest(i)
  <2> HIDE DEF r
  <2> QED
    BY <1>7, Zenon
<1>9. toServer' = toServer \o r
  BY <1>3
<1> HIDE DEF r
<1>10. /\ toServer' \in Seq(Request) /\ Len(toServer') = Len(toServer) + Len(r)
       /\ Len(toServer) \in Nat /\ Len(r) \in Nat
       /\ \A n \in 1..Len(toServer') :
            toServer'[n] = IF n <= Len(toServer) THEN toServer[n] ELSE r[n - Len(toServer)]
  <2>1. r \in Seq(Request)
    BY <1>7
  <2> QED
    BY ONLY <1>9, <2>1, toServer \in Seq(Request)
<1>11. ASSUME NEW n \in 1..Len(toServer'), ~(n <= Len(toServer))
       PROVE  n - Len(toServer) \in 1..Len(r)
  BY <1>10, <1>11
<1>12. \A n \in 1..Len(toServer') : n <= Len(toServer) => n \in 1..Len(toServer)
  BY <1>10
<1> QED
  BY <1>8, <1>10, <1>11, <1>12, Zenon

\* The requests' invariants when requests for known items are added.
LEMMA StubsRequests ==
  ASSUME IInv, NEW T \in SUBSET Items, CreateStubs(T),
         \A i \in T : life'[i] # "unborn",
         \A i \in Items : life[i] # "unborn" => life'[i] # "unborn"
  PROVE  /\ toServer' \in Seq(Request) /\ RequestInv'
         /\ \A n \in 1..Len(toServer') : Opens(toServer'[n]) =>
              n + 0 \in 1..Len(toServer) /\ toServer'[n] = toServer[n + 0]
<1>1. toServer \in Seq(Request)
  BY DEF IInv, Types
<1>2. /\ toServer' \in Seq(Request)
      /\ \A n \in 1..Len(toServer') :
           \/ n \in 1..Len(toServer) /\ toServer'[n] = toServer[n]
           \/ \E i \in T : toServer'[n] = CreateRequest(i)
  BY <1>1, StubsAsked
<1>3. RequestInv'
  <2> SUFFICES ASSUME NEW n \in 1..Len(toServer'), toServer'[n][1] = "create",
                      toServer'[n][2] # None
               PROVE  life'[toServer'[n][2]] # "unborn"
    BY DEF RequestInv
  <2>1. CASE n \in 1..Len(toServer) /\ toServer'[n] = toServer[n]
    <3>1. toServer[n] \in Request
      BY <1>1, <2>1
    <3>2. toServer[n][2] \in Items
      BY <2>1, <3>1, RequestKinds
    <3> QED
      BY <2>1, <3>2 DEF IInv, RequestInv
  <2>2. CASE \E i \in T : toServer'[n] = CreateRequest(i)
    BY <2>2 DEF CreateRequest
  <2> QED
    BY <1>2, <2>1, <2>2
<1>4. \A i \in T : CreateRequest(i) # CreateRequest(None)
  BY ConstantsAssumption DEF CreateRequest
<1> QED
  BY <1>2, <1>3, <1>4 DEF Opens

\* OnChannelOpened of items that are closed.
LEMMA OpenedEffect ==
  ASSUME IInv, NEW S \in SUBSET Items, OnItemsOpened(S),
         \A i \in S : ~channel_opened_[i] /\ state_[i] = "DELETED" /\ life'[i] = "alive",
         \A i \in Items \ S : life'[i] = life[i],
         \A i \in Items : life[i] # "unborn" => life'[i] # "unborn",
         subscription' = "CREATED",
         UNCHANGED <<subscribed_, monitored_item_id_, monitored_item_ids_, owner>>
  PROVE  /\ ProxiesInv' /\ panic' = panic /\ RequestInv' /\ toServer' \in Seq(Request)
         /\ \A n \in 1..Len(toServer') : Opens(toServer'[n]) =>
              n + 0 \in 1..Len(toServer) /\ toServer'[n] = toServer[n + 0]
         /\ channel_opened_' \in [Items -> BOOLEAN]
         /\ state_' \in [Items -> {"DELETED", "CREATING", "CREATED"}]
         /\ current_data_' \in [Items -> DataValue] /\ shown' \in [Items -> DataValue]
<1> DEFINE told == {i \in S : subscribed_[i]}
           data == [i \in Items |->
             IF i \in told THEN [current_data_[i] EXCEPT !.srv = clock, !.offline = TRUE,
                                                         !.failed = FALSE]
             ELSE current_data_[i]]
<1>1. /\ current_data_ \in [Items -> DataValue] /\ shown \in [Items -> DataValue]
      /\ channel_opened_ \in [Items -> BOOLEAN] /\ subscribed_ \in [Items -> BOOLEAN]
      /\ state_ \in [Items -> {"DELETED", "CREATING", "CREATED"}]
      /\ clock \in 0..MaxClock
  BY DEF IInv, Types, TypeOK
<1>2. panic' = panic
  BY Zenon DEF OnItemsOpened
<1>3. /\ channel_opened_' = [i \in Items |-> channel_opened_[i] \/ i \in S]
      /\ current_data_' = data
      /\ shown' = [i \in Items |-> IF i \in told THEN data[i] ELSE shown[i]]
      /\ state_' = [i \in Items |-> IF i \in told THEN "CREATING" ELSE state_[i]]
      /\ CreateStubs(told)
  BY Zenon DEF OnItemsOpened
<1>4. ASSUME NEW i \in told
      PROVE  data[i] \in DataValue /\ ~data[i].failed
  <2>1. i \in Items /\ current_data_[i] \in DataValue
    BY <1>1
  <2>2. data[i] = Reopened(current_data_[i], clock)
    BY <2>1 DEF Reopened
  <2>3. clock \in 0..MaxClock
    BY <1>1
  <2> HIDE DEF data
  <2> QED
    BY <2>1, <2>2, <2>3, ReopenedValue, Zenon
<1>5. told \in SUBSET Items /\ \A i \in told : i \in S /\ subscribed_[i]
  OBVIOUS
<1>6. \A i \in S : i \notin told => ~subscribed_[i]
  OBVIOUS
<1>7. \A i \in Items \ told : data[i] = current_data_[i]
  OBVIOUS
<1> HIDE DEF told, data
<1>8. /\ data \in [Items -> DataValue]
  <2>1. \A i \in Items : data[i] \in DataValue
    BY <1>1, <1>4, <1>7
  <2>2. data = [i \in Items |-> data[i]]
    BY DEF data
  <2> QED
    BY <2>1, <2>2
<1>9. /\ channel_opened_' \in [Items -> BOOLEAN]
      /\ state_' \in [Items -> {"DELETED", "CREATING", "CREATED"}]
      /\ current_data_' \in [Items -> DataValue] /\ shown' \in [Items -> DataValue]
  BY <1>1, <1>3, <1>8
<1>10. /\ \A i \in told : state_'[i] = "CREATING" /\ ~current_data_'[i].failed
       /\ \A i \in Items \ told : /\ state_'[i] = state_[i]
                                  /\ current_data_'[i] = current_data_[i]
                                  /\ shown'[i] = shown[i]
       /\ \A i \in S : channel_opened_'[i]
       /\ \A i \in Items \ S : channel_opened_'[i] <=> channel_opened_[i]
  BY <1>3, <1>4, <1>5, <1>7, Zenon
<1>11. /\ toServer' \in Seq(Request) /\ RequestInv'
       /\ \A n \in 1..Len(toServer') : Opens(toServer'[n]) =>
            n + 0 \in 1..Len(toServer) /\ toServer'[n] = toServer[n + 0]
  <2>1. \A i \in told : life'[i] # "unborn"
    BY <1>5
  <2> QED
    BY <1>3, <1>5, <2>1, StubsRequests
<1>12. \A i \in Items : state_'[i] = "CREATED" <=> state_[i] = "CREATED" /\ i \notin S
  BY <1>5, <1>10
<1>13. ObserversMatch'
  <2> SUFFICES ASSUME NEW id \in Ids, NEW i \in Items
               PROVE  monitored_item_ids_[id] = i
                        <=> /\ life'[i] = "alive" /\ state_'[i] = "CREATED"
                            /\ monitored_item_id_[i] = id /\ owner[id] = i
    BY DEF ObserversMatch
  <2>1. monitored_item_ids_[id] = i
          <=> /\ life[i] = "alive" /\ state_[i] = "CREATED"
              /\ monitored_item_id_[i] = id /\ owner[id] = i
    BY DEF IInv, ProxiesInv, ObserversMatch
  <2> QED
    BY <1>12, <2>1
<1>14. ASSUME NEW i \in Items PROVE ItemInv(i)'
  <2>1. ItemInv(i)
    BY DEF IInv, ProxiesInv
  <2>2. CASE i \in told
    BY <1>5, <1>10, <2>2 DEF ItemInv
  <2>3. CASE i \in S \ told
    <3>1. state_'[i] = "DELETED" /\ ~subscribed_[i] /\ channel_opened_'[i]
          /\ current_data_'[i] = current_data_[i]
      BY <1>6, <1>10, <2>3
    <3> QED
      BY <2>1, <2>3, <3>1 DEF ItemInv
  <2>4. CASE i \notin S
    <3>1. /\ state_'[i] = state_[i] /\ (channel_opened_'[i] <=> channel_opened_[i])
          /\ current_data_'[i] = current_data_[i] /\ life'[i] = life[i]
      BY <1>5, <1>10, <2>4
    <3> QED
      BY <2>1, <3>1 DEF ItemInv
  <2> QED
    BY <2>2, <2>3, <2>4
<1>15. NoSilentStop'
  <2> SUFFICES ASSUME NEW i \in Items, life'[i] = "alive", subscribed_[i],
                      channel_opened_'[i], state_'[i] = "DELETED"
               PROVE  shown'[i].status = "Bad"
    BY DEF NoSilentStop, Alive
  <2>1. i \notin told /\ i \notin S
    BY <1>6, <1>10
  <2>2. shown'[i] = shown[i] /\ life[i] = "alive" /\ channel_opened_[i] /\ state_[i] = "DELETED"
    BY <1>10, <2>1
  <2> QED
    BY <2>2 DEF IInv, ProxiesInv, NoSilentStop, Alive
<1>16. OtherChecksHold'
  BY <1>2 DEF IInv, ProxiesInv, OtherChecksHold
<1> QED
  BY <1>2, <1>9, <1>11, <1>13, <1>14, <1>15, <1>16 DEF ProxiesInv

\* A step that changes no message to the client and only items that own no id
\* the client observes.
LEMMA IdsSame ==
  ASSUME IInv, UNCHANGED <<toClient, owner, next_monitored_item_id_, monitored_items_,
                           monitored_item_ids_>>,
         \A i \in Items : life[i] # "unborn" => life'[i] # "unborn",
         \A i \in Items : life'[i] = "alive" => life[i] \in {"alive", "unborn"}
  PROVE  \A id \in Ids : IdInv(id)'
<1> SUFFICES ASSUME NEW id \in Ids PROVE IdInv(id)'
  OBVIOUS
<1>1. \A i \in Items : life'[i] = "alive" /\ owner[id] = i => life[i] = "alive"
  BY ConstantsAssumption DEF IInv, IdInv
<1> QED
  BY <1>1, IdKept, Zenon DEF IInv

\* An item is created; it is opened at once if there is a subscription.
LEMMA CreateItemKeeps ==
  ASSUME IInv, NEW i \in Items, CreateMonitoredItem(i)
  PROVE  IInv'
<1>1. /\ life \in [Items -> {"unborn", "alive", "gone"}] /\ life[i] = "unborn"
      /\ life' = [life EXCEPT ![i] = "alive"]
      /\ UNCHANGED <<sender_, subscription, subscribed_, monitored_item_id_,
                     monitored_item_ids_, toClient, server, owner, monitored_items_,
                     next_monitored_item_id_, stub, posted, pushed, source, clock, sessions>>
  BY DEF CreateMonitoredItem, IInv, Types, TypeOK, server
<1>2. /\ life' \in [Items -> {"unborn", "alive", "gone"}] /\ life'[i] = "alive"
      /\ \A j \in Items \ {i} : life'[j] = life[j]
  BY <1>1
<1>3. /\ \A j \in Items : life[j] # "unborn" => life'[j] # "unborn"
      /\ \A j \in Items : life'[j] = "alive" => life[j] \in {"alive", "unborn"}
  BY <1>1, <1>2
<1>4. ~channel_opened_[i] /\ ~subscribed_[i] /\ state_[i] = "DELETED"
  BY <1>1 DEF IInv, ProxiesInv, ItemInv
<1>5. \A id \in Ids : IdInv(id)'
  BY <1>1, <1>3, IdsSame
<1>6. \A n \in 1..Len(toClient') : n + 0 \in 1..Len(toClient) /\ toClient'[n] = toClient[n + 0]
  BY <1>1 DEF IInv, Types
<1>7. CASE subscription = "CREATED" /\ OnItemsOpened({i})
  <2>1. /\ {i} \in SUBSET Items
        /\ \A j \in {i} : ~channel_opened_[j] /\ state_[j] = "DELETED" /\ life'[j] = "alive"
        /\ \A j \in Items \ {i} : life'[j] = life[j]
        /\ subscription' = "CREATED"
    BY <1>1, <1>2, <1>4, <1>7
  <2>2. PICK S \in SUBSET Items : S = {i}
    BY <2>1, Zenon
  <2>3. /\ ProxiesInv' /\ panic' = panic /\ RequestInv' /\ toServer' \in Seq(Request)
        /\ \A n \in 1..Len(toServer') : Opens(toServer'[n]) =>
             n + 0 \in 1..Len(toServer) /\ toServer'[n] = toServer[n + 0]
        /\ channel_opened_' \in [Items -> BOOLEAN]
        /\ state_' \in [Items -> {"DELETED", "CREATING", "CREATED"}]
        /\ current_data_' \in [Items -> DataValue] /\ shown' \in [Items -> DataValue]
    BY <1>1, <1>3, <1>7, <2>1, <2>2, OpenedEffect
  <2>4. ChannelInv'
    BY <1>1, <1>6, <2>3, ChannelSame DEF IInv
  <2>5. Types'
    BY <1>1, <1>2, <2>3, Zenon DEF IInv, Types, TypeOK
  <2> QED
    BY <1>5, <2>3, <2>4, <2>5 DEF IInv
<1>8. CASE UNCHANGED <<channel_opened_, current_data_, shown, state_, toServer, panic>>
  <2>1. Types'
    BY <1>1, <1>2, <1>8, Zenon DEF IInv, Types, TypeOK
  <2>2. ChannelInv'
    BY <1>1, <1>8 DEF IInv, ChannelInv, AsksSubscription, GivesSubscription
  <2>3. RequestInv'
    <3> SUFFICES ASSUME NEW n \in 1..Len(toServer), toServer[n][1] = "create",
                        toServer[n][2] # None
                 PROVE  life'[toServer[n][2]] # "unborn"
      BY <1>8 DEF RequestInv
    <3>1. toServer[n] \in Request
      BY DEF IInv, Types
    <3>2. toServer[n][2] \in Items
      BY <3>1, RequestKinds
    <3> QED
      BY <1>3, <3>2 DEF IInv, RequestInv
  <2>4. ASSUME NEW j \in Items PROVE ItemInv(j)'
    <3>1. ItemInv(j)
      BY DEF IInv, ProxiesInv
    <3>2. CASE j = i
      BY <1>1, <1>2, <1>4, <1>8, <3>1, <3>2 DEF ItemInv
    <3>3. CASE j # i
      BY <1>1, <1>2, <1>8, <3>1, <3>3 DEF ItemInv
    <3> QED
      BY <3>2, <3>3
  <2>5. ObserversMatch'
    <3> SUFFICES ASSUME NEW id \in Ids, NEW j \in Items
                 PROVE  monitored_item_ids_[id] = j
                          <=> /\ life'[j] = "alive" /\ state_[j] = "CREATED"
                              /\ monitored_item_id_[j] = id /\ owner[id] = j
      BY <1>1, <1>8 DEF ObserversMatch
    <3>1. monitored_item_ids_[id] = j
            <=> /\ life[j] = "alive" /\ state_[j] = "CREATED"
                /\ monitored_item_id_[j] = id /\ owner[id] = j
      BY DEF IInv, ProxiesInv, ObserversMatch
    <3> QED
      BY <1>2, <1>4, <3>1
  <2>6. NoSilentStop' /\ OtherChecksHold'
    <3>1. \A j \in Items : life'[j] = "alive" /\ subscribed_[j] => life[j] = "alive"
      BY <1>2, <1>4
    <3> QED
      BY <1>1, <1>8, <3>1 DEF IInv, ProxiesInv, NoSilentStop, OtherChecksHold, Alive
  <2> QED
    BY <1>5, <2>1, <2>2, <2>3, <2>4, <2>5, <2>6 DEF IInv, ProxiesInv
<1> QED
  BY <1>7, <1>8 DEF CreateMonitoredItem

\* An item is subscribed; if its channel is open a stub is asked for.
LEMMA SubscribeKeeps ==
  ASSUME IInv, NEW i \in Items, Subscribe(i)
  PROVE  IInv'
<1>1. /\ subscribed_ \in [Items -> BOOLEAN] /\ life[i] = "alive" /\ ~subscribed_[i]
      /\ state_ \in [Items -> {"DELETED", "CREATING", "CREATED"}]
      /\ toServer \in Seq(Request)
      /\ subscribed_' = [subscribed_ EXCEPT ![i] = TRUE]
      /\ UNCHANGED <<sender_, subscription, life, channel_opened_, monitored_item_id_,
                     current_data_, shown, monitored_item_ids_, toClient, server, owner,
                     monitored_items_, next_monitored_item_id_, stub, posted, pushed,
                     source, clock, sessions, panic>>
  BY Zenon DEF Subscribe, IInv, Types, TypeOK, server
<1>2. /\ subscribed_' \in [Items -> BOOLEAN] /\ subscribed_'[i]
      /\ \A j \in Items \ {i} : subscribed_'[j] = subscribed_[j]
  BY <1>1
<1>3. state_[i] = "DELETED" /\ current_data_[i] = NoData /\ ~NoData.failed
  BY <1>1 DEF IInv, ProxiesInv, ItemInv, NoData
<1>4. /\ state_' \in [Items -> {"DELETED", "CREATING", "CREATED"}]
      /\ \A j \in Items \ {i} : state_'[j] = state_[j]
      /\ state_'[i] = IF channel_opened_[i] THEN "CREATING" ELSE "DELETED"
      /\ toServer' \in Seq(Request) /\ RequestInv'
      /\ \A n \in 1..Len(toServer') : Opens(toServer'[n]) =>
           n + 0 \in 1..Len(toServer) /\ toServer'[n] = toServer[n + 0]
  <2>1. CASE /\ channel_opened_[i] /\ state_' = [state_ EXCEPT ![i] = "CREATING"]
             /\ CreateStubs({i})
    <3>1. {i} \in SUBSET Items /\ \A j \in {i} : life'[j] # "unborn"
      BY <1>1
    <3>2. PICK T \in SUBSET Items : T = {i}
      BY <3>1, Zenon
    <3>3. /\ toServer' \in Seq(Request) /\ RequestInv'
          /\ \A n \in 1..Len(toServer') : Opens(toServer'[n]) =>
               n + 0 \in 1..Len(toServer) /\ toServer'[n] = toServer[n + 0]
      BY <1>1, <2>1, <3>1, <3>2, StubsRequests, Zenon
    <3> QED
      BY <1>1, <2>1, <3>3
  <2>2. CASE ~channel_opened_[i] /\ UNCHANGED <<state_, toServer>>
    BY <1>1, <1>3, <2>2 DEF IInv, RequestInv
  <2> QED
    BY <2>1, <2>2, Zenon DEF Subscribe
<1>5. Types'
  BY <1>1, <1>2, <1>4, Zenon DEF IInv, Types, TypeOK
<1>6. ChannelInv'
  <2>1. \A n \in 1..Len(toClient') : n + 0 \in 1..Len(toClient) /\ toClient'[n] = toClient[n + 0]
    BY <1>1 DEF IInv, Types
  <2> QED
    BY <1>1, <1>4, <2>1, ChannelSame, Zenon DEF IInv
<1>7. \A id \in Ids : IdInv(id)'
  BY <1>1, IdsSame
<1>8. ASSUME NEW j \in Items PROVE ItemInv(j)'
  <2>1. ItemInv(j)
    BY DEF IInv, ProxiesInv
  <2>2. CASE j = i
    BY <1>1, <1>2, <1>3, <1>4, <2>1, <2>2, Zenon DEF ItemInv
  <2>3. CASE j # i
    BY <1>1, <1>2, <1>4, <2>1, <2>3, Zenon DEF ItemInv
  <2> QED
    BY <2>2, <2>3
<1>9. ObserversMatch'
  <2>1. \A j \in Items : state_'[j] = "CREATED" <=> state_[j] = "CREATED"
    BY <1>3, <1>4
  <2>2. \A id \in Ids, j \in Items :
          monitored_item_ids_[id] = j
            <=> /\ life[j] = "alive" /\ state_[j] = "CREATED"
                /\ monitored_item_id_[j] = id /\ owner[id] = j
    BY Zenon DEF IInv, ProxiesInv, ObserversMatch
  <2>3. UNCHANGED <<life, monitored_item_id_, monitored_item_ids_, owner>>
    BY <1>1, Zenon
  <2>4. ASSUME NEW id \in Ids, NEW j \in Items
        PROVE  monitored_item_ids_'[id] = j
                 <=> /\ life'[j] = "alive" /\ state_'[j] = "CREATED"
                     /\ monitored_item_id_'[j] = id /\ owner'[id] = j
    BY <2>1, <2>2, <2>3
  <2> QED
    BY <2>4, Zenon DEF ObserversMatch
<1>10. NoSilentStop' /\ OtherChecksHold'
  <2>1. ASSUME NEW j \in Items, life[j] = "alive", subscribed_'[j], channel_opened_[j],
               state_'[j] = "DELETED"
        PROVE  shown[j].status = "Bad"
    <3>1. j # i
      BY <1>4, <2>1, Zenon
    <3> QED
      BY <1>2, <1>4, <2>1, <3>1, Zenon DEF IInv, ProxiesInv, NoSilentStop, Alive
  <2> QED
    BY <1>1, <2>1, Zenon DEF IInv, ProxiesInv, NoSilentStop, OtherChecksHold, Alive
<1> QED
  BY <1>4, <1>5, <1>6, <1>7, <1>8, <1>9, <1>10, Zenon DEF IInv, ProxiesInv

=============================================================================

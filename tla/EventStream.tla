----------------------------- MODULE EventStream -----------------------------
(***************************************************************************)
(* The broker of server-sent events.  Scans publish their events, in order, *)
(* from goroutines of their own; browsers connect, read and leave.  The     *)
(* broker keeps a channel per connection in a map under a RWMutex: Publish  *)
(* holds the read lock while it offers the event to every channel of the    *)
(* map, connecting and leaving take the write lock to change the map.  What *)
(* is done under the write lock touches nothing else, so taking it, changing *)
(* the map and releasing it is one step, possible when nobody publishes.    *)
(***************************************************************************)
EXTENDS Naturals, Sequences

CONSTANTS
  Client,  \* connections; a browser that reconnects is another one
  Scan,
  Events,  \* how many events each scan publishes, the last scan_completed
  Buffer   \* places of a channel

ASSUME SizeAssumption == Events \in [Scan -> Nat] /\ Buffer \in Nat

VARIABLES
  clients,    \* the broker's map
  channel,    \* what each channel holds
  closed,     \* channels that have been closed
  conn,       \* the place of each connection's handler
  scan,       \* the place of each scan's goroutine in Publish
  received,   \* what each browser has got, oldest first
  firstEvent, \* history: the first event of a scan to find a client in the map
  overrun     \* history: events a client's channel had no place for

vars == <<clients, channel, closed, conn, scan, received, firstEvent, overrun>>

Event == [scan : Scan, nth : Nat]

(* next: the event it publishes, or will publish next; todo: channels it   *)
(* has yet to offer it to.                                                 *)
Publisher == [next : Nat, publishing : BOOLEAN, todo : SUBSET Client]

TypeOK ==
  /\ clients \subseteq Client /\ closed \subseteq Client
  /\ channel \in [Client -> Seq(Event)]
  /\ conn \in [Client -> {"new", "serving", "leaving", "deleted", "gone"}]
  /\ scan \in [Scan -> Publisher]
  /\ received \in [Client -> Seq(Event)]
  /\ firstEvent \in [Client -> [Scan -> Nat]]
  /\ overrun \in [Client -> SUBSET Event]

Init ==
  /\ clients = {} /\ closed = {}
  /\ channel = [c \in Client |-> <<>>]
  /\ conn = [c \in Client |-> "new"]
  /\ scan = [s \in Scan |-> [next |-> 1, publishing |-> FALSE, todo |-> {}]]
  /\ received = [c \in Client |-> <<>>]
  /\ firstEvent = [c \in Client |-> [s \in Scan |-> 1]]
  /\ overrun = [c \in Client |-> {}]

Publishing == {s \in Scan : scan[s].publishing}

-----------------------------------------------------------------------------
(* Publish: RLock and the start of the loop over the map.                  *)
BeginPublish(s) ==
  /\ ~scan[s].publishing /\ scan[s].next <= Events[s]
  /\ scan' = [scan EXCEPT ![s].publishing = TRUE, ![s].todo = clients]
  /\ UNCHANGED <<clients, channel, closed, conn, received, firstEvent, overrun>>

(* Mutant: a full channel blocks the sender.                               *)
OfferOrWait(s, c) ==
  LET e == [scan |-> s, nth |-> scan[s].next]
  IN /\ c \in scan[s].todo
     /\ scan' = [scan EXCEPT ![s].todo = @ \ {c}]
     /\ Len(channel[c]) < Buffer
     /\ channel' = [channel EXCEPT ![c] = Append(@, e)]
     /\ UNCHANGED <<clients, closed, conn, received, firstEvent, overrun>>

(* Mutant: the first full channel ends the loop.                           *)
OfferOrStop(s, c) ==
  LET e == [scan |-> s, nth |-> scan[s].next]
  IN /\ c \in scan[s].todo
     /\ \/ /\ Len(channel[c]) < Buffer
           /\ channel' = [channel EXCEPT ![c] = Append(@, e)]
           /\ scan' = [scan EXCEPT ![s].todo = @ \ {c}]
           /\ UNCHANGED overrun
        \/ /\ Len(channel[c]) >= Buffer
           /\ overrun' = [overrun EXCEPT ![c] = @ \cup {e}]
           /\ scan' = [scan EXCEPT ![s].todo = {}]
           /\ UNCHANGED channel
     /\ UNCHANGED <<clients, closed, conn, received, firstEvent>>

(* One turn of the loop: the event goes into the channel if it has a place, *)
(* and is dropped for this client if not.                                  *)
Offer(s, c) ==
  LET e == [scan |-> s, nth |-> scan[s].next]
  IN /\ c \in scan[s].todo
     /\ scan' = [scan EXCEPT ![s].todo = @ \ {c}]
     /\ \/ /\ Len(channel[c]) < Buffer
           /\ channel' = [channel EXCEPT ![c] = Append(@, e)]
           /\ UNCHANGED overrun
        \/ /\ Len(channel[c]) >= Buffer
           /\ overrun' = [overrun EXCEPT ![c] = @ \cup {e}]
           /\ UNCHANGED channel
     /\ UNCHANGED <<clients, closed, conn, received, firstEvent>>

(* Mutant: the same event is published again.                              *)
EndPublishAgain(s) ==
  /\ scan[s].publishing /\ scan[s].todo = {}
  /\ scan' = [scan EXCEPT ![s].publishing = FALSE,
              ![s].next = IF clients = {} THEN @ + 1 ELSE @]
  /\ UNCHANGED <<clients, channel, closed, conn, received, firstEvent, overrun>>

(* The loop is over and the read lock released.                            *)
EndPublish(s) ==
  /\ scan[s].publishing /\ scan[s].todo = {}
  /\ scan' = [scan EXCEPT ![s].publishing = FALSE, ![s].next = @ + 1]
  /\ UNCHANGED <<clients, channel, closed, conn, received, firstEvent, overrun>>

-----------------------------------------------------------------------------
(* ServeHTTP                                                               *)
Connect(c) ==
  /\ conn[c] = "new"
  /\ Publishing = {}
  /\ clients' = clients \cup {c}
  /\ firstEvent' = [firstEvent EXCEPT ![c] = [s \in Scan |-> scan[s].next]]
  /\ conn' = [conn EXCEPT ![c] = "serving"]
  /\ UNCHANGED <<channel, closed, scan, received, overrun>>

Deliver(c) ==
  /\ conn[c] = "serving"
  /\ channel[c] # <<>>
  /\ received' = [received EXCEPT ![c] = Append(@, Head(channel[c]))]
  /\ channel' = [channel EXCEPT ![c] = Tail(@)]
  /\ UNCHANGED <<clients, closed, conn, scan, firstEvent, overrun>>

(* The handler selects the end of its request's context: the browser has   *)
(* gone.  Until it selects that, it may still take events.                 *)
Leave(c) ==
  /\ conn[c] = "serving"
  /\ conn' = [conn EXCEPT ![c] = "leaving"]
  /\ UNCHANGED <<clients, channel, closed, scan, received, firstEvent, overrun>>

(* Mutant: the map is changed without the lock.                            *)
UnregisterUnlocked(c) ==
  /\ conn[c] = "leaving"
  /\ clients' = clients \ {c}
  /\ conn' = [conn EXCEPT ![c] = "deleted"]
  /\ UNCHANGED <<channel, closed, scan, received, firstEvent, overrun>>

Unregister(c) ==
  /\ conn[c] = "leaving"
  /\ Publishing = {}
  /\ clients' = clients \ {c}
  /\ conn' = [conn EXCEPT ![c] = "deleted"]
  /\ UNCHANGED <<channel, closed, scan, received, firstEvent, overrun>>

Close(c) ==
  /\ conn[c] = "deleted"
  /\ closed' = closed \cup {c}
  /\ conn' = [conn EXCEPT ![c] = "gone"]
  /\ UNCHANGED <<clients, channel, scan, received, firstEvent, overrun>>

Publish(s) == BeginPublish(s) \/ (\E c \in Client : Offer(s, c)) \/ EndPublish(s)
Handle(c) == Connect(c) \/ Deliver(c) \/ Leave(c) \/ Unregister(c) \/ Close(c)

Next == (\E s \in Scan : Publish(s)) \/ (\E c \in Client : Handle(c))

Spec == Init /\ [][Next]_vars

(* A goroutine that publishes goes on, and a handler that has been told     *)
(* that its browser is gone cleans up.  Nothing is assumed of how fast a   *)
(* browser reads, or that it reads at all.                                 *)
FairSpec ==
  /\ Spec
  /\ \A s \in Scan : WF_vars((\E c \in Client : Offer(s, c)) \/ EndPublish(s))
  /\ \A c \in Client : WF_vars(Unregister(c) \/ Close(c))

-----------------------------------------------------------------------------
(* Nothing is ever sent on a closed channel, which would panic and take the *)
(* server with all its scans down: between deleting a client and closing   *)
(* its channel no Publish can still be about to offer it an event.         *)
NoSendOnClosed == \A s \in Scan : scan[s].todo \cap closed = {}

(* What a browser has got and will get, if it stays.                       *)
Stream(c) == received[c] \o channel[c]

(* The events of a scan reach a browser in the order in which the scan      *)
(* published them, and none twice, however many scans publish at once.      *)
OrderKept ==
  \A c \in Client : \A i, j \in DOMAIN Stream(c) :
    i < j /\ Stream(c)[i].scan = Stream(c)[j].scan =>
      Stream(c)[i].nth < Stream(c)[j].nth

(* A client in the map misses an event only because its own channel was    *)
(* full: another slow client, or another scan, costs it nothing.           *)
MissesOnlyOverrun ==
  \A c \in clients, s \in Scan :
    \A k \in firstEvent[c][s]..(scan[s].next - 1) :
      LET e == [scan |-> s, nth |-> k]
      IN e \in overrun[c] \/ \E i \in DOMAIN Stream(c) : Stream(c)[i] = e

(* sse.go: a slow browser does not block a scan.                           *)
PublishEnds == \A s \in Scan : scan[s].publishing ~> ~scan[s].publishing

(* A connection that ends is forgotten by the broker.                      *)
LeaverForgotten == \A c \in Client : conn[c] = "leaving" ~> c \notin clients
=============================================================================

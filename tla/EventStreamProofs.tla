-------------------------- MODULE EventStreamProofs --------------------------
(***************************************************************************)
(* What the broker guarantees for any number of connections, scans and      *)
(* events and any size of the channels.                                    *)
(***************************************************************************)
EXTENDS EventStream, SequenceTheorems, TLAPS

(* The map holds the connections being served or about to leave; a closed  *)
(* channel is one whose handler has ended.  Only a scan that publishes has *)
(* clients left to offer its event to, and they are still in the map.      *)
MapInv ==
  /\ \A c \in Client : c \in clients <=> conn[c] \in {"serving", "leaving"}
  /\ \A c \in Client : c \in closed <=> conn[c] = "gone"
  /\ \A s \in Scan : scan[s].todo \subseteq clients
  /\ \A s \in Scan : ~scan[s].publishing => scan[s].todo = {}

(* No browser has an event its scan has yet to publish, or to offer it.    *)
NoneEarly ==
  \A c \in Client : \A i \in DOMAIN Stream(c) :
    LET e == Stream(c)[i] p == scan[e.scan]
    IN /\ e.nth <= p.next
       /\ e.nth = p.next => p.publishing /\ c \notin p.todo

(* Every event that has been offered to a client of the map is in its       *)
(* stream or overran its channel.                                          *)
Reached(c, e) == e \in overrun[c] \/ \E i \in DOMAIN Stream(c) : Stream(c)[i] = e
Offered(c, s, k) ==
  k < scan[s].next \/ (k = scan[s].next /\ scan[s].publishing /\ c \notin scan[s].todo)
AllReached ==
  \A c \in clients, s \in Scan :
    /\ firstEvent[c][s] <= scan[s].next
    /\ \A k \in Nat : k >= firstEvent[c][s] /\ Offered(c, s, k) =>
         Reached(c, [scan |-> s, nth |-> k])

IInv == TypeOK /\ MapInv /\ OrderKept /\ NoneEarly /\ AllReached

-----------------------------------------------------------------------------
(* How a step changes a stream: delivering moves an event within it, and    *)
(* offering appends one.                                                   *)
LEMMA StreamType ==
  ASSUME TypeOK, NEW c \in Client
  PROVE  /\ Stream(c) \in Seq(Event)
         /\ Len(Stream(c)) \in Nat
         /\ DOMAIN Stream(c) = 1..Len(Stream(c))
         /\ \A i \in DOMAIN Stream(c) : Stream(c)[i] \in Event
<1>1. received[c] \in Seq(Event) /\ channel[c] \in Seq(Event)  BY DEF TypeOK
<1>2. Stream(c) \in Seq(Event)  BY <1>1, ConcatProperties DEF Stream
<1>3. QED  BY <1>2, LenProperties, ElementOfSeq

LEMMA MoveWithin ==
  ASSUME NEW S, NEW r \in Seq(S), NEW q \in Seq(S), q # <<>>
  PROVE  Append(r, Head(q)) \o Tail(q) = r \o q
<1>1. Head(q) \in S /\ Tail(q) \in Seq(S)  BY HeadTailProperties
<1> DEFINE h == <<Head(q)>>
<1>2. h \in Seq(S) /\ Len(h) = 1 /\ h[1] = q[1]  BY <1>1
<1>3. Append(r, Head(q)) = r \o h  BY <1>1
<1> HIDE DEF h
<1>4. h \o Tail(q) = q
  <2>1. Len(Tail(q)) = Len(q) - 1 /\ Len(q) \in Nat
        /\ \A i \in 1..Len(Tail(q)) : Tail(q)[i] = q[i + 1]
    BY HeadTailProperties, LenProperties
  <2>2. Len(h) + Len(Tail(q)) = Len(q)  BY <1>2, <2>1
  <2>3. h \o Tail(q) \in Seq(S) /\ Len(h \o Tail(q)) = Len(h) + Len(Tail(q))
        /\ \A i \in 1..(Len(h) + Len(Tail(q))) :
             (h \o Tail(q))[i] = IF i <= Len(h) THEN h[i] ELSE Tail(q)[i - Len(h)]
    BY <1>1, <1>2, ConcatProperties
  <2>4. \A i \in 1..Len(q) : (h \o Tail(q))[i] = q[i]
    <3> TAKE i \in 1..Len(q)
    <3>1. CASE i <= 1  BY <1>2, <2>1, <2>2, <2>3, <3>1
    <3>2. CASE i > 1
      <4>1. i - 1 \in 1..Len(Tail(q))  BY <2>1, <3>2
      <4>2. Tail(q)[i - 1] = q[(i - 1) + 1]  BY <2>1, <4>1
      <4>3. QED  BY <1>2, <2>1, <2>2, <2>3, <3>2, <4>2
    <3>3. i \in Int  BY <2>1
    <3>4. i <= 1 \/ i > 1  BY <3>3
    <3>5. QED  BY <3>1, <3>2, <3>4
  <2>5. QED  BY <2>2, <2>3, <2>4, SeqEqual
<1>5. QED  BY <1>1, <1>2, <1>3, <1>4, ConcatAssociative

LEMMA AppendWithin ==
  ASSUME NEW S, NEW r \in Seq(S), NEW q \in Seq(S), NEW e \in S
  PROVE  r \o Append(q, e) = Append(r \o q, e)
<1> DEFINE h == <<e>>
<1>1. h \in Seq(S) /\ r \o q \in Seq(S)  BY ConcatProperties
<1>2. Append(q, e) = q \o h  OBVIOUS
<1>3. Append(r \o q, e) = (r \o q) \o h  BY <1>1
<1> HIDE DEF h
<1>4. (r \o q) \o h = r \o (q \o h)  BY <1>1, ConcatAssociative
<1>5. QED  BY <1>2, <1>3, <1>4

LEMMA DeliverStream ==
  ASSUME TypeOK, NEW c \in Client, Deliver(c), NEW d \in Client
  PROVE  Stream(d)' = Stream(d)
<1>1. CASE d = c
  <2>1. received[c] \in Seq(Event) /\ channel[c] \in Seq(Event)  BY DEF TypeOK
  <2>2. received'[c] = Append(received[c], Head(channel[c]))
        /\ channel'[c] = Tail(channel[c])
    BY DEF Deliver, TypeOK
  <2>3. channel[c] # <<>>  BY DEF Deliver
  <2>4. Append(received[c], Head(channel[c])) \o Tail(channel[c])
        = received[c] \o channel[c]
    BY <2>1, <2>3, MoveWithin
  <2>5. received'[c] \o channel'[c] = received[c] \o channel[c]
    BY <2>2, <2>4
  <2>6. QED  BY <1>1, <2>5 DEF Stream
<1>2. CASE d # c  BY <1>2 DEF Deliver, TypeOK, Stream
<1>3. QED  BY <1>1, <1>2

LEMMA AppendStream ==
  ASSUME TypeOK, NEW c \in Client, NEW e \in Event,
         channel' = [channel EXCEPT ![c] = Append(@, e)],
         received' = received, NEW d \in Client
  PROVE  Stream(d)' = IF d = c THEN Append(Stream(c), e) ELSE Stream(d)
<1>1. CASE d = c
  <2>1. received[c] \in Seq(Event) /\ channel[c] \in Seq(Event)  BY DEF TypeOK
  <2>2. channel'[c] = Append(channel[c], e)  BY DEF TypeOK
  <2>3. received[c] \o Append(channel[c], e) = Append(received[c] \o channel[c], e)
    <3> DEFINE r == received[c]
               q == channel[c]
    <3>1. r \in Seq(Event) /\ q \in Seq(Event) /\ e \in Event  BY <2>1
    <3> HIDE DEF r, q
    <3>2. r \o Append(q, e) = Append(r \o q, e)  BY ONLY <3>1, AppendWithin
    <3>3. QED  BY <3>2 DEF r, q
  <2>4. received'[c] \o channel'[c] = Append(received[c] \o channel[c], e)
    BY <2>2, <2>3
  <2>5. QED  BY <1>1, <2>4 DEF Stream
<1>2. CASE d # c  BY <1>2 DEF TypeOK, Stream
<1>3. QED  BY <1>1, <1>2

-----------------------------------------------------------------------------
LEMMA InitInv == Init => IInv
<1> SUFFICES ASSUME Init PROVE IInv  OBVIOUS
<1>1. TypeOK  BY DEF Init, TypeOK, Publisher
<1>2. \A c \in Client : Stream(c) = <<>>
  <2> TAKE c \in Client
  <2>1. received[c] = <<>> /\ channel[c] = <<>>  BY DEF Init
  <2>2. <<>> \in Seq(Event) /\ <<>> \o <<>> = <<>>
    BY ConcatEmptySeq, EmptySeq
  <2>3. QED  BY <2>1, <2>2 DEF Stream
<1>3. MapInv  BY DEF Init, MapInv
<1>4. OrderKept /\ NoneEarly  BY <1>2 DEF OrderKept, NoneEarly
<1>5. AllReached  BY DEF Init, AllReached
<1>6. QED  BY <1>1, <1>3, <1>4, <1>5 DEF IInv

(* What an offer does, apart from the places it looks at.                  *)
LEMMA OfferEffect ==
  ASSUME NEW s \in Scan, NEW c \in Client, Offer(s, c)
  PROVE  LET e == [scan |-> s, nth |-> scan[s].next]
         IN /\ c \in scan[s].todo
            /\ scan' = [scan EXCEPT ![s].todo = @ \ {c}]
            /\ \/ /\ channel' = [channel EXCEPT ![c] = Append(@, e)]
                  /\ overrun' = overrun
               \/ /\ overrun' = [overrun EXCEPT ![c] = @ \cup {e}]
                  /\ channel' = channel
            /\ UNCHANGED <<clients, closed, conn, received, firstEvent>>
  BY DEF Offer

(* Every step keeps the types, and the map's part of the invariant.        *)
LEMMA TypeStep == ASSUME TypeOK, Next PROVE TypeOK'
<1>1. ASSUME NEW s \in Scan, BeginPublish(s) PROVE TypeOK'
  BY <1>1 DEF BeginPublish, TypeOK, Publisher
<1>2. ASSUME NEW s \in Scan, NEW c \in Client, Offer(s, c) PROVE TypeOK'
  <2> DEFINE e == [scan |-> s, nth |-> scan[s].next]
  <2>1. e \in Event  BY DEF TypeOK, Publisher, Event
  <2>2. Append(channel[c], e) \in Seq(Event)  BY <2>1 DEF TypeOK
  <2> HIDE DEF e
  <2>3. channel' \in [Client -> Seq(Event)]
    <3>1. channel' = channel \/ channel' = [channel EXCEPT ![c] = Append(@, e)]
      BY <1>2, OfferEffect DEF e
    <3>2. QED  BY <2>2, <3>1 DEF TypeOK
  <2>4. scan' \in [Scan -> Publisher]
    <3>1. scan' = [scan EXCEPT ![s].todo = @ \ {c}]  BY <1>2, OfferEffect
    <3>2. QED  BY <3>1 DEF TypeOK, Publisher
  <2>5. overrun' \in [Client -> SUBSET Event]
    <3>1. overrun[c] \cup {e} \in SUBSET Event  BY <2>1 DEF TypeOK
    <3>2. overrun' = overrun \/ overrun' = [overrun EXCEPT ![c] = @ \cup {e}]
      BY <1>2, OfferEffect DEF e
    <3>3. QED  BY <3>1, <3>2 DEF TypeOK
  <2>6. QED  BY <1>2, <2>3, <2>4, <2>5 DEF Offer, TypeOK
<1>3. ASSUME NEW s \in Scan, EndPublish(s) PROVE TypeOK'
  BY <1>3 DEF EndPublish, TypeOK, Publisher
<1>4. ASSUME NEW c \in Client, Connect(c) PROVE TypeOK'
  BY <1>4 DEF Connect, TypeOK, Publisher
<1>5. ASSUME NEW c \in Client, Deliver(c) PROVE TypeOK'
  <2>1. channel[c] \in Seq(Event) /\ received[c] \in Seq(Event)  BY DEF TypeOK
  <2>2. channel[c] # <<>>  BY <1>5 DEF Deliver
  <2>3. Head(channel[c]) \in Event /\ Tail(channel[c]) \in Seq(Event)
    BY <2>1, <2>2, HeadTailProperties
  <2>4. Append(received[c], Head(channel[c])) \in Seq(Event)  BY <2>1, <2>3
  <2>5. QED  BY <1>5, <2>3, <2>4 DEF Deliver, TypeOK
<1>6. ASSUME NEW c \in Client, Leave(c) \/ Unregister(c) \/ Close(c)
      PROVE TypeOK'
  BY <1>6 DEF Leave, Unregister, Close, TypeOK
<1>7. QED  BY <1>1, <1>2, <1>3, <1>4, <1>5, <1>6 DEF Next, Publish, Handle

LEMMA MapStep == ASSUME TypeOK, MapInv, Next PROVE MapInv'
<1>1. ASSUME NEW s \in Scan, Publish(s) PROVE MapInv'
  <2>1. CASE BeginPublish(s)
    <3>1. /\ scan'[s].todo = clients /\ scan'[s].publishing
          /\ \A t \in Scan : t # s => scan'[t] = scan[t]
          /\ UNCHANGED <<clients, closed, conn>>
      BY <2>1 DEF BeginPublish, TypeOK, Publisher
    <3>2. QED  BY <3>1 DEF MapInv
  <2>2. CASE EndPublish(s)
    <3>1. /\ scan'[s].todo = {}
          /\ \A t \in Scan : t # s => scan'[t] = scan[t]
          /\ UNCHANGED <<clients, closed, conn>>
      BY <2>2 DEF EndPublish, TypeOK, Publisher
    <3>2. QED  BY <3>1 DEF MapInv
  <2>3. ASSUME NEW c \in Client, Offer(s, c) PROVE MapInv'
    <3>1. scan' = [scan EXCEPT ![s].todo = @ \ {c}]
          /\ UNCHANGED <<clients, closed, conn>>
      BY <2>3, OfferEffect
    <3>2. QED  BY <3>1 DEF TypeOK, Publisher, MapInv
  <2>4. QED  BY <1>1, <2>1, <2>2, <2>3 DEF Publish
<1>2. ASSUME NEW c \in Client, Handle(c) PROVE MapInv'
  BY <1>2 DEF Handle, Connect, Deliver, Leave, Unregister, Close, Publishing,
              TypeOK, Publisher, MapInv
<1>3. QED  BY <1>1, <1>2 DEF Next

(* A step that leaves every stream as it is keeps the order in it.         *)
SameStreams == \A c \in Client : Stream(c)' = Stream(c)

LEMMA SameOrder == ASSUME OrderKept, SameStreams PROVE OrderKept'
  BY DEF OrderKept, SameStreams

(* Every step but Offer does.                                              *)
LEMMA OnlyOffers ==
  ASSUME TypeOK, Next, \A s \in Scan, c \in Client : ~Offer(s, c)
  PROVE  SameStreams
<1>1. CASE \E c \in Client : Deliver(c)  BY <1>1, DeliverStream DEF SameStreams
<1>2. CASE UNCHANGED <<channel, received>>  BY <1>2 DEF SameStreams, Stream
<1>3. QED
  BY <1>1, <1>2 DEF Next, Publish, Handle, BeginPublish, EndPublish, Connect,
                    Leave, Unregister, Close

(* Offer appends the event to the client's stream, or the stream stays and  *)
(* the event has overrun.                                                  *)
LEMMA OfferStream ==
  ASSUME TypeOK, NEW s \in Scan, NEW c \in Client, Offer(s, c)
  PROVE  LET e == [scan |-> s, nth |-> scan[s].next]
         IN \/ /\ \A d \in Client :
                    Stream(d)' = IF d = c THEN Append(Stream(c), e) ELSE Stream(d)
               /\ overrun' = overrun
            \/ /\ SameStreams
               /\ e \in overrun'[c]
               /\ \A d \in Client : overrun[d] \subseteq overrun'[d]
<1> DEFINE e == [scan |-> s, nth |-> scan[s].next]
<1>1. e \in Event  BY DEF TypeOK, Publisher, Event
<1> HIDE DEF e
<1>2. received' = received
      /\ \/ channel' = [channel EXCEPT ![c] = Append(@, e)] /\ overrun' = overrun
         \/ overrun' = [overrun EXCEPT ![c] = @ \cup {e}] /\ channel' = channel
  BY OfferEffect DEF e
<1>3. CASE channel' = [channel EXCEPT ![c] = Append(@, e)] /\ overrun' = overrun
  <2>1. \A d \in Client :
          Stream(d)' = IF d = c THEN Append(Stream(c), e) ELSE Stream(d)
    BY <1>1, <1>2, <1>3, AppendStream
  <2>2. QED  BY <1>3, <2>1 DEF e
<1>4. CASE overrun' = [overrun EXCEPT ![c] = @ \cup {e}] /\ channel' = channel
  <2>1. SameStreams  BY <1>2, <1>4 DEF SameStreams, Stream
  <2>2. e \in overrun'[c] /\ \A d \in Client : overrun[d] \subseteq overrun'[d]
    BY <1>4 DEF TypeOK
  <2>3. QED  BY <2>1, <2>2 DEF e
<1>5. QED  BY <1>2, <1>3, <1>4

(* The last place of a stream an event was appended to.                    *)
LEMMA Appended ==
  ASSUME NEW q \in Seq(Event), NEW e \in Event
  PROVE  /\ Append(q, e) \in Seq(Event)
         /\ DOMAIN Append(q, e) = 1..(Len(q) + 1) /\ DOMAIN q = 1..Len(q)
         /\ Len(q) \in Nat
         /\ \A i \in 1..Len(q) : Append(q, e)[i] = q[i]
         /\ Append(q, e)[Len(q) + 1] = e
  BY AppendProperties, LenProperties

LEMMA OrderStep ==
  ASSUME TypeOK, OrderKept, NoneEarly, Next
  PROVE  OrderKept'
<1>1. CASE \A s \in Scan, c \in Client : ~Offer(s, c)
  BY <1>1, OnlyOffers, SameOrder
<1>2. ASSUME NEW s \in Scan, NEW c \in Client, Offer(s, c) PROVE OrderKept'
  <2> DEFINE e == [scan |-> s, nth |-> scan[s].next]
  <2>1. CASE SameStreams  BY <2>1, SameOrder
  <2>2. CASE \A d \in Client :
               Stream(d)' = IF d = c THEN Append(Stream(c), e) ELSE Stream(d)
    <3>1. SUFFICES ASSUME NEW d \in Client
                   PROVE  \A i, j \in DOMAIN Stream(d)' :
                            i < j /\ Stream(d)'[i].scan = Stream(d)'[j].scan =>
                              Stream(d)'[i].nth < Stream(d)'[j].nth
      BY DEF OrderKept
    <3>2. CASE d # c  BY <2>2, <3>2 DEF OrderKept
    <3>3. CASE d = c
      <4> DEFINE q == Stream(c)
      <4>1. q \in Seq(Event)  BY StreamType
      <4>2. e \in Event /\ e.scan = s /\ e.nth = scan[s].next /\ e.nth \in Nat
        BY DEF TypeOK, Publisher, Event
      <4>3. Stream(d)' = Append(q, e)  BY <2>2, <3>3
      <4>4. c \in scan[s].todo  BY <1>2, OfferEffect
      <4>5. \A i \in DOMAIN q : q[i] \in Event /\ (q[i].scan = s => q[i].nth < e.nth)
        <5> TAKE i \in DOMAIN q
        <5>1. q[i] \in Event  BY StreamType
        <5>2. q[i].nth <= scan[q[i].scan].next
              /\ (q[i].nth = scan[q[i].scan].next => c \notin scan[q[i].scan].todo)
          BY DEF NoneEarly
        <5>3. q[i].nth \in Nat  BY <5>1 DEF Event
        <5>4. QED  BY <4>2, <4>4, <5>1, <5>2, <5>3
      <4>6. \A i, j \in DOMAIN q : i < j /\ q[i].scan = q[j].scan => q[i].nth < q[j].nth
        BY DEF OrderKept
      <4> HIDE DEF q, e
      <4>7. QED  BY <3>3, <4>1, <4>2, <4>3, <4>5, <4>6, Appended
    <3>4. QED  BY <3>2, <3>3
  <2>3. QED  BY <1>2, <2>1, <2>2, OfferStream
<1>3. QED  BY <1>1, <1>2

-----------------------------------------------------------------------------
(* A browser's events stay behind their scan: a publisher only advances, and *)
(* what is offered leaves the clients still to be offered it.              *)
LEMMA EarlyStep ==
  ASSUME TypeOK, MapInv, NoneEarly, Next
  PROVE  NoneEarly'
<1>0. \A d \in Client : \A i \in DOMAIN Stream(d) : Stream(d)[i] \in Event
  BY StreamType
<1>1. ASSUME SameStreams,
             \A d \in Client, t \in Scan, k \in Nat :
               /\ k <= scan[t].next
               /\ k = scan[t].next => scan[t].publishing /\ d \notin scan[t].todo
               => /\ k <= scan'[t].next
                  /\ k = scan'[t].next => scan'[t].publishing /\ d \notin scan'[t].todo
      PROVE  NoneEarly'
  <2> SUFFICES ASSUME NEW d \in Client, NEW i \in DOMAIN Stream(d)
               PROVE  LET e == Stream(d)[i] p == scan'[e.scan]
                      IN /\ e.nth <= p.next
                         /\ e.nth = p.next => p.publishing /\ d \notin p.todo
    BY <1>1 DEF NoneEarly, SameStreams
  <2> DEFINE e == Stream(d)[i]
  <2>1. e.scan \in Scan /\ e.nth \in Nat  BY <1>0 DEF Event
  <2>2. /\ e.nth <= scan[e.scan].next
        /\ e.nth = scan[e.scan].next =>
             scan[e.scan].publishing /\ d \notin scan[e.scan].todo
    BY DEF NoneEarly
  <2> HIDE DEF e
  <2>3. QED  BY <1>1, <2>1, <2>2 DEF e
<1>2. ASSUME NEW s \in Scan, BeginPublish(s) PROVE NoneEarly'
  <2>1. SameStreams  BY <1>2 DEF BeginPublish, SameStreams, Stream
  <2>2. /\ ~scan[s].publishing /\ scan'[s].next = scan[s].next
        /\ \A t \in Scan : t # s => scan'[t] = scan[t]
    BY <1>2 DEF BeginPublish, TypeOK, Publisher
  <2>3. QED  BY <1>1, <2>1, <2>2
<1>3. ASSUME NEW s \in Scan, EndPublish(s) PROVE NoneEarly'
  <2>1. SameStreams  BY <1>3 DEF EndPublish, SameStreams, Stream
  <2>2. /\ scan'[s].next = scan[s].next + 1 /\ scan[s].next \in Nat
        /\ \A t \in Scan : t # s => scan'[t] = scan[t]
    BY <1>3 DEF EndPublish, TypeOK, Publisher
  <2>3. QED  BY <1>1, <2>1, <2>2
<1>4. ASSUME NEW c \in Client, Handle(c) PROVE NoneEarly'
  <2>1. scan' = scan
    BY <1>4 DEF Handle, Connect, Deliver, Leave, Unregister, Close
  <2>2. SameStreams
    <3>1. CASE Deliver(c)  BY <3>1, DeliverStream DEF SameStreams
    <3>2. CASE ~Deliver(c)
      BY <1>4, <3>2 DEF Handle, Connect, Leave, Unregister, Close, SameStreams, Stream
    <3>3. QED  BY <3>1, <3>2
  <2>3. QED  BY <1>1, <2>1, <2>2
<1>5. ASSUME NEW s \in Scan, NEW c \in Client, Offer(s, c) PROVE NoneEarly'
  <2> DEFINE e == [scan |-> s, nth |-> scan[s].next]
  <2>1. /\ scan'[s].next = scan[s].next /\ scan'[s].publishing
        /\ scan'[s].todo = scan[s].todo \ {c}
        /\ \A t \in Scan : t # s => scan'[t] = scan[t]
    <3>1. c \in scan[s].todo /\ scan' = [scan EXCEPT ![s].todo = @ \ {c}]
      BY <1>5, OfferEffect
    <3>2. QED  BY <3>1 DEF TypeOK, Publisher, MapInv
  <2>2. CASE SameStreams  BY <1>1, <2>1, <2>2
  <2>3. CASE \A d \in Client :
               Stream(d)' = IF d = c THEN Append(Stream(c), e) ELSE Stream(d)
    <3> SUFFICES ASSUME NEW d \in Client
                 PROVE  \A i \in DOMAIN Stream(d)' :
                          LET x == Stream(d)'[i] p == scan'[x.scan]
                          IN /\ x.nth <= p.next
                             /\ x.nth = p.next => p.publishing /\ d \notin p.todo
      BY DEF NoneEarly
    <3>1. \A i \in DOMAIN Stream(d) :
            LET x == Stream(d)[i] p == scan'[x.scan]
            IN /\ x.nth <= p.next
               /\ x.nth = p.next => p.publishing /\ d \notin p.todo
      <4> TAKE i \in DOMAIN Stream(d)
      <4> DEFINE x == Stream(d)[i]
      <4>1. x.scan \in Scan  BY <1>0 DEF Event
      <4>2. /\ x.nth <= scan[x.scan].next
            /\ x.nth = scan[x.scan].next =>
                 scan[x.scan].publishing /\ d \notin scan[x.scan].todo
        BY DEF NoneEarly
      <4> HIDE DEF x
      <4>3. QED  BY <2>1, <4>1, <4>2 DEF x
    <3>2. CASE d # c  BY <2>3, <3>1, <3>2
    <3>3. CASE d = c
      <4> DEFINE q == Stream(c)
                 Good(x) == /\ x.nth <= scan'[x.scan].next
                            /\ x.nth = scan'[x.scan].next =>
                                 /\ scan'[x.scan].publishing
                                 /\ c \notin scan'[x.scan].todo
      <4>1. q \in Seq(Event) /\ e \in Event
        BY StreamType DEF TypeOK, Publisher, Event
      <4>2. Good(e)  BY <2>1 DEF TypeOK, Publisher
      <4>3. \A i \in DOMAIN q : Good(q[i])  BY <3>1, <3>3
      <4>4. Stream(d)' = Append(q, e)  BY <2>3, <3>3
      <4> HIDE DEF q, e, Good
      <4>5. DOMAIN Append(q, e) = 1..(Len(q) + 1) /\ DOMAIN q = 1..Len(q)
            /\ Len(q) \in Nat
            /\ (\A i \in 1..Len(q) : Append(q, e)[i] = q[i])
            /\ Append(q, e)[Len(q) + 1] = e
        BY ONLY <4>1, Appended
      <4>6. \A i \in DOMAIN Append(q, e) : Good(Append(q, e)[i])
        <5> TAKE i \in DOMAIN Append(q, e)
        <5>1. CASE i = Len(q) + 1  BY <4>2, <4>5, <5>1
        <5>2. CASE i # Len(q) + 1
          <6>1. i \in 1..Len(q)  BY <4>5, <5>2
          <6>2. QED  BY <4>3, <4>5, <6>1
        <5>3. QED  BY <5>1, <5>2
      <4>7. QED  BY <3>3, <4>4, <4>6 DEF Good
    <3>4. QED  BY <3>2, <3>3
  <2>4. QED  BY <1>5, <2>2, <2>3, OfferStream
<1>6. QED  BY <1>2, <1>3, <1>4, <1>5 DEF Next, Publish

-----------------------------------------------------------------------------
(* An event that has reached a browser's stream, or overrun, stays so.      *)
LEMMA ReachedStays ==
  ASSUME TypeOK, Next, NEW d \in Client, NEW x, Reached(d, x)
  PROVE  Reached(d, x)'
<1>1. CASE SameStreams /\ overrun[d] \subseteq overrun'[d]
  BY <1>1 DEF Reached, SameStreams
<1>2. CASE \A s \in Scan, c \in Client : ~Offer(s, c)
  <2>1. UNCHANGED overrun
    BY <1>2 DEF Next, Publish, Handle, BeginPublish, EndPublish, Connect,
                Deliver, Leave, Unregister, Close
  <2>2. QED  BY <1>1, <1>2, <2>1, OnlyOffers
<1>3. ASSUME NEW s \in Scan, NEW c \in Client, Offer(s, c) PROVE Reached(d, x)'
  <2> DEFINE e == [scan |-> s, nth |-> scan[s].next]
  <2>1. CASE overrun' = overrun
             /\ \A b \in Client :
                  Stream(b)' = IF b = c THEN Append(Stream(c), e) ELSE Stream(b)
    <3>1. CASE d # c  BY <2>1, <3>1 DEF Reached
    <3>2. CASE d = c
      <4> DEFINE q == Stream(c)
      <4>1. q \in Seq(Event) /\ e \in Event
        BY StreamType DEF TypeOK, Publisher, Event
      <4>2. Stream(d)' = Append(q, e)  BY <2>1, <3>2
      <4>3. x \in overrun[d] \/ \E i \in DOMAIN q : q[i] = x
        BY <3>2 DEF Reached
      <4> HIDE DEF q, e
      <4>4. QED  BY <2>1, <4>1, <4>2, <4>3, Appended DEF Reached
    <3>3. QED  BY <3>1, <3>2
  <2>2. QED  BY <1>1, <1>3, <2>1, OfferStream
<1>4. QED  BY <1>2, <1>3

LEMMA ReachStep ==
  ASSUME TypeOK, MapInv, AllReached, Next
  PROVE  AllReached'
<1>1. ASSUME \A d \in clients' :
               /\ d \in clients /\ firstEvent'[d] = firstEvent[d]
               /\ \A t \in Scan :
                    /\ scan[t].next <= scan'[t].next
                    /\ \A k \in Nat :
                         Offered(d, t, k)' =>
                           Offered(d, t, k) \/ Reached(d, [scan |-> t, nth |-> k])'
      PROVE  AllReached'
  <2> SUFFICES ASSUME NEW d \in clients', NEW t \in Scan
               PROVE  /\ firstEvent'[d][t] <= scan'[t].next
                      /\ \A k \in Nat : k >= firstEvent'[d][t] /\ Offered(d, t, k)' =>
                           Reached(d, [scan |-> t, nth |-> k])'
    BY DEF AllReached
  <2>1. d \in clients /\ d \in Client  BY <1>1 DEF TypeOK
  <2>2. firstEvent[d][t] <= scan[t].next
    BY <2>1 DEF AllReached
  <2>3. firstEvent'[d][t] <= scan'[t].next
    <3>1. firstEvent[d][t] \in Nat /\ scan[t].next \in Nat /\ scan'[t].next \in Nat
      BY <2>1, TypeStep DEF TypeOK, Publisher
    <3>2. QED  BY <1>1, <2>2, <3>1
  <2>4. ASSUME NEW k \in Nat, k >= firstEvent'[d][t], Offered(d, t, k)'
        PROVE  Reached(d, [scan |-> t, nth |-> k])'
    <3>1. CASE Offered(d, t, k)
      <4>1. k >= firstEvent[d][t]  BY <1>1, <2>4
      <4>2. Reached(d, [scan |-> t, nth |-> k])
        BY <2>1, <3>1, <4>1 DEF AllReached
      <4>3. QED  BY <2>1, <4>2, ReachedStays
    <3>2. QED  BY <1>1, <2>4, <3>1
  <2>5. QED  BY <2>3, <2>4
<1>2. ASSUME NEW s \in Scan, BeginPublish(s) PROVE AllReached'
  <2>1. /\ clients' = clients /\ firstEvent' = firstEvent
        /\ scan'[s].next = scan[s].next /\ scan'[s].todo = clients
        /\ \A t \in Scan : t # s => scan'[t] = scan[t]
        /\ \A t \in Scan : scan[t].next \in Nat
    BY <1>2 DEF BeginPublish, TypeOK, Publisher
  <2>2. QED  BY <1>1, <2>1 DEF Offered
<1>3. ASSUME NEW s \in Scan, EndPublish(s) PROVE AllReached'
  <2>1. /\ clients' = clients /\ firstEvent' = firstEvent
        /\ scan[s].publishing /\ scan[s].todo = {}
        /\ scan'[s].next = scan[s].next + 1 /\ ~scan'[s].publishing
        /\ \A t \in Scan : t # s => scan'[t] = scan[t]
        /\ \A t \in Scan : scan[t].next \in Nat
    BY <1>3 DEF EndPublish, TypeOK, Publisher
  <2>2. QED  BY <1>1, <2>1 DEF Offered
<1>4. ASSUME NEW s \in Scan, NEW c \in Client, Offer(s, c) PROVE AllReached'
  <2> DEFINE e == [scan |-> s, nth |-> scan[s].next]
  <2>1. /\ clients' = clients /\ firstEvent' = firstEvent
        /\ scan' = [scan EXCEPT ![s].todo = @ \ {c}]
    BY <1>4, OfferEffect
  <2>2. /\ scan'[s].next = scan[s].next
        /\ scan'[s].publishing = scan[s].publishing
        /\ scan'[s].todo = scan[s].todo \ {c}
        /\ \A t \in Scan : t # s => scan'[t] = scan[t]
        /\ \A t \in Scan : scan[t].next \in Nat
    BY <2>1 DEF TypeOK, Publisher
  <2>3. ASSUME NEW x, x = e PROVE Reached(c, x)'
    <3>1. CASE \A b \in Client :
                 Stream(b)' = IF b = c THEN Append(Stream(c), e) ELSE Stream(b)
      <4> DEFINE q == Stream(c)
      <4>1. q \in Seq(Event) /\ x \in Event
        BY <2>3, StreamType DEF TypeOK, Publisher, Event
      <4>2. Stream(c)' = Append(q, x)  BY <2>3, <3>1
      <4> HIDE DEF q, e
      <4>3. Len(q) + 1 \in DOMAIN Append(q, x) /\ Append(q, x)[Len(q) + 1] = x
        BY ONLY <4>1, Appended
      <4>4. \E i \in DOMAIN Stream(c)' : Stream(c)'[i] = x  BY <4>2, <4>3
      <4>5. QED  BY <4>4 DEF Reached
    <3>2. CASE e \in overrun'[c]  BY <2>3, <3>2 DEF Reached
    <3>3. QED  BY <1>4, <3>1, <3>2, OfferStream
  <2>4. \A d \in clients', t \in Scan, k \in Nat :
          Offered(d, t, k)' => Offered(d, t, k) \/ (d = c /\ t = s /\ k = scan[s].next)
    BY <2>2 DEF Offered
  <2>5. QED  BY <1>1, <2>1, <2>2, <2>3, <2>4
<1>5. ASSUME NEW c \in Client, Connect(c) PROVE AllReached'
  <2>1. /\ clients' = clients \cup {c} /\ scan' = scan /\ overrun' = overrun
        /\ \A t \in Scan : firstEvent'[c][t] = scan[t].next
        /\ \A d \in Client : d # c => firstEvent'[d] = firstEvent[d]
        /\ \A t \in Scan : ~scan[t].publishing /\ scan[t].next \in Nat
    BY <1>5 DEF Connect, Publishing, TypeOK, Publisher
  <2>2. \A t \in Scan, k \in Nat : k >= firstEvent'[c][t] => ~Offered(c, t, k)'
    BY <2>1 DEF Offered
  <2>3. \A d \in clients', t \in Scan, k \in Nat : Offered(d, t, k)' <=> Offered(d, t, k)
    BY <2>1 DEF Offered
  <2>4. \A d \in Client : Stream(d)' = Stream(d)
    BY <1>5 DEF Connect, Stream
  <2>5. \A d \in Client : \A x : Reached(d, x)' <=> Reached(d, x)
    BY <2>1, <2>4 DEF Reached
  <2>6. clients \subseteq Client /\ \A d \in clients' : d = c \/ d \in clients
    BY <2>1 DEF TypeOK
  <2>7. QED  BY <2>1, <2>2, <2>3, <2>5, <2>6 DEF AllReached
<1>6. ASSUME NEW c \in Client, Deliver(c) \/ Leave(c) \/ Unregister(c) \/ Close(c)
      PROVE  AllReached'
  <2>1. clients' \subseteq clients /\ firstEvent' = firstEvent /\ scan' = scan
        /\ \A t \in Scan : scan[t].next \in Nat
    BY <1>6 DEF Deliver, Leave, Unregister, Close, TypeOK, Publisher
  <2>2. QED  BY <1>1, <2>1 DEF Offered
<1>7. QED  BY <1>2, <1>3, <1>4, <1>5, <1>6 DEF Next, Publish, Handle

-----------------------------------------------------------------------------
LEMMA StutterInv == ASSUME IInv, UNCHANGED vars PROVE IInv'
<1>1. TypeOK' /\ MapInv'  BY DEF IInv, vars, TypeOK, MapInv
<1>2. SameStreams  BY DEF vars, SameStreams, Stream
<1>3. OrderKept'  BY <1>2, SameOrder DEF IInv
<1>4. NoneEarly'  BY <1>2 DEF IInv, vars, SameStreams, NoneEarly
<1>5. AllReached'
  BY <1>2 DEF IInv, TypeOK, vars, SameStreams, AllReached, Offered, Reached
<1>6. QED  BY <1>1, <1>3, <1>4, <1>5 DEF IInv

LEMMA StepInv == ASSUME IInv, [Next]_vars PROVE IInv'
<1>1. CASE Next
  BY <1>1, TypeStep, MapStep, OrderStep, EarlyStep, ReachStep DEF IInv
<1>2. CASE UNCHANGED vars  BY <1>2, StutterInv
<1>3. QED  BY <1>1, <1>2

(* The inductive invariant of the broker.                                  *)
THEOREM Invariant == Spec => []IInv
<1>1. IInv /\ [Next]_vars => IInv'  BY StepInv
<1>2. QED  BY InitInv, <1>1, PTL DEF Spec

(* The broker's map, channels, handlers and publishers are well formed.    *)
THEOREM TypeCorrect == Spec => []TypeOK
<1>1. IInv => TypeOK  BY DEF IInv
<1>2. QED  BY Invariant, <1>1, PTL

(* Publish never sends on a channel that its handler has closed, so a       *)
(* browser that leaves in the middle of a broadcast cannot make it panic.  *)
THEOREM NeverSendsOnClosed == Spec => []NoSendOnClosed
<1>1. IInv => NoSendOnClosed
  BY DEF IInv, TypeOK, Publisher, MapInv, NoSendOnClosed
<1>2. QED  BY Invariant, <1>1, PTL

(* The events of a scan reach each browser in the order published, none     *)
(* twice, with any number of scans publishing at the same time.            *)
THEOREM StreamInOrder == Spec => []OrderKept
<1>1. IInv => OrderKept  BY DEF IInv
<1>2. QED  BY Invariant, <1>1, PTL

(* A browser misses only the events its own channel had no place for.      *)
THEOREM OthersCostNothing == Spec => []MissesOnlyOverrun
<1>1. ASSUME IInv PROVE MissesOnlyOverrun
  <2> SUFFICES ASSUME NEW c \in clients, NEW s \in Scan,
                      NEW k \in firstEvent[c][s]..(scan[s].next - 1)
               PROVE  Reached(c, [scan |-> s, nth |-> k])
    BY DEF MissesOnlyOverrun, Reached
  <2>1. c \in Client /\ firstEvent[c][s] \in Nat /\ scan[s].next \in Nat
    BY <1>1 DEF IInv, TypeOK, Publisher
  <2>2. k \in Nat /\ k >= firstEvent[c][s] /\ k < scan[s].next  BY <2>1
  <2>3. Offered(c, s, k)  BY <2>2 DEF Offered
  <2>4. QED  BY <1>1, <2>2, <2>3 DEF IInv, AllReached
<1>2. QED  BY Invariant, <1>1, PTL
=============================================================================

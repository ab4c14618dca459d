------------------------------ MODULE Catalog ------------------------------
(***************************************************************************)
(* rrpp_bridge/catalog.py and the venues of rrpp_bridge/workspace.py: what *)
(* an operator enters about venues, events and offers, and the snapshot of *)
(* it that a worker reads for every message.                               *)
(*                                                                         *)
(* An operation of the dashboard is one transaction.  The snapshot is      *)
(* three queries outside any transaction: venues, then events, then offers *)
(* with the room the others left, so the catalog may change between them.  *)
(* An event or an offer is never changed, nor taken out: only its venue    *)
(* can be hidden.  Names, prices, conditions and links are left out; an    *)
(* event starts on a day, of one time zone.                                *)
(***************************************************************************)
EXTENDS Naturals, Sequences, FiniteSetsExt, SequencesExt

CONSTANTS
  Venues,      \* 1 .. n, in the order of their names
  MaxItems,    \* max_items of load_snapshot, 50
  VenueLimit,  \* 10
  EventLimit,  \* 20
  MaxEvents,   \* bound: events ever created
  MaxOffers,   \* bound: offers ever created
  LastDay      \* bound: days

VARIABLES
  venue,     \* "none", or whether the venue is "active" or "inactive"
  events,    \* catalog_events: venue and starting day, in the order of their rowids
  offers,    \* catalog_offers: the event of each, in the order of their rowids
  today,
  reading,   \* what load_snapshot reads next
  snapshot   \* the items it has: kind and key

catalog == <<venue, events, offers>>
vars == <<catalog, today, reading, snapshot>>

Day == 1 .. LastDay
Item(kind, key) == [kind |-> kind, key |-> key]
Keys(kind) == {item.key : item \in {i \in snapshot : i.kind = kind}}

-----------------------------------------------------------------------------
(* The dashboard.                                                          *)

CreateVenue(v) ==
  /\ venue[v] = "none"
  /\ venue' = [venue EXCEPT ![v] = "active"]
  /\ UNCHANGED <<events, offers, today, reading, snapshot>>

UpdateVenue(v, active) ==
  /\ venue[v] # "none"
  /\ venue' = [venue EXCEPT ![v] = IF active THEN "active" ELSE "inactive"]
  /\ UNCHANGED <<events, offers, today, reading, snapshot>>

(* Only under an active venue; the day may be past.                        *)
CreateEvent(v, day) ==
  /\ Len(events) < MaxEvents
  /\ venue[v] = "active"
  /\ events' = Append(events, [venue |-> v, starts |-> day])
  /\ UNCHANGED <<venue, offers, today, reading, snapshot>>

(* Of any event, whatever became of its venue.                             *)
CreateOffer(e) ==
  /\ Len(offers) < MaxOffers
  /\ offers' = Append(offers, e)
  /\ UNCHANGED <<venue, events, today, reading, snapshot>>

NextDay ==
  /\ today < LastDay
  /\ today' = today + 1
  /\ UNCHANGED <<catalog, reading, snapshot>>

-----------------------------------------------------------------------------
(* load_snapshot                                                           *)

Active == {v \in Venues : venue[v] = "active"}
Offered == {e \in DOMAIN events : events[e].venue \in Active}

(* ORDER BY starts_at, rowid: the events before each of them ...           *)
Before ==
  [e \in DOMAIN events |->
     {f \in DOMAIN events : \/ events[f].starts < events[e].starts
                            \/ events[f].starts = events[e].starts /\ f < e}]

(* ... and, prices aside, the offers: by their event's day and the rowid.  *)
OfferBefore ==
  [o \in DOMAIN offers |->
     {p \in DOMAIN offers : \/ events[offers[p]].starts < events[offers[o]].starts
                            \/ events[offers[p]].starts = events[offers[o]].starts /\ p < o}]

VenueBefore == [v \in Venues |-> {u \in Venues : u < v}]

(* The first n of S.                                                       *)
Limit(S, earlier, n) == {x \in S : Cardinality(earlier[x] \cap S) < n}

Room == MaxItems - Cardinality(snapshot)
AtMost(n) == Min({n, Room})

Found(kind, S) == snapshot' = snapshot \cup {Item(kind, x) : x \in S}

(* The message is taken up: an earlier snapshot is gone.                   *)
ReadVenues ==
  /\ reading = "venues"
  /\ snapshot' = {Item("venue", v) : v \in Limit(Active, VenueBefore, Min({VenueLimit, MaxItems}))}
  /\ reading' = "events"
  /\ UNCHANGED <<catalog, today>>

ReadEvents ==
  /\ reading = "events"
  /\ Found("event", Limit(Offered, Before, AtMost(EventLimit)))
  /\ reading' = "offers"
  /\ UNCHANGED <<catalog, today>>

ReadOffers ==
  /\ reading = "offers"
  /\ Found("offer", Limit({o \in DOMAIN offers : offers[o] \in Offered}, OfferBefore, Room))
  /\ reading' = "venues"
  /\ UNCHANGED <<catalog, today>>

-----------------------------------------------------------------------------
Init ==
  /\ venue = [v \in Venues |-> "none"]
  /\ events = <<>> /\ offers = <<>>
  /\ today = 1
  /\ reading = "venues"
  /\ snapshot = {}

Dashboard ==
  \/ \E v \in Venues :
       \/ CreateVenue(v)
       \/ \E active \in BOOLEAN : UpdateVenue(v, active)
       \/ \E day \in Day : CreateEvent(v, day)
  \/ \E e \in DOMAIN events : CreateOffer(e)

Next == Dashboard \/ NextDay \/ ReadVenues \/ ReadEvents \/ ReadOffers

Spec == Init /\ [][Next]_vars

-----------------------------------------------------------------------------
(* "Venues, events, offers [...] are bridge-owned catalog data available   *)
(* to every conversation", as a customer needs it: an event to come is not *)
(* kept from a conversation while an event of the past is shown to it.     *)
UpcomingIsShown ==
  [][reading = "events" /\ reading' = "offers" =>
       \A e \in Offered, past \in Keys("event")' :
         events[e].starts >= today /\ events[past].starts < today => e \in Keys("event")']_vars
=============================================================================

----------------------------- MODULE ParkingLot -----------------------------
(***************************************************************************)
(* ParkingService of 12_capstone_projects/02_parking_lot_system/python/   *)
(* parkinglot.py: the spots of create_spots, the NearestAvailable         *)
(* allocator, the InMemoryRepo tickets and the pricing strategies.        *)
(* Calls are sequential (the service has no lock and no threads), so      *)
(* every public method is one atomic action. Time is counted in ticks;   *)
(* HourTicks ticks make one hour of datetime.now().                       *)
(***************************************************************************)
EXTENDS Integers, Sequences, FiniteSets, TLC

CONSTANTS
    Small, Medium, Large,   \* create_spots(small, medium, large)
    Plates,                 \* license plates of the vehicles that arrive
    TypeOf,                 \* TypeOf[p]: the VehicleType of plate p
    Pricing,                \* "hourly" (HourlyPricing) or "flat" (FlatPricing)
    FlatRate,               \* FlatPricing(rate)
    HourTicks,              \* clock ticks per hour
    MaxTime,                \* bound on the clock
    MaxTickets              \* bound on the number of tickets issued

\* VehicleType and SpotSize are IntEnums.
MOTORCYCLE == 0
CAR == 1
TRUCK == 2
SMALL == 0
MEDIUM == 1
LARGE == 2

NoSpot == 0   \* allocate() returning None; spot ids start at 1

\* create_spots: ids 1, 2, ... in the order small, medium, large.
CreateSpots(s, m, l) ==
    [i \in 1..(s + m + l) |->
        [id |-> i, size |-> IF i <= s THEN SMALL
                            ELSE IF i <= s + m THEN MEDIUM ELSE LARGE]]

Spots == CreateSpots(Small, Medium, Large)
SpotIds == {Spots[i].id : i \in DOMAIN Spots}

VARIABLES
    occupied,   \* occupied[s]: Spot.occupied
    parkedIn,   \* parkedIn[s]: the plate of Spot.vehicle, or "none"
    tickets,    \* InMemoryRepo.tickets, ticket id i at index i
    now,        \* datetime.now() in ticks
    reply       \* what the last call returned or raised

vars == <<occupied, parkedIn, tickets, now, reply>>

\* Spot.can_fit
CanFit(size, vt) ==
    \/ vt = MOTORCYCLE
    \/ vt = CAR /\ size >= MEDIUM
    \/ vt = TRUCK /\ size >= LARGE

\* VEHICLE_MIN_SPOT
MinSpot(vt) == vt

\* Mutant: the any-fit pass without its `not spot.occupied` test.
PassTestFitIgnoresOccupied(occ, sp, vt, exact) ==
    IF exact THEN ~occ[sp.id] /\ sp.size = MinSpot(vt) ELSE CanFit(sp.size, vt)

\* The condition of one pass of NearestAvailable.allocate on spot sp.
PassTest(occ, sp, vt, exact) ==
    /\ ~occ[sp.id]
    /\ IF exact THEN sp.size = MinSpot(vt) ELSE CanFit(sp.size, vt)

\* One `for spot in spots` loop, from position i on.
RECURSIVE ScanFrom(_, _, _, _)
ScanFrom(occ, vt, exact, i) ==
    IF i > Len(Spots) THEN NoSpot
    ELSE IF PassTest(occ, Spots[i], vt, exact) THEN Spots[i].id
    ELSE ScanFrom(occ, vt, exact, i + 1)

\* NearestAvailable.allocate: the exact-fit pass, then the any-fit pass.
Allocate(occ, vt) ==
    LET exact == ScanFrom(occ, vt, TRUE, 1)
    IN IF exact # NoSpot THEN exact ELSE ScanFrom(occ, vt, FALSE, 1)

\* Mutant: whole hours rounded down instead of up.
CalculateFloor(vt, d) ==
    IF Pricing = "flat" THEN FlatRate
    ELSE LET hours == d \div HourTicks
         IN (IF hours < 1 THEN 1 ELSE hours) * (vt + 1)

\* HourlyPricing.calculate: hours rounded up, at least one, times the rate
\* of the vehicle type; FlatPricing.calculate ignores both arguments.
Rate(vt) == vt + 1
CeilDiv(a, b) == (a + b - 1) \div b
Calculate(vt, d) ==
    IF Pricing = "flat" THEN FlatRate
    ELSE LET hours == CeilDiv(d, HourTicks)
         IN (IF hours < 1 THEN 1 ELSE hours) * Rate(vt)

\* InMemoryRepo.get_active_ticket_by_plate: the first active ticket in
\* dict order (= id order) for the plate, 0 for None.
ActiveTicket(p) ==
    LET I == {i \in DOMAIN tickets : tickets[i].active /\ tickets[i].plate = p}
    IN IF I = {} THEN 0 ELSE CHOOSE i \in I : \A j \in I : i <= j

Init ==
    /\ occupied = [s \in SpotIds |-> FALSE]
    /\ parkedIn = [s \in SpotIds |-> "none"]
    /\ tickets = <<>>
    /\ now = 0
    /\ reply = "none"

\* Mutant: park without the `if spot is None: raise`.
ParkNoCheck(p) ==
    LET s == Allocate(occupied, TypeOf[p]) IN
    /\ Len(tickets) < MaxTickets
    /\ occupied' = [occupied EXCEPT ![s] = TRUE]
    /\ parkedIn' = [parkedIn EXCEPT ![s] = p]
    /\ tickets' = Append(tickets,
          [plate |-> p, spot |-> s, entry |-> now, exit |-> -1, billed |-> -1,
           fee |-> 0, active |-> TRUE])
    /\ reply' = Len(tickets) + 1
    /\ UNCHANGED now

\* Ticket(ticket_id, vehicle, spot_id): entry now, no exit, fee 0, active.
\* billed is auxiliary: the clock reading the fee was computed from.
NewTicket(p, s) ==
    [plate |-> p, spot |-> s, entry |-> now, exit |-> -1, billed |-> -1, fee |-> 0,
     active |-> TRUE]

\* Ticket.close(fee): exit_time = datetime.now(), the fee, inactive.
Closed(t, fee, billed, exit) ==
    [t EXCEPT !.exit = exit, !.billed = billed, !.fee = fee, !.active = FALSE]

\* How far the clock may move on between two reads of datetime.now().
ClockAdvance == 0..1

\* Spot.park(vehicle) and Spot.free().
SpotPark(s, p) ==
    /\ occupied' = [occupied EXCEPT ![s] = TRUE]
    /\ parkedIn' = [parkedIn EXCEPT ![s] = p]

SpotFree(s) ==
    /\ occupied' = [occupied EXCEPT ![s] = FALSE]
    /\ parkedIn' = [parkedIn EXCEPT ![s] = "none"]

\* ParkingService.park: allocate, raise when nothing fits, else
\* spot.park, next_ticket_id, Ticket(...), save_ticket.
Park(p) ==
    LET s == Allocate(occupied, TypeOf[p]) IN
    /\ Len(tickets) < MaxTickets
    /\ \/ /\ s = NoSpot
          /\ reply' = "no available spot"
          /\ UNCHANGED <<occupied, parkedIn, tickets>>
       \/ /\ s # NoSpot
          /\ SpotPark(s, p)
          /\ tickets' = Append(tickets, NewTicket(p, s))
          /\ reply' = Len(tickets) + 1
    /\ UNCHANGED now

\* Mutant: unpark closing the ticket without spot.free().
UnparkNoFree(p) ==
    LET i == ActiveTicket(p) IN
    /\ \/ /\ i = 0
          /\ reply' = "not currently parked"
          /\ UNCHANGED <<tickets, now>>
       \/ /\ i # 0
          /\ \E d \in ClockAdvance :
                /\ now + d <= MaxTime
                /\ now' = now + d
                /\ tickets' = [tickets EXCEPT
                                 ![i] = Closed(@, Calculate(TypeOf[p], now - @.entry), now, now + d)]
          /\ reply' = i
    /\ UNCHANGED <<occupied, parkedIn>>

\* ParkingService.unpark: find the active ticket, free its spot, price the
\* stay, close and save the ticket. The stay priced is ticket.duration()
\* at line 210, which reads datetime.now() (86); close() at 212 reads it
\* again (81) for exit_time, and the clock may have moved on between.
Unpark(p) ==
    LET i == ActiveTicket(p) IN
    \/ /\ i = 0
       /\ reply' = "not currently parked"
       /\ UNCHANGED <<occupied, parkedIn, tickets, now>>
    \/ /\ i # 0
       /\ SpotFree(tickets[i].spot)
       /\ \E d \in ClockAdvance :
             /\ now + d <= MaxTime
             /\ now' = now + d
             /\ tickets' = [tickets EXCEPT
                              ![i] = Closed(@, Calculate(TypeOf[p], now - @.entry), now, now + d)]
       /\ reply' = i

\* ParkingService.get_occupancy: [occupied, total] per spot size.
Occupancy ==
    [z \in {SMALL, MEDIUM, LARGE} |->
        << Cardinality({s \in SpotIds : Spots[s].size = z /\ occupied[s]}),
           Cardinality({s \in SpotIds : Spots[s].size = z}) >>]

GetOccupancy ==
    /\ reply' = Occupancy
    /\ UNCHANGED <<occupied, parkedIn, tickets, now>>

\* The wall clock advances.
Tick ==
    /\ now < MaxTime
    /\ now' = now + 1
    /\ UNCHANGED <<occupied, parkedIn, tickets, reply>>

Next ==
    \/ \E p \in Plates : Park(p) \/ Unpark(p)
    \/ GetOccupancy
    \/ Tick

Spec == Init /\ [][Next]_vars

\* Properties

TypeOK ==
    /\ occupied \in [SpotIds -> BOOLEAN]
    /\ parkedIn \in [SpotIds -> Plates \cup {"none"}]
    /\ \A i \in DOMAIN tickets :
         /\ tickets[i].plate \in Plates
         /\ tickets[i].spot \in SpotIds
         /\ tickets[i].active \in BOOLEAN
    /\ now \in 0..MaxTime

\* The reference definition of NearestAvailable: among the free spots the
\* vehicle fits, the first in list order of the exact size, else the first
\* of any size, else None.
AllocateSpec(occ, vt) ==
    LET free  == {i \in DOMAIN Spots : ~occ[Spots[i].id] /\ CanFit(Spots[i].size, vt)}
        exact == {i \in free : Spots[i].size = MinSpot(vt)}
        First(I) == Spots[CHOOSE i \in I : \A j \in I : i <= j].id
    IN IF exact # {} THEN First(exact)
       ELSE IF free # {} THEN First(free) ELSE NoSpot

\* The two-pass scan of NearestAvailable.allocate picks exactly the spot
\* of the reference definition, for every vehicle type and every
\* occupancy the service reaches.
AllocateIsNearestFit ==
    \A vt \in {MOTORCYCLE, CAR, TRUCK} :
        Allocate(occupied, vt) = AllocateSpec(occupied, vt)

\* After any sequence of park and unpark calls, a spot is occupied exactly
\* when one active ticket names it, and holds that ticket's vehicle
\* (spot.park / spot.free in park and unpark against the repository's
\* tickets).
SpotsMatchTickets ==
    \A s \in SpotIds :
        LET T == {i \in DOMAIN tickets : tickets[i].active /\ tickets[i].spot = s}
        IN /\ occupied[s] <=> T # {}
           /\ Cardinality(T) <= 1
           /\ \A i \in T : parkedIn[s] = tickets[i].plate

\* A closed ticket is charged for every started hour of the stay unpark
\* priced, from entry_time to the datetime.now() that duration() read, and
\* for no more (HourlyPricing.calculate with math.ceil and the one-hour
\* minimum): the fee pays for that stay, and one hour less would not,
\* unless it is the one-hour minimum. The exit_time close() stamps is a
\* second reading of the clock and may lie past an hour boundary the fee
\* did not charge, so the property is about the priced stay.
FeeCoversStay ==
    Pricing = "hourly" =>
    \A i \in DOMAIN tickets :
        ~tickets[i].active =>
        LET d == tickets[i].billed - tickets[i].entry
            r == Rate(TypeOf[tickets[i].plate])
        IN /\ tickets[i].fee * HourTicks >= r * d
           /\ tickets[i].fee >= r
           /\ tickets[i].fee = r \/ (tickets[i].fee - r) * HourTicks < r * d

\* The message of unpark, "vehicle is not currently parked", treats a
\* plate as parked or not: a plate never holds two active tickets.
OneActiveTicketPerPlate ==
    \A i, j \in DOMAIN tickets :
        tickets[i].active /\ tickets[j].active /\ tickets[i].plate = tickets[j].plate
        => i = j
=============================================================================

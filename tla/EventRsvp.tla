----------------------------- MODULE EventRsvp -----------------------------
(***************************************************************************)
(* Registering for a club event, and cancelling                            *)
(* (src/server/src/modules/events, migrations 016 and 023).                *)
(*                                                                         *)
(* One event, whose dates and prices nothing in the server changes.  What  *)
(* a registration costs is computed from the event as it was read, before  *)
(* the transaction; whether there is a seat is decided by a trigger in it, *)
(* under a lock on the event.  A cancellation reads the registration and   *)
(* updates it in two statements, without a transaction.                    *)
(*                                                                         *)
(* Guests and children take a seat each: a party is a number of guests.    *)
(***************************************************************************)
EXTENDS Handlers, Integers, FiniteSets

CONSTANTS
    Capacity,
    MaxGuests,
    Opens, EarlyUntil, StandardUntil, Closes, Starts,   \* the event's dates
    EarlyPrice, StandardPrice, LatePrice,
    MaxTime             \* the clock stops there (bound)

ASSUME EventNumbers ==
    /\ Capacity \in Nat \ {0}
    /\ MaxGuests \in Nat
    /\ {EarlyPrice, StandardPrice, LatePrice} \subseteq Nat
    /\ MaxTime \in Nat

(* events_window_ordered, events_phases_ordered. *)
ASSUME EventDates ==
    /\ {Opens, EarlyUntil, StandardUntil, Closes, Starts} \subseteq Int
    /\ Opens <= Closes
    /\ EarlyUntil <= StandardUntil

VARIABLES
    now,
    reg,        \* the registration of each member, or NotRegistered
    handler,        \* what each request handler is doing
    paidFor,    \* history: the amount a member's payment was for
    overtaken   \* history: members whose payment came while a cancellation
                \* that had read their registration was still under way

rsvpVars == <<now, reg, handler, paidFor, overtaken>>

-----------------------------------------------------------------------------
NotRegistered == [live |-> FALSE]

Party == 0..MaxGuests

Seats(guests) == 1 + guests

(* phaseAt, of an event staff have opened. *)
PhaseAt(t) ==
    IF t < Opens THEN "not_open"
    ELSE IF t > Closes THEN "closed"
    ELSE IF t <= EarlyUntil THEN "early"
    ELSE IF t <= StandardUntil THEN "standard"
    ELSE "late"

NoPrice == -1   \* null: no phase is open

PriceFor(phase) ==
    IF phase = "early" THEN EarlyPrice
    ELSE IF phase = "standard" THEN StandardPrice
    ELSE IF phase = "late" THEN LatePrice
    ELSE NoPrice

(* amountFor, with no card discount: resolveEntitlement answers null. *)
AmountFor(phase, guests) == PriceFor(phase) * Seats(guests)

Amounts == {AmountFor(phase, guests) : phase \in {"early", "standard", "late"}, guests \in Party}

Registration == [live: BOOLEAN, guests: Party, amount: Amounts, paid: BOOLEAN]

Live(m) == reg[m].live

Attending == {m \in Members : Live(m)}

(* The seats of some members, one element each. *)
SeatsOf(some) == UNION {{m} \X (1..Seats(reg[m].guests)) : m \in Attending \cap some}

(* The sum the trigger computes, without the row it is about. *)
Taken(others) == Cardinality(SeatsOf(others))

(* A registration that was not closed has a price; and the columns' types. *)
RsvpTypeOK ==
    /\ now \in 0..MaxTime
    /\ reg \in [Members -> Registration \cup {NotRegistered}]
    /\ handler \in [Requests ->
            {Idle}
            \cup [pc: {"own", "insert", "update", "commit"}, m: Members,
                   guests: Party, amount: Amounts]
            \cup [pc: {"read", "cancel"}, m: Members]]
    /\ paidFor \in [Members -> Amounts \cup {NoPrice}]
    /\ overtaken \in SUBSET Members

RsvpInit ==
    /\ now = 0
    /\ reg = [m \in Members |-> NotRegistered]
    /\ handler = [r \in Requests |-> Idle]
    /\ paidFor = [m \in Members |-> NoPrice]
    /\ overtaken = {}

Tick ==
    /\ now < MaxTime
    /\ now' = now + 1
    /\ UNCHANGED <<reg, handler, paidFor, overtaken>>

Done(r) == handler' = [handler EXCEPT ![r] = Idle]

Goto(r, step) == handler' = [handler EXCEPT ![r].pc = step]

-----------------------------------------------------------------------------
(* registerForEvent *)

Registrable(t) == PhaseAt(t) \notin {"not_open", "closed"}

\* Mutant: the window is left to the client.
StartRegisterAnytime(r, m, guests) ==
    /\ handler[r] = Idle
    /\ handler' = [handler EXCEPT ![r] =
            [pc |-> "own", m |-> m, guests |-> guests, amount |-> AmountFor(PhaseAt(now), guests)]]
    /\ UNCHANGED <<now, reg, paidFor, overtaken>>

(* The event is read, the phase and the amount are settled. *)
StartRegister(r, m, guests) ==
    /\ handler[r] = Idle
    /\ Registrable(now)
    /\ handler' = [handler EXCEPT ![r] =
            [pc |-> "own", m |-> m, guests |-> guests, amount |-> AmountFor(PhaseAt(now), guests)]]
    /\ UNCHANGED <<now, reg, paidFor, overtaken>>

(* Who has the member's row: SELECT ... FOR UPDATE until the commit. *)
RowLocked(m, r) ==
    \E s \in Requests \ {r} : handler[s].pc \in {"update", "commit"} /\ handler[s].m = m /\ reg[m] # NotRegistered

(* A row that is live answers the request; a cancelled one is locked; where
   there is none, nothing is.                                              *)
LockOwn(r) ==
    LET m == handler[r].m IN
    /\ handler[r].pc = "own"
    /\ ~RowLocked(m, r)
    /\ IF Live(m) THEN Done(r)
       ELSE Goto(r, IF reg[m] = NotRegistered THEN "insert" ELSE "update")
    /\ UNCHANGED <<now, reg, paidFor, overtaken>>

(* The lock of the trigger on the event, until the commit. *)
EventLocked == \E s \in Requests : handler[s].pc = "commit"

Full(r) ==
    Taken(IF handler[r].pc = "update" THEN Members \ {handler[r].m} ELSE Members)
        + Seats(handler[r].guests) > Capacity

(* An INSERT meets UNIQUE (event_id, member_id) after the trigger. *)
Duplicate(r) == handler[r].pc = "insert" /\ reg[handler[r].m] # NotRegistered

\* Mutant: the trigger counts without locking the event.
WriteUnlocked(r) ==
    /\ handler[r].pc \in {"insert", "update"}
    /\ IF Full(r) \/ Duplicate(r) THEN Done(r) ELSE Goto(r, "commit")
    /\ UNCHANGED <<now, reg, paidFor, overtaken>>

(* The statement and its trigger: event-full, a unique violation nobody maps,
   or a row that waits for the commit. The sum is read after the lock.      *)
Write(r) ==
    /\ handler[r].pc \in {"insert", "update"}
    /\ ~EventLocked
    /\ IF Full(r) \/ Duplicate(r) THEN Done(r) ELSE Goto(r, "commit")
    /\ UNCHANGED <<now, reg, paidFor, overtaken>>

\* Mutant: a row that is used again keeps what was paid.
CommitPaid(r) ==
    LET m == handler[r].m IN
    /\ handler[r].pc = "commit"
    /\ reg' = [reg EXCEPT ![m] =
            [live |-> TRUE, guests |-> handler[r].guests, amount |-> handler[r].amount,
             paid |-> reg[m] # NotRegistered /\ reg[m].paid]]
    /\ Done(r)
    /\ overtaken' = overtaken \ {m}
    /\ UNCHANGED <<now, paidFor>>

Commit(r) ==
    LET m == handler[r].m IN
    /\ handler[r].pc = "commit"
    /\ reg' = [reg EXCEPT ![m] =
            [live |-> TRUE, guests |-> handler[r].guests, amount |-> handler[r].amount,
             paid |-> FALSE]]
    /\ Done(r)
    /\ overtaken' = overtaken \ {m}
    /\ UNCHANGED <<now, paidFor>>

-----------------------------------------------------------------------------
(* cancelRegistration *)

StartCancel(r, m) ==
    /\ handler[r] = Idle
    /\ now < Starts
    /\ handler' = [handler EXCEPT ![r] = [pc |-> "read", m |-> m]]
    /\ UNCHANGED <<now, reg, paidFor, overtaken>>

\* Mutant: paid or not.
ReadRegistrationPaid(r) ==
    /\ handler[r].pc = "read"
    /\ IF Live(handler[r].m) THEN Goto(r, "cancel") ELSE Done(r)
    /\ UNCHANGED <<now, reg, paidFor, overtaken>>

(* Not registered, or paid: refused. *)
ReadRegistration(r) ==
    LET m == handler[r].m IN
    /\ handler[r].pc = "read"
    /\ IF Live(m) /\ ~reg[m].paid THEN Goto(r, "cancel") ELSE Done(r)
    /\ UNCHANGED <<now, reg, paidFor, overtaken>>

(* UPDATE ... WHERE id AND cancelled_at IS NULL: a member has one row, so a
   registration made since is cancelled as well.                           *)
WriteCancel(r) ==
    LET m == handler[r].m IN
    /\ handler[r].pc = "cancel"
    /\ ~RowLocked(m, r)
    /\ reg' = [reg EXCEPT ![m].live = FALSE]
    /\ Done(r)
    /\ UNCHANGED <<now, paidFor, overtaken>>

(* The deadline, or a statement that fails: the transaction is rolled back. *)
GiveUp(r) ==
    /\ handler[r] # Idle
    /\ Done(r)
    /\ UNCHANGED <<now, reg, paidFor, overtaken>>

(* Staff record a payment, outside this server. *)
MarkPaid(m) ==
    /\ Live(m)
    /\ ~reg[m].paid
    /\ ~\E s \in Requests : RowLocked(m, s)
    /\ reg' = [reg EXCEPT ![m].paid = TRUE]
    /\ paidFor' = [paidFor EXCEPT ![m] = reg[m].amount]
    /\ overtaken' = IF \E s \in Requests : handler[s] = [pc |-> "cancel", m |-> m]
                    THEN overtaken \cup {m} ELSE overtaken
    /\ UNCHANGED <<now, handler>>

-----------------------------------------------------------------------------
RequestStep(r) ==
    \/ LockOwn(r)
    \/ Write(r)
    \/ Commit(r)
    \/ ReadRegistration(r)
    \/ WriteCancel(r)
    \/ GiveUp(r)

RsvpNext ==
    \/ Tick
    \/ \E m \in Members : MarkPaid(m)
    \/ \E r \in Requests :
        \/ \E m \in Members, guests \in Party : StartRegister(r, m, guests)
        \/ \E m \in Members : StartCancel(r, m)
        \/ RequestStep(r)

RsvpSpec == RsvpInit /\ [][RsvpNext]_rsvpVars

-----------------------------------------------------------------------------
(* "Overselling impossible rather than unlikely": however first
   registrations, new ones after a cancellation and cancellations overlap, the
   parties of the registrations that are not cancelled fit the event.        *)
SeatsWithinCapacity == Taken(Members) <= Capacity

(* A payment is for the registration it is shown on: one that is used again
   with another party or at another price owes its amount anew.             *)
PaidIsForThis ==
    \A m \in Members : Live(m) /\ reg[m].paid => paidFor[m] = reg[m].amount

(* A paid registration is not cancelled here ("a paid cancellation is a
   refund"), unless it was paid while the cancellation was under way.       *)
PaidStays ==
    [][\A m \in Members : Live(m) /\ reg[m].paid /\ m \notin overtaken => Live(m)']_rsvpVars
=============================================================================

---------------------------- MODULE ServingGates ----------------------------
(***************************************************************************)
(* The ServingGate: its shared State, the read handles (View), the         *)
(* registrations of the subscriptions and the driver that blocks and       *)
(* allows.  Readers take no lock, so the stores of SetBlocked are steps of *)
(* their own.  The State lives as long as the gate or a View; a            *)
(* Registration only knows whether it still lives.  MultiplexStream models *)
(* what one subscription does with the gate.                               *)
(***************************************************************************)
EXTENDS Naturals, Sequences, FiniteSets, SequencesExt

CONSTANTS
  Slots,         \* the places a Registration, and a View, is kept in
  MaxGateIds,    \* bound: registrations made
  MaxGateBlocks  \* bound: calls of SetBlocked

VARIABLES
  gate_alive,
  gate_state,    \* State: allowed, blocked_status, next_id, the ids in sweepers
  registration,  \* each slot: the id of its Registration, 0 for an empty one
  views,         \* the slots with a View of the gate
  driver,        \* where SetBlocked is, and the sweepers it still has to call
  swept,         \* ghost: the ids told of the current block
  seen,          \* what each View's reader read: allowed, then the status
  gblocks

gavars == <<gate_alive, gate_state, registration, views, driver, swept, seen, gblocks>>

GaInit ==
  /\ gate_alive = TRUE
  /\ gate_state = [allowed |-> TRUE, blocked_status |-> "Bad", next_id |-> 1,
                   sweepers |-> {}]
  /\ registration = [s \in Slots |-> 0] /\ views = {}
  /\ driver = [pc |-> "idle", left |-> <<>>, told |-> {}]
  /\ swept = {} /\ seen = [s \in Slots |-> "none"] /\ gblocks = 0

\* state_.lock(): the weak pointer finds the State.
StateLives == gate_alive \/ views # {}

-----------------------------------------------------------------------------
(* Registrations *)

Erased(id) == IF StateLives THEN gate_state.sweepers \ {id} ELSE gate_state.sweepers

\* Register, and the Registration it returns kept in an empty slot.
Register(s) ==
  /\ gate_alive /\ registration[s] = 0 /\ gate_state.next_id <= MaxGateIds
  /\ registration' = [registration EXCEPT ![s] = gate_state.next_id]
  /\ gate_state' = [gate_state EXCEPT !.next_id = @ + 1, !.sweepers = @ \cup {gate_state.next_id}]
  /\ UNCHANGED <<gate_alive, views, driver, swept, seen, gblocks>>

\* ~Registration.
ResetRegistration(s) ==
  /\ registration[s] # 0
  /\ gate_state' = [gate_state EXCEPT !.sweepers = Erased(registration[s])]
  /\ registration' = [registration EXCEPT ![s] = 0]
  /\ UNCHANGED <<gate_alive, views, driver, swept, seen, gblocks>>

\* Registration::operator=(Registration&&).
MoveAssign(from, to) ==
  /\ from # to /\ registration[from] # 0
  /\ gate_state' = [gate_state EXCEPT !.sweepers = Erased(registration[to])]
  /\ registration' = [registration EXCEPT ![to] = registration[from], ![from] = 0]
  /\ UNCHANGED <<gate_alive, views, driver, swept, seen, gblocks>>

-----------------------------------------------------------------------------
(* Views *)

view(s) ==
  /\ gate_alive /\ s \notin views /\ views' = views \cup {s}
  /\ seen' = [seen EXCEPT ![s] = "none"]
  /\ UNCHANGED <<gate_alive, gate_state, registration, driver, swept, gblocks>>

DropView(s) ==
  /\ s \in views /\ views' = views \ {s}
  /\ UNCHANGED <<gate_alive, gate_state, registration, driver, swept, seen, gblocks>>

\* A notification: View::allowed, and on the next step View::blocked_status.
ReadAllowed(s) ==
  /\ s \in views
  /\ seen' = [seen EXCEPT ![s] = IF gate_state.allowed THEN "allowed" ELSE "blocked"]
  /\ UNCHANGED <<gate_alive, gate_state, registration, views, driver, swept, gblocks>>

ReadStatus(s) ==
  /\ s \in views /\ seen[s] = "blocked"
  /\ seen' = [seen EXCEPT ![s] = gate_state.blocked_status]
  /\ UNCHANGED <<gate_alive, gate_state, registration, views, driver, swept, gblocks>>

-----------------------------------------------------------------------------
(* The driver *)

\* SetBlocked takes the lock and stores the status ...
StoreStatus ==
  /\ gate_alive /\ driver.pc = "idle" /\ gate_state.allowed /\ gblocks < MaxGateBlocks
  /\ gblocks' = gblocks + 1 /\ swept' = {}
  /\ gate_state' = [gate_state EXCEPT !.blocked_status = "Bad_LicenseExpired"]
  /\ driver' = [driver EXCEPT !.pc = "stored"]
  /\ UNCHANGED <<gate_alive, registration, views, seen>>

\* ... then blocks and copies the sweepers, in the order of a hash table, and
\* gives the lock up.
CopySweepers ==
  /\ driver.pc = "stored"
  /\ gate_state' = [gate_state EXCEPT !.allowed = FALSE]
  /\ \E order \in SetToSeqs(gate_state.sweepers) :
       driver' = [pc |-> "sweeping", left |-> order, told |-> gate_state.sweepers]
  /\ UNCHANGED <<gate_alive, registration, views, swept, seen, gblocks>>

\* Calls the next sweeper without the lock.  The subscription may be gone: its
\* sweeper holds a weak pointer and then does nothing.
CallSweeper ==
  /\ driver.pc = "sweeping" /\ driver.left # <<>>
  /\ swept' = swept \cup {Head(driver.left)}
  /\ driver' = [driver EXCEPT !.left = Tail(@)]
  /\ UNCHANGED <<gate_alive, gate_state, registration, views, seen, gblocks>>

Swept ==
  /\ driver.pc = "sweeping" /\ driver.left = <<>>
  /\ driver' = [driver EXCEPT !.pc = "idle"]
  /\ UNCHANGED <<gate_alive, gate_state, registration, views, swept, seen, gblocks>>

SetGateAllowed ==
  /\ gate_alive /\ driver.pc = "idle" /\ ~gate_state.allowed
  /\ gate_state' = [gate_state EXCEPT !.allowed = TRUE]
  /\ UNCHANGED <<gate_alive, registration, views, driver, swept, seen, gblocks>>

\* The owner drops the gate after its driver.
DropGate ==
  /\ gate_alive /\ driver.pc = "idle" /\ gate_alive' = FALSE
  /\ UNCHANGED <<gate_state, registration, views, driver, swept, seen, gblocks>>

\* The lock keeps registrations out between the two sections of SetBlocked.
Locked == driver.pc = "stored"

GaNext ==
  \/ \E s \in Slots : \/ ~Locked /\ (Register(s) \/ ResetRegistration(s))
                      \/ view(s) \/ DropView(s) \/ ReadAllowed(s) \/ ReadStatus(s)
  \/ \E from, to \in Slots : ~Locked /\ MoveAssign(from, to)
  \/ StoreStatus \/ CopySweepers \/ CallSweeper \/ Swept \/ SetGateAllowed \/ DropGate

-----------------------------------------------------------------------------
(* Properties *)

Held == {registration[s] : s \in Slots} \ {0}

\* While the gate lives its registry holds the subscriptions that exist and no
\* other, however registrations are made, moved and dropped; and when
\* SetBlocked returned, every subscription that was registered when it blocked
\* and still exists was told, also one whose values never change
\* (ServingGate::Registration, SetBlocked).
EveryoneIsSwept ==
  /\ gate_alive => gate_state.sweepers = Held
  /\ driver.pc = "idle" /\ ~gate_state.allowed => driver.told \cap Held \subseteq swept

\* A notification that finds the gate blocked is rewritten to the status of the
\* driver, never to the one the gate was made with (SetBlocked stores the
\* status before it blocks).
BlockedStatusIsGiven == \A s \in views : seen[s] # "Bad"
=============================================================================

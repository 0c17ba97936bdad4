----------------------------- MODULE ComputeSlots -----------------------------
(* The process-wide limit on inference and the lock that keeps it out while a   *)
(* model is removed (src/security/compute.ts).  Neither waits: who finds no     *)
(* slot gets a ComputeCapacityError.                                            *)
EXTENDS Integers, FiniteSets, Sequences

CONSTANT Capacity \* GSTD_MAX_INFERENCE_CONCURRENCY, 1 to 4

ASSUME CapacityAssumption == Capacity \in Nat \ {0}

VARIABLES active,     \* computations that hold a slot
          maintenance \* is a model being removed?

slotVars == <<active, maintenance>>

SlotsInit == active = 0 /\ maintenance = FALSE

CapacityAvailable == ~maintenance /\ active < Capacity

\* withComputeSlot() enters and leaves.
TakeSlot == CapacityAvailable /\ active' = active + 1 /\ UNCHANGED maintenance
FreeSlot == active' = active - 1 /\ UNCHANGED maintenance

\* acquireComputeMaintenance() and the release it returns.
AcquireMaintenance == active = 0 /\ ~maintenance /\ maintenance' = TRUE /\ UNCHANGED active
ReleaseMaintenance == maintenance' = FALSE /\ UNCHANGED active

SlotsTypeOK == active \in 0 .. Capacity /\ maintenance \in BOOLEAN
=============================================================================

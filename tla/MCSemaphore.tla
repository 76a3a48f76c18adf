----------------------------- MODULE MCSemaphore -----------------------------
(* The semaphore with three harts; a hart may take several turns.          *)
EXTENDS Semaphore

=============================================================================

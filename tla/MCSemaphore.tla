----------------------------- MODULE MCSemaphore -----------------------------
(* A semaphore with a few coroutines that hold it, for TLC.                *)
EXTENDS Semaphore
=============================================================================

----------------------------- MODULE MCSpinLock -----------------------------
(* Three CPUs contending for the lock of SpinLock, one of them careless.   *)
EXTENDS SpinLock

CONSTANTS c1, c2, c3

MCCPUs == {c1, c2, c3}

CarelessOne == {c3}

=============================================================================

------------------------------- MODULE Mutex -------------------------------
(***************************************************************************)
(* What the big kernel lock promises to the rest of JOS: at any time at    *)
(* most one CPU is between lock_kernel() and unlock_kernel(), and only     *)
(* that CPU ends the section.  kern/spinlock.c implements it (SpinLock),   *)
(* and the kernel proper (EnvSched) is written on top of it.               *)
(***************************************************************************)

CONSTANTS CPUs,     \* the processors
          NoCPU     \* nobody: the null struct Cpu pointer

VARIABLE holder     \* the CPU inside the critical section, or NoCPU

Init == holder = NoCPU

Acquire(c) == holder = NoCPU /\ holder' = c

Release(c) == holder = c /\ holder' = NoCPU

Next == \E c \in CPUs : Acquire(c) \/ Release(c)

Spec == Init /\ [][Next]_holder

=============================================================================

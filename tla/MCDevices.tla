----------------------------- MODULE MCDevices -----------------------------
EXTENDS Devices

\* The disk alone (three requests of three descriptors: one has to wait), keys
\* and reads, and keys while a process writes; all ring indices about to wrap.
Work(o, k, r, w) == [ops |-> o, keys |-> k, reads |-> r, writes |-> w, start |-> WRAP - 1]
MCWorkloads == {Work(3, 0, 0, 0), Work(0, 3, 2, 0), Work(0, 2, 1, 2)}
=============================================================================

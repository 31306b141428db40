------------------------------ MODULE MCSyncFifo ------------------------------
(* The FIFO with the depth of the header and acknowledge buffers of the    *)
(* memory access unit (AWIDTH = 2).                                        *)
EXTENDS SyncFifo
=============================================================================

------------------------------- MODULE MCL1D -------------------------------
(* The data cache with two ways: a run about the byte lanes of one set and  *)
(* a run about the words and sets of the line memories.                     *)
EXTENDS L1D, TLC

CONSTANTS v0, v1, A, B, IO, way0, way1

At(tag, idx, word) == [tag |-> tag, idx |-> idx, word |-> word]
Blank == [l \in Lanes |-> v0]

(* The loads and stores of a size at a lane: a load has no data, and the   *)
(* byte lanes that a store does not write hold v0.                          *)
LoadsOf(op, locs, lane, size) ==
    {[op |-> op, loc |-> x, lane |-> lane, size |-> size, data |-> Blank] : x \in locs}
StoresOf(op, locs, lane, size) ==
    {r \in [op : {op}, loc : locs, lane : {lane}, size : {size}, data : Word] :
        \A l \in Lanes : l < lane \/ l >= lane + size => r.data[l] = v0}

Cached == {At(A, 0, 0), At(B, 0, 0)}
Direct == {At(IO, 0, 0)}

(* Two byte lanes; sub-word requests at lane 0, which is where the bus has *)
(* them; the addresses of non-cached requests are not cached ones.         *)
LaneReqs == LoadsOf("RD", Cached, 0, 2) \cup LoadsOf("RD", Cached, 0, 1)
            \cup StoresOf("WR", Cached, 0, 2) \cup StoresOf("WR", Cached, 0, 1)
            \cup LoadsOf("RDNC", Direct, 0, 2)
            \cup {r \in StoresOf("WRNC", Direct, 0, 2) : r.data[0] = r.data[1]}

(* One byte lane, two words in a line, two sets.                            *)
Many == {At(A, 0, 0), At(A, 0, 1), At(B, 0, 0), At(A, 1, 0)}
WordReqs == LoadsOf("RD", Many, 0, 1) \cup StoresOf("WR", Many, 0, 1)

(* A store of one byte at lane 1.                                           *)
ByteReqs == LoadsOf("RD", {At(A, 0, 0)}, 0, 2) \cup StoresOf("WR", Cached, 1, 1)

(* For liveness: one address, loads and full stores.                        *)
LiveReqs == LoadsOf("RD", {At(A, 0, 0)}, 0, 2) \cup StoresOf("WR", Cached, 0, 2)
            \cup LoadsOf("RDNC", Direct, 0, 2)

WaySymmetry == Permutations({way0, way1})
Symmetries == Permutations({A, B}) \cup WaySymmetry
=============================================================================

---------------------------- MODULE MCShadowLoop ----------------------------
(***************************************************************************)
(* Every list of up to three breakpoints of three bytes at seven           *)
(* addresses, and every range of up to five bytes, the empty one included. *)
(* Bytes are named by where they come from, so that one copied from the    *)
(* wrong place shows.                                                      *)
(***************************************************************************)
EXTENDS ShadowLoop

MCAddr == 0 .. 8
MCByte == {<<"buf", k>> : k \in 0 .. 4} \cup {<<"trap", k>> : k \in 0 .. 2}
            \cup {<<"old", i, k>> : i \in 1 .. 3, k \in 0 .. 2}
MCZero == <<"buf", 0>>
MCTrap == [k \in 0 .. 2 |-> <<"trap", k>>]

ListAt(pcs) == [i \in DOMAIN pcs |-> [pc |-> pcs[i], old_data |-> [k \in 0 .. 2 |-> <<"old", i, k>>]]]

MCLists == {ListAt(pcs) : pcs \in UNION {[1 .. n -> 0 .. 6] : n \in 0 .. 3}}
MCBuffers == {[k \in 0 .. len - 1 |-> <<"buf", k>>] : len \in 0 .. 5}
=============================================================================

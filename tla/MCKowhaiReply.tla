---------------------------- MODULE MCKowhaiReply ----------------------------
(***************************************************************************)
(* The replies for TLC. A packet of 24 bytes leaves 15 bytes of payload to *)
(* an id list, 11 to the symbol list, 17 to an event and 13 - 4n to a read *)
(* with n symbols, and the totals lie below, at and above one, two and     *)
(* three packets. Strings count their terminator.                          *)
(***************************************************************************)
EXTENDS KowhaiReply

Plain == [kind |-> "event", symbols |-> 0, strings |-> <<>>, size |-> 0, count |-> 1, index |-> 0]

MCRequests ==
    {[Plain EXCEPT !.kind = kind, !.size = size] :
        kind \in {"id_list", "descriptor", "result", "event"}, size \in 0..52}
    \cup {[Plain EXCEPT !.kind = "symbol_list", !.strings = strings] :
             strings \in SeqOf({1, 2, 11, 12, 24}, 4)}
    \cup {r \in {[Plain EXCEPT !.kind = "read", !.symbols = symbols, !.count = count,
                               !.size = count * element, !.index = index] :
                    symbols \in 1..3, count \in 1..5, element \in {1, 2, 4, 9}, index \in 0..4} :
             r.index < r.count}
=============================================================================

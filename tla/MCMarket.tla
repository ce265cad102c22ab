------------------------------ MODULE MCMarket ------------------------------
(* Values for Market's constants in the model-checking runs. *)
EXTENDS Market

CONSTANTS g1, g2, g3, i1, c1, c2

MCOwnerOf == [i \in Items |-> g1]

\* Requests that change one field, as the trading screen sends them.
Keep == [qty |-> 0, price |-> 0, expires |-> -1, cert |-> KeepCert]
AmendQuantity == {[Keep EXCEPT !.qty = q] : q \in 1 .. MaxQty}
AmendPrice == {[Keep EXCEPT !.price = p] : p \in Prices}
AmendExpiry == {[Keep EXCEPT !.expires = e] : e \in 1 .. MaxClock}
ClearExpiry == {[Keep EXCEPT !.expires = NoExpiry]}
AmendCert == {[Keep EXCEPT !.cert = c] : c \in Certs \union {AnyCert}}

MCLedgerAmendments == AmendQuantity \union AmendExpiry \union ClearExpiry
MCMatchingAmendments == AmendPrice

MCNoPrincipals == {}
MCBuyer == {<<g2, "BID">>}
MCSupplier == {<<g1, "ASK">>}
=============================================================================

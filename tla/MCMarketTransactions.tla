------------------------ MODULE MCMarketTransactions ------------------------
(* A supplier with a listing (order 1), a buyer with a bid (order 2) and a   *)
(* pending trade on the listing, an administrator, one slice.              *)
EXTENDS MarketTransactions

CONSTANTS d1, d2

Buyer == 1
Supplier == 2
Admin == 3
BuyerOrg == 1
SupplierOrg == 2
Staff == 3

By(op, actor, org, key) ==
    [op |-> op, actor |-> actor, org |-> org, key |-> key, body |-> "b1",
     slices |-> {1}, trades |-> {}, orders |-> {1}, crossing |-> {}, users |-> {Buyer, Supplier},
     orgs |-> {BuyerOrg, SupplierOrg}, items |-> {1}, revokes |-> {}]

Bid == [By("create_order", Buyer, BuyerOrg, 1) EXCEPT !.orders = {}, !.crossing = {1}]
OtherBid == [Bid EXCEPT !.body = "b2"]
Amend == [By("update_order", Supplier, SupplierOrg, 2) EXCEPT !.crossing = {2}]
CancelListing == By("cancel_order", Supplier, SupplierOrg, 3)
Hit == By("create_trade", Buyer, BuyerOrg, 4)
Confirm == [By("confirm_trade", Supplier, SupplierOrg, 5) EXCEPT !.trades = {1}]
Settle == [By("settle_trade", Supplier, SupplierOrg, 6) EXCEPT !.trades = {1}]
Decline == [By("decline_trade", Supplier, SupplierOrg, 7) EXCEPT !.trades = {1}]
Publish == [By("publish_inventory_item", Supplier, SupplierOrg, NoKey) EXCEPT !.crossing = {2}]
Edit == By("edit_inventory", Supplier, SupplierOrg, NoKey)
Expel == [By("reject_organization", Admin, SupplierOrg, NoKey)
             EXCEPT !.trades = {1}, !.users = {Supplier},
                    !.revokes = {<<"org", SupplierOrg>>, <<"user", Supplier>>}]
Ban == [By("reject_user", Admin, Staff, NoKey)
           EXCEPT !.users = {Supplier}, !.revokes = {<<"user", Supplier>>}]

AllCommands == {Bid, OtherBid, Amend, CancelListing, Hit, Confirm, Settle, Decline, Publish,
                Edit, Expel, Ban}
=============================================================================

------------------------------ MODULE MCStores ------------------------------
(* The stores behind the booking example's surfaces: the two ledgers of     *)
(* bookings, and the tenant's record, owners, skill bundles and documents.  *)
(* They share no state: a run works one of them while the others rest.      *)
EXTENDS BookingDesk, Storefront, TenantRecords, Owners, Worker, TLC

CONSTANTS a, b, c, ann, bob, trim, asha, key

VARIABLE side

CallersVal   == {a, b, c}
ContactsVal  == {ann, bob}
ContactOfVal == (a :> ann) @@ (b :> ann) @@ (c :> bob)

ClientsVal    == {a, b}
ItemsVal      == {trim, asha}
TeamVal       == {asha}
KeysVal       == {key}
KeyOfVal      == (a :> key) @@ (b :> key)
ServicesOfVal == key :> {trim}
DayOfVal      == key :> "mon"

Sides == {"desk", "store", "records", "owners", "bundles", "docs"}

Init == DeskInit /\ StoreInit /\ RecordInit /\ OwnerInit /\ BundleInit /\ DocInit
        /\ side \in Sides /\ (side = "desk" \/ tables = 1)

Rest(s) ==
  /\ s # "desk" => UNCHANGED deskVars
  /\ s # "store" => UNCHANGED storeVars
  /\ s # "records" => UNCHANGED recordVars
  /\ s # "owners" => UNCHANGED ownerVars
  /\ s # "bundles" => UNCHANGED bundleVars
  /\ s # "docs" => UNCHANGED docVars

Next ==
  /\ UNCHANGED side
  /\ \/ side = "desk" /\ DeskNext
     \/ side = "store" /\ StoreNext
     \/ side = "records" /\ RecordNext
     \/ side = "owners" /\ OwnerNext
     \/ side = "bundles" /\ BundleNext
     \/ side = "docs" /\ DocNext
  /\ Rest(side)

Spec == Init /\ [][Next]_<<side, deskVars, storeVars, recordVars, ownerVars, bundleVars, docVars>>
=============================================================================

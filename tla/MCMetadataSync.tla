--------------------------- MODULE MCMetadataSync ---------------------------
(* A small instance of MetadataSync: two tables, one of them with a         *)
(* sensitive column that is marked for the sync, and two files.             *)
EXTENDS MetadataSync

CONSTANTS region, phone, amount, gmv, aov

MCTableOf == [c \in Columns |-> IF c = amount THEN "orders" ELSE "customers"]
MCNormal == [raw \in RawValues |-> CASE raw \in {"north", " north "} -> "north"
                                     [] raw = "south" -> "south"
                                     [] OTHER -> NoValue]

Small ==
  [columns |-> {region, phone}, synced |-> {region, phone},
   metrics |-> {gmv}, relevant |-> [m \in {gmv} |-> {region}],
   says |-> [x \in {region, phone, gmv} |-> "old"]]

Large ==
  [columns |-> {region, amount}, synced |-> {region, amount},
   metrics |-> {gmv, aov}, relevant |-> [m \in {gmv, aov} |-> {amount}],
   says |-> [x \in {region, amount, gmv, aov} |-> "new"]]

MCConfigs == {Small, Large}
=============================================================================

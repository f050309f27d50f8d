-------------------------- MODULE MCCatalogueItems --------------------------
(* CatalogueItems with two values per column and one request of each kind: *)
(* each column alone, the three price types, a price that the type forces. *)
EXTENDS CatalogueItems

MCServices == {"web", "app"}
MCPrices == {"0.0", "80.0"}
MCDescriptions == {"old", "new"}

MCBodies ==
    {[service |-> "app"],
     [description |-> "new"],
     [description |-> "old"],
     [price |-> "80.0"],
     [price |-> "0.0"],
     [price_type |-> "FIXED", price |-> "80.0"],
     [price_type |-> "VARIABLE", price |-> "80.0"],
     [price_type |-> "FREE", description |-> "new"]}

MCIngested ==
    {[service |-> "web", price |-> "0.0", price_type |-> "FIXED",
      description |-> "old"]}

=============================================================================
